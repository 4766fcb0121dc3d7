-------------------------------- MODULE Gate --------------------------------
(* The Gate: createGate() of packages/gate/src/gate.ts.  It stands between a *)
(* client and one upstream model, and runs a stack of guardrails over every  *)
(* request (pre-think), every call the model proposes (pre-act) and what the *)
(* call returned, which the next request carries (post-act).  One            *)
(* conversation; its requests are async and may overlap, and what a request  *)
(* does between two awaits is one step.  A chain's verdict, the upstream's   *)
(* answer and the operator's are chosen freely.                              *)
EXTENDS Integers, Sequences, SequencesExt, FiniteSets, FiniteSetsExt

CONSTANTS
  Requests,   \* the requests that may be open at once
  MaxTurns,   \* the bound on turns
  MaxCalls,   \* the most calls an upstream answer proposes
  Modes,      \* the modes the Gate may be started in: "enforce", "shadow"
  Liberties   \* what the Gate's users may do beyond the documented round trip,
              \* and what its guardrails may do beyond giving a verdict

ASSUME GateAssumption ==
  /\ MaxTurns \in Nat \ {0} /\ MaxCalls \in Nat /\ Modes \subseteq {"enforce", "shadow"}
  /\ Liberties \subseteq
       {"overlap",              \* a request while another of the conversation is open
        "call-after-end",       \* a request after the conversation was ended
        "ahead-of-answers",     \* a new turn while an answer is held for a person, or
                                \* without the result of a call of the last
        "redeem-after-close",   \* fetching a held answer of a closed conversation
        "answer-after-finish",  \* the operator answers for a conversation that is over
        "pauses-in-one-answer", \* two calls of one answer pause
        "post-act-throws"}      \* a guardrail throws while a result is screened

VARIABLES
  mode,      \* options.mode
  conv,      \* the Conversation
  req,       \* the open handle() or end() of each request
  ap,        \* the approval of a turn's answer
  told,      \* the calls whose results the client's messages hold, in order
  \* What has happened, for the properties:
  given,     \* calls given to the client
  pausing,   \* calls whose chain said pause, in enforce mode
  screened,  \* calls whose result has been through post-act, and NoCall
  seenAbove, \* calls whose result the upstream has been sent
  late,      \* an event was written after run.finished
  took       \* the liberties taken so far

convVars == <<mode, conv, req, ap, told>>
history == <<given, pausing, screened, seenAbove, late, took>>
vars == <<convVars, history>>

Turns == 1 .. MaxTurns
Calls == Turns \X (1 .. MaxCalls)
NoCall == <<0, 0>>
Verdicts == {"allow", "pause", "block-action", "stop-run"}

NoPending == [tick |-> 0, calls |-> {}]
NoApproval == [status |-> "none", call |-> NoCall, kept |-> {}, refused |-> {}]
Idle == [pc |-> "idle", ends |-> FALSE, tools |-> <<>>, unscreened |-> {}, todo |-> <<>>,
         tick |-> 0, kept |-> {}, held |-> NoCall, stopped |-> FALSE]

Enforcing == mode = "enforce"
Trips(verdict) == Enforcing /\ verdict \in {"block-action", "stop-run"}
Open == {r \in Requests : req[r].pc # "idle"}

(* emit(): nothing keeps an event from following run.finished. *)
Emit == late' = (late \/ conv.finished)

(* finish(): run.finished once, whoever asks. *)
Closed(c) == [c EXCEPT !.closed = TRUE, !.finished = TRUE]

(* What is beyond the round trip needs its liberty, and is remembered. *)
Takes(beyond) == beyond \subseteq Liberties /\ took' = took \union beyond
When(liberty, condition) == IF condition THEN {liberty} ELSE {}

Init ==
  /\ mode \in Modes
  /\ conv = [tick |-> 0, pending |-> NoPending, seen |-> 0, closed |-> FALSE, finished |-> FALSE]
  /\ req = [r \in Requests |-> Idle] /\ ap = [t \in Turns |-> NoApproval]
  /\ told = <<>>
  /\ given = {} /\ pausing = {} /\ screened = {NoCall} /\ seenAbove = {}
  /\ late = FALSE /\ took = {}

--------------------------------------------------------------------------------
(* The client *)

Answered == told \o SetToSeq(given \ ToSet(told))

(* The messages of the client's next request: it has run the calls it was *)
(* given since the last one, or it repeats what it sent.                  *)
Messages == {told, Answered}

(* MUTANT of Screening: off by one in the messages already seen. *)
ScreeningAfterNext(tools) ==
  LET fresh == {tools[i] : i \in conv.seen + 2 .. Len(tools)}
      answers == fresh \intersect conv.pending.calls
  IN IF conv.pending.tick = 0 THEN {} ELSE IF answers = {} THEN {NoCall} ELSE answers

(* post-act's first step: it is over the tool messages not seen before that  *)
(* answer the last turn's calls, or over nothing when none does.  Which is   *)
(* screened first tells nothing apart: they are a set.                       *)
Screening(tools) ==
  LET fresh == {tools[i] : i \in conv.seen + 1 .. Len(tools)}
      answers == fresh \intersect conv.pending.calls
  IN IF conv.pending.tick = 0 THEN {} ELSE IF answers = {} THEN {NoCall} ELSE answers

Begin(r, tools, ends) ==
  /\ req' = [req EXCEPT ![r] =
               [Idle EXCEPT !.pc = "postAct", !.ends = ends, !.tools = tools,
                            !.unscreened = Screening(tools)]]
  /\ conv' = IF conv.pending.tick = 0 THEN conv
             ELSE [conv EXCEPT !.pending = NoPending, !.seen = Len(tools)]
  /\ told' = tools

(* An answer was held for a person and the client has not fetched it. *)
Waiting == {t \in Turns : ap[t].status \in {"pending", "approved", "denied"}}

(* A new turn, past the look at the closed reply. *)
NewTurn(r) ==
  /\ req[r].pc = "idle"
  /\ conv.tick + Cardinality(Open) < MaxTurns
  /\ \E tools \in Messages :
       /\ Takes(When("overlap", Open # {}) \union When("call-after-end", conv.finished)
                \union When("ahead-of-answers", Waiting # {} \/ tools # Answered))
       /\ Begin(r, tools, FALSE)
  /\ UNCHANGED <<mode, ap, given, pausing, screened, seenAbove, late>>

(* MUTANT of Request: the closed reply is not looked for. *)
RequestWhenClosed(r) == NewTurn(r)

(* handle(), a new turn; a closed conversation only repeats its reply. *)
Request(r) == ~conv.closed /\ NewTurn(r)

(* end() of a conversation that has had a request: its post-act is over *)
(* whatever messages it is given.                                       *)
End(r) ==
  /\ req[r].pc = "idle" /\ (conv.tick > 0 \/ Open # {}) /\ ~conv.closed
  /\ Takes(When("overlap", Open # {}) \union When("call-after-end", conv.finished))
  /\ \E tools \in Messages : Begin(r, tools, TRUE)
  /\ UNCHANGED <<mode, ap, given, pausing, screened, seenAbove, late>>

(* MUTANT of Redeem: the answer is given whole, whatever the operator said. *)
RedeemKept(t) ==
  /\ ap[t].status \in {"approved", "denied"}
  /\ Takes(When("redeem-after-close", conv.closed) \union When("overlap", Open # {}))
  /\ given' = given \union ap[t].kept
  /\ ap' = [ap EXCEPT ![t].status = IF @ = "approved" THEN "kept" ELSE "refused"]
  /\ UNCHANGED <<mode, conv, req, told, pausing, screened, seenAbove, late>>

(* handle() with x-craftabot-approval, once the operator has said: the closed *)
(* conversation's reply is looked at only after it.                           *)
Redeem(t) ==
  /\ ap[t].status \in {"approved", "denied"}
  /\ Takes(When("redeem-after-close", conv.closed) \union When("overlap", Open # {}))
  /\ given' = given \union IF ap[t].status = "approved" THEN ap[t].kept ELSE ap[t].refused
  /\ ap' = [ap EXCEPT ![t].status = IF @ = "approved" THEN "kept" ELSE "refused"]
  /\ UNCHANGED <<mode, conv, req, told, pausing, screened, seenAbove, late>>

(* approve(): once for each approval. *)
Approve(t) ==
  /\ ap[t].status = "pending"
  /\ Takes(When("answer-after-finish", conv.finished))
  /\ \/ /\ ap' = [ap EXCEPT ![t].status = "approved"]
        /\ UNCHANGED conv
     \/ /\ ap' = [ap EXCEPT ![t].status = "denied"]
        /\ conv' = [conv EXCEPT !.pending.calls = @ \ {ap[t].call}]
  /\ Emit
  /\ UNCHANGED <<mode, req, told, given, pausing, screened, seenAbove>>

--------------------------------------------------------------------------------
(* A request, from await to await *)

(* MUTANT of PostAct: the trip closes the conversation, and the request goes on. *)
PostActGoesOn(r) ==
  /\ req[r].pc = "postAct"
  /\ Emit
  /\ \E call \in req[r].unscreened :
       /\ screened' = screened \union {call}
       /\ req' = [req EXCEPT ![r].unscreened = @ \ {call}]
  /\ conv' \in {conv} \union IF Enforcing THEN {Closed(conv)} ELSE {}
  /\ UNCHANGED <<mode, ap, told, given, pausing, seenAbove, took>>

(* One post-act chain; a trip closes the conversation. *)
PostAct(r) ==
  /\ req[r].pc = "postAct"
  /\ Emit
  /\ \E call \in req[r].unscreened :
       /\ screened' = screened \union {call}
       /\ \/ /\ req' = [req EXCEPT ![r].unscreened = @ \ {call}]
             /\ UNCHANGED conv
          \/ /\ Enforcing
             /\ conv' = Closed(conv)
             /\ req' = [req EXCEPT ![r] = Idle]
  /\ UNCHANGED <<mode, ap, told, given, pausing, seenAbove, took>>

(* end() after its post-act. *)
Finish(r) ==
  /\ req[r].pc = "postAct" /\ req[r].unscreened = {} /\ req[r].ends
  /\ conv' = [conv EXCEPT !.finished = TRUE]
  /\ req' = [req EXCEPT ![r] = Idle]
  /\ UNCHANGED <<mode, ap, told, history>>

(* The turn is counted, and run.started and prompt.composed are written. *)
Compose(r) ==
  /\ req[r].pc = "postAct" /\ req[r].unscreened = {} /\ ~req[r].ends
  /\ conv' = [conv EXCEPT !.seen = Len(req[r].tools), !.tick = @ + 1]
  /\ req' = [req EXCEPT ![r].pc = "preThink", ![r].tick = conv.tick + 1]
  /\ Emit
  /\ UNCHANGED <<mode, ap, told, given, pausing, screened, seenAbove, took>>

(* A guardrail throws: runGuardrailChain() lets it through and handle() or    *)
(* end() rejects, the server answering 500.  What the request had changed     *)
(* stays: after a post-act, `pending' is consumed and its messages are seen.  *)
Throws(r) ==
  /\ \/ req[r].pc \in {"preThink", "preAct"}
     \/ req[r].pc = "postAct" /\ req[r].unscreened # {}
  /\ Takes(When("post-act-throws", req[r].pc = "postAct"))
  /\ req' = [req EXCEPT ![r] = Idle]
  /\ Emit \/ UNCHANGED late
  /\ UNCHANGED <<mode, conv, ap, told, given, pausing, screened, seenAbove>>

(* The chain over the request: a refusal is the reply, and a stop closes. *)
PreThink(r) ==
  /\ req[r].pc = "preThink"
  /\ Emit
  /\ \E verdict \in Verdicts :
       IF Trips(verdict)
       THEN /\ req' = [req EXCEPT ![r] = Idle]
            /\ conv' = IF verdict = "stop-run" THEN Closed(conv) ELSE conv
            /\ UNCHANGED seenAbove
       ELSE /\ req' = [req EXCEPT ![r].pc = "upstream"]
            /\ seenAbove' = seenAbove \union ToSet(req[r].tools)
            /\ UNCHANGED conv
  /\ UNCHANGED <<mode, ap, told, given, pausing, screened, took>>

(* The end of handle(): a stop closes; a paused answer is held under an *)
(* approval; any other is given to the client.                          *)
Reply(r, q) ==
  /\ req' = [req EXCEPT ![r] = Idle]
  /\ IF q.stopped
     THEN conv' = Closed(conv) /\ UNCHANGED <<ap, given>>
     ELSE /\ conv' = [conv EXCEPT !.pending = [tick |-> q.tick, calls |-> q.kept]]
          /\ IF q.held # NoCall
             THEN /\ ap' = [ap EXCEPT ![q.tick] =
                              [status |-> "pending", call |-> q.held,
                               kept |-> q.kept, refused |-> q.kept \ {q.held}]]
                  /\ UNCHANGED given
             ELSE given' = given \union q.kept /\ UNCHANGED ap

(* The upstream answers an error or something else, or cannot be reached  *)
(* (an event): the turn is spent.  Or it answers with calls to be judged. *)
Upstream(r) ==
  /\ req[r].pc = "upstream"
  /\ \/ /\ req' = [req EXCEPT ![r] = Idle]
        /\ Emit \/ UNCHANGED late
        /\ UNCHANGED <<conv, ap, given>>
     \/ Emit /\ Reply(r, req[r])
     \/ \E n \in 1 .. MaxCalls :
          /\ Emit
          /\ req' = [req EXCEPT ![r].pc = "preAct",
                                ![r].todo = [i \in 1 .. n |-> <<req[r].tick, i>>]]
          /\ UNCHANGED <<conv, ap, given>>
  /\ UNCHANGED <<mode, told, pausing, screened, seenAbove, took>>

(* MUTANT of Judged: a refused call is judged again after the others. *)
JudgedAgain(q, call, verdict) ==
  [q EXCEPT !.todo = IF Trips(verdict) THEN Append(Tail(@), call) ELSE Tail(@),
            !.kept = IF Trips(verdict) THEN @ ELSE @ \union {call},
            !.held = IF verdict = "pause" /\ Enforcing /\ @ = NoCall THEN call ELSE @,
            !.stopped = @ \/ (Enforcing /\ verdict = "stop-run")]

(* A request after the verdict on one call.  Only the first pause is asked;  *)
(* a paused call is kept, and a shadowed verdict changes nothing.            *)
Judged(q, call, verdict) ==
  [q EXCEPT !.todo = Tail(@),
            !.kept = IF Trips(verdict) THEN @ ELSE @ \union {call},
            !.held = IF verdict = "pause" /\ Enforcing /\ @ = NoCall THEN call ELSE @,
            !.stopped = @ \/ (Enforcing /\ verdict = "stop-run")]

(* The chain over one call, and after the last one the reply. *)
PreAct(r) ==
  /\ req[r].pc = "preAct"
  /\ Emit
  /\ \E verdict \in Verdicts :
       LET call == Head(req[r].todo)
           q == Judged(req[r], call, verdict)
           pauses == verdict = "pause" /\ Enforcing
       IN /\ pausing' = IF pauses THEN pausing \union {call} ELSE pausing
          /\ Takes(When("pauses-in-one-answer", pauses /\ req[r].held # NoCall))
          /\ IF q.todo = <<>>
             THEN Reply(r, q)
             ELSE req' = [req EXCEPT ![r] = q] /\ UNCHANGED <<conv, ap, given>>
  /\ UNCHANGED <<mode, told, screened, seenAbove>>

Step(r) == PostAct(r) \/ Finish(r) \/ Compose(r) \/ PreThink(r) \/ PreAct(r)

Next ==
  \/ \E r \in Requests : Request(r) \/ End(r) \/ Step(r) \/ Upstream(r) \/ Throws(r)
  \/ \E t \in Turns : Redeem(t) \/ Approve(t)

(* Chains answer or throw (guard vendors run their offline stand-ins); the   *)
(* upstream may never answer, and nothing times it out: the request's fetch  *)
(* has no signal, and the requestTimeoutMs of run.started is only recorded.  *)
Spec == Init /\ [][Next]_vars /\ \A r \in Requests : WF_vars(Step(r))

--------------------------------------------------------------------------------
(* Properties *)

TypeOK ==
  /\ mode \in Modes
  /\ conv \in [tick : 0 .. MaxTurns, pending : [tick : 0 .. MaxTurns, calls : SUBSET Calls],
               seen : 0 .. MaxTurns * MaxCalls, closed : BOOLEAN, finished : BOOLEAN]
  /\ \A r \in Requests :
       /\ req[r].pc \in {"idle", "postAct", "preThink", "upstream", "preAct"}
       /\ req[r].tick \in 0 .. MaxTurns /\ req[r].kept \subseteq Calls
       /\ req[r].held \in Calls \union {NoCall}
       /\ {req[r].ends, req[r].stopped} \subseteq BOOLEAN
       /\ ToSet(req[r].tools) \subseteq Calls
       /\ req[r].unscreened \subseteq Calls \union {NoCall} /\ ToSet(req[r].todo) \subseteq Calls
  /\ \A t \in Turns :
       /\ ap[t].status # "none" => ap[t].call \in ap[t].kept \ ap[t].refused
       /\ ap[t].status \in {"none", "pending", "approved", "denied", "kept", "refused"}
       /\ ap[t].call \in Calls \union {NoCall} /\ ap[t].refused \subseteq ap[t].kept
       /\ ap[t].kept \subseteq Calls
  /\ ToSet(told) \subseteq given /\ given \subseteq Calls
  /\ late \in BOOLEAN /\ took \subseteq Liberties

(* A person said yes to a call. *)
Approved(call) == \E t \in Turns : ap[t].call = call /\ ap[t].status \in {"approved", "kept"}

(* "a person checks every action first" (governance approval-mode.ts): a call *)
(* that paused is given to the client only when a person said yes to it.      *)
EveryPauseIsAsked == \A call \in given \intersect pausing : Approved(call)

(* The same, however requests, the operator and the end interleave, as long *)
(* as no answer pauses twice.                                               *)
PersonSaidYes == "pauses-in-one-answer" \notin took => EveryPauseIsAsked

(* "the conversation is closed: every later request gets the same reply" *)
(* (107-THE-GATE.md 3): the client is given no call once it is closed.   *)
ClosedStaysClosed ==
  [][conv.closed /\ {"overlap", "redeem-after-close"} \intersect took' = {}
       => given' = given]_vars

(* The upstream is sent no result that has not been through post-act, as long *)
(* as each result comes with the turn after its call, post-act only looking   *)
(* for the answers of the last turn's calls, and no guardrail throws over it, *)
(* the retry of such a turn being screened no more.                           *)
ResultsAreScreened ==
  {"overlap", "ahead-of-answers", "call-after-end", "post-act-throws"} \intersect took = {}
    => seenAbove \subseteq screened

(* run.finished is the last event of the conversation's trace. *)
NothingAfterTheEnd ==
  {"overlap", "call-after-end", "answer-after-finish"} \intersect took = {} => ~late

(* The Gate keeps no request waiting: it comes to wait for its upstream or  *)
(* is answered (a failure is an answer), after the upstream's answer as well. *)
IsAnswered(r) ==
  req[r].pc \in {"postAct", "preThink", "preAct"} ~> req[r].pc \in {"upstream", "idle"}
=============================================================================
