--------------------------- MODULE CampaignQueue ---------------------------
(* The Workshop's campaigns: createCampaignRunner() of the page               *)
(* (lib/state/campaign-runner.svelte.ts), the client that sends a campaign to *)
(* a Worker (lib/worker/campaign-client.ts) and the Worker's host             *)
(* (lib/worker/campaign-host.ts) over one lane of evals' runCampaign().  Page *)
(* and Worker are two threads; their messages arrive in the order posted.     *)
EXTENDS Integers, Sequences

CONSTANTS
  Campaigns,  \* what a person may queue, each once; an entry's job has its name
  CellsOf,    \* the cells of each
  Books,      \* the campaigns whose every cell lands a workflow run
  None,       \* no campaign
  MaxCancels  \* bound: how often Cancel is pressed

ASSUME QueueAssumption ==
  /\ CellsOf \in [Campaigns -> Nat \ {0}]
  /\ Books \subseteq Campaigns /\ None \notin Campaigns /\ MaxCancels \in Nat

VARIABLES
  (* The page. *)
  queue,            \* the entries, as the page lists them
  status,           \* the status of each; "unknown" before it is queued, "removed" after
  pc,               \* where the drain loop awaits
  current,          \* the entry the drain loop runs
  job,              \* the job Cancel speaks to
  cancelRequested,  \* Cancel was pressed for the current entry
  progress,         \* the cells the current entry is said to have done
  stores,           \* the workflow runs on each campaign's chain of writes
  reports,          \* the campaigns whose report is stored
  shown,            \* the report on screen
  cancels,          \* bound
  (* The channels. *)
  toWorker, toPage,
  (* The Worker. *)
  chain,            \* the jobs handed in and not begun
  busy,             \* the job that runs
  at,               \* where it is: in a "cell", or "between" two
  done,             \* the cells it has done
  cancelled         \* the jobs it was told to cancel

page == <<queue, status, pc, current, job, cancelRequested, progress>>
kept == <<stores, reports, shown>>
worker == <<chain, busy, at, done, cancelled>>
vars == <<page, kept, cancels, toWorker, toPage, worker>>

Statuses == {"unknown", "queued", "running", "done", "cancelled", "failed", "removed"}
Settled == {"done", "cancelled", "failed", "removed"}
Posts == {"workflow-run", "trace", "progress"}
Msg(kind, j) == [kind |-> kind, job |-> j]

Init ==
  /\ queue = <<>> /\ status = [e \in Campaigns |-> "unknown"]
  /\ pc = "idle" /\ current = None /\ job = None /\ cancelRequested = FALSE /\ progress = 0
  /\ stores = [e \in Campaigns |-> 0] /\ reports = {} /\ shown = None /\ cancels = 0
  /\ toWorker = <<>> /\ toPage = <<>>
  /\ chain = <<>> /\ busy = None /\ at = "idle" /\ done = 0 /\ cancelled = {}

-----------------------------------------------------------------------------
(* The drain loop takes the first entry that is queued, and fetches what its  *)
(* live brains name; with none queued it is over.                            *)
Drain(q, st) ==
  LET waiting == {i \in DOMAIN q : st[q[i]] = "queued"} IN
  /\ job' = None
  /\ \/ /\ waiting = {}
        /\ pc' = "idle" /\ current' = None /\ status' = st
        /\ UNCHANGED <<cancelRequested, progress>>
     \/ \E i \in waiting :
          /\ \A j \in waiting : i <= j
          /\ pc' = "cassettes" /\ current' = q[i]
          /\ status' = [st EXCEPT ![q[i]] = "running"]
          /\ cancelRequested' = FALSE /\ progress' = 0

(* The current entry is settled, and the loop goes on. *)
Settle(how) == Drain(queue, [status EXCEPT ![current] = how]) /\ UNCHANGED queue

(* enqueue(): the entry joins the queue; a loop that drains will come to it.  *)
Enqueue(e) ==
  /\ status[e] = "unknown"
  /\ queue' = Append(queue, e)
  /\ IF pc = "idle"
     THEN Drain(queue', [status EXCEPT ![e] = "queued"])
     ELSE /\ status' = [status EXCEPT ![e] = "queued"]
          /\ UNCHANGED <<pc, current, job, cancelRequested, progress>>
  /\ UNCHANGED <<kept, cancels, toWorker, toPage, worker>>

(* The cassettes are here: the job is posted, and its result awaited. *)
PostJob ==
  /\ pc = "cassettes"
  /\ pc' = "result" /\ job' = current
  /\ toWorker' = Append(toWorker, Msg("start", current))
  /\ UNCHANGED <<queue, status, current, cancelRequested, progress, kept, cancels, toPage, worker>>

(* MUTANT of CassettesFail: the loop is left with the entry. *)
CassettesFailAndLeave ==
  /\ pc = "cassettes"
  /\ status' = [status EXCEPT ![current] = "failed"]
  /\ pc' = "idle" /\ current' = None /\ job' = None
  /\ UNCHANGED <<queue, cancelRequested, progress, kept, cancels, toWorker, toPage, worker>>

(* They are not: the entry fails before it is a job. *)
CassettesFail ==
  /\ pc = "cassettes"
  /\ Settle("failed")
  /\ UNCHANGED <<kept, cancels, toWorker, toPage, worker>>

(* MUTANT of Cancel: the page does not wait for the Worker's word. *)
CancelAtOnce ==
  /\ job # None /\ pc = "result" /\ cancels < MaxCancels /\ cancels' = cancels + 1
  /\ toWorker' = Append(toWorker, Msg("cancel", job))
  /\ Settle("cancelled")
  /\ UNCHANGED <<kept, toPage, worker>>

(* cancel(): the Worker is told, if there is a job to speak of. *)
Cancel ==
  /\ job # None /\ cancels < MaxCancels /\ cancels' = cancels + 1
  /\ cancelRequested' = TRUE
  /\ toWorker' = Append(toWorker, Msg("cancel", job))
  /\ UNCHANGED <<queue, status, pc, current, job, progress, kept, toPage, worker>>

(* remove(): any entry but the running one leaves the list. *)
Remove(e) ==
  /\ status[e] \notin {"unknown", "running", "removed"}
  /\ \E i \in DOMAIN queue :
       /\ queue[i] = e
       /\ queue' = SubSeq(queue, 1, i - 1) \o SubSeq(queue, i + 1, Len(queue))
  /\ status' = [status EXCEPT ![e] = "removed"]
  /\ UNCHANGED <<pc, current, job, cancelRequested, progress, kept, cancels, toWorker, toPage, worker>>

(* showStored() and forgetReport(): what is on screen changes, nothing else. *)
Show(e) ==
  /\ e \in reports \union {None} /\ shown # e
  /\ shown' = e
  /\ UNCHANGED <<page, stores, reports, cancels, toWorker, toPage, worker>>

(* A reply of the job that is listened for; any other is nobody's, and dropped. *)
Heard(kind) == toPage # <<>> /\ Head(toPage).kind = kind
Listening == pc = "result" /\ Head(toPage).job = job

HearPost ==
  /\ toPage # <<>> /\ (Listening => Head(toPage).kind \in Posts)
  /\ progress' = IF Listening /\ Heard("progress") THEN progress + 1 ELSE progress
  /\ stores' = IF Listening /\ Heard("workflow-run") THEN [stores EXCEPT ![job] = @ + 1] ELSE stores
  /\ toPage' = Tail(toPage)
  /\ UNCHANGED <<queue, status, pc, current, job, cancelRequested, reports, shown, cancels, toWorker, worker>>

HearDone ==
  /\ Heard("done") /\ Listening
  /\ pc' = "stores" /\ toPage' = Tail(toPage)
  /\ UNCHANGED <<queue, status, current, job, cancelRequested, progress, kept, cancels, toWorker, worker>>

HearEnd(kind) ==
  /\ kind \in {"cancelled", "failed"} /\ Heard(kind) /\ Listening
  /\ Settle(kind) /\ toPage' = Tail(toPage)
  /\ UNCHANGED <<kept, cancels, toWorker, worker>>

(* The next workflow run of a chain is stored, or its failure is swallowed;   *)
(* a chain outlives its campaign.                                            *)
StoreRun(e) ==
  /\ stores[e] > 0
  /\ stores' = [stores EXCEPT ![e] = @ - 1]
  /\ UNCHANGED <<page, reports, shown, cancels, toWorker, toPage, worker>>

(* MUTANT of StoresLanded: the chain is not awaited. *)
StoresIgnored == TRUE

(* `await stores` *)
StoresLanded == stores[current] = 0

Persist ==
  /\ pc = "stores" /\ StoresLanded
  /\ pc' = "persist"
  /\ UNCHANGED <<queue, status, current, job, cancelRequested, progress, kept, cancels, toWorker, toPage, worker>>

(* The report is stored, and only then shown; or it is not. *)
Persisted ==
  /\ pc = "persist"
  /\ \/ reports' = reports \union {current} /\ shown' = current /\ Settle("done")
     \/ Settle("failed") /\ UNCHANGED <<reports, shown>>
  /\ UNCHANGED <<stores, cancels, toWorker, toPage, worker>>

-----------------------------------------------------------------------------
(* handle(): a start joins the chain; a cancel is noted, whatever it names.  *)
Handle ==
  /\ toWorker # <<>>
  /\ toWorker' = Tail(toWorker)
  /\ LET m == Head(toWorker) IN
     /\ chain' = IF m.kind = "start" THEN Append(chain, m.job) ELSE chain
     /\ cancelled' = IF m.kind = "cancel" THEN cancelled \union {m.job} ELSE cancelled
  /\ UNCHANGED <<page, kept, cancels, toPage, busy, at, done>>

(* runOne() is over: its one last word is posted and its cancel forgotten.   *)
End(kind) ==
  /\ toPage' = Append(toPage, Msg(kind, busy))
  /\ busy' = None /\ at' = "idle" /\ done' = 0 /\ cancelled' = cancelled \ {busy}

(* The chain's next job begins. *)
Begin ==
  /\ busy = None /\ chain # <<>>
  /\ busy' = Head(chain) /\ chain' = Tail(chain) /\ at' = "preparing"
  /\ UNCHANGED <<page, kept, cancels, toWorker, toPage, done, cancelled>>

(* The campaign is refused (its parts do not resolve), or its first cell      *)
(* begins.                                                                   *)
Prepare ==
  /\ at = "preparing"
  /\ \/ End("failed")
     \/ at' = "cell" /\ UNCHANGED <<toPage, busy, done, cancelled>>
  /\ UNCHANGED <<page, kept, cancels, toWorker, chain>>

(* A cell is done: its workflow run, its trace (unless it failed inside) and  *)
(* the progress are posted, and the lane yields.                             *)
RunCell ==
  /\ at = "cell"
  /\ \E traced \in BOOLEAN :
       toPage' = toPage
         \o (IF busy \in Books THEN <<Msg("workflow-run", busy)>> ELSE <<>>)
         \o (IF traced THEN <<Msg("trace", busy)>> ELSE <<>>)
         \o <<Msg("progress", busy)>>
  /\ done' = done + 1 /\ at' = "between"
  /\ UNCHANGED <<page, kept, cancels, toWorker, chain, busy, cancelled>>

(* MUTANT of BetweenCells: a cancelled campaign ends with the report of the   *)
(* cells it has.                                                             *)
BetweenCellsDoneFirst ==
  /\ at = "between"
  /\ IF done = CellsOf[busy] THEN \E kind \in {"done", "failed"} : End(kind)
     ELSE IF busy \in cancelled THEN End("done")
     ELSE at' = "cell" /\ UNCHANGED <<toPage, busy, done, cancelled>>
  /\ UNCHANGED <<page, kept, cancels, toWorker, chain>>

(* The yield's timer: a cancelled job ends here, after its last cell too;     *)
(* else the next cell begins, or the report is made, or cannot be.           *)
BetweenCells ==
  /\ at = "between"
  /\ IF busy \in cancelled THEN End("cancelled")
     ELSE IF done = CellsOf[busy] THEN \E kind \in {"done", "failed"} : End(kind)
     ELSE at' = "cell" /\ UNCHANGED <<toPage, busy, done, cancelled>>
  /\ UNCHANGED <<page, kept, cancels, toWorker, chain>>

Person ==
  \/ \E e \in Campaigns : Enqueue(e) \/ Remove(e)
  \/ Cancel
  \/ \E e \in Campaigns \union {None} : Show(e)

Page ==
  PostJob \/ CassettesFail \/ HearPost \/ HearDone \/ Persist \/ Persisted
    \/ \E kind \in {"cancelled", "failed"} : HearEnd(kind)

Worker == Handle \/ Begin \/ Prepare \/ RunCell \/ BetweenCells

Next == Person \/ Page \/ Worker \/ \E e \in Campaigns : StoreRun(e)

(* Messages are delivered, fetches and writes settle, cells end.  A person    *)
(* owes nothing.                                                             *)
Fairness == WF_vars(Page) /\ WF_vars(Worker) /\ \A e \in Campaigns : WF_vars(StoreRun(e))

Spec == Init /\ [][Next]_vars /\ Fairness

-----------------------------------------------------------------------------
InSeq(s) == {s[i] : i \in DOMAIN s}

(* The variables have their types. *)
TypeOK ==
  /\ queue \in Seq(Campaigns) /\ status \in [Campaigns -> Statuses]
  /\ pc \in {"idle", "cassettes", "result", "stores", "persist"}
  /\ current \in Campaigns \union {None} /\ job \in Campaigns \union {None}
  /\ cancelRequested \in BOOLEAN /\ progress \in Nat
  /\ stores \in [Campaigns -> Nat] /\ reports \subseteq Campaigns
  /\ shown \in Campaigns \union {None} /\ cancels \in Nat
  /\ toWorker \in Seq([kind : {"start", "cancel"}, job : Campaigns])
  /\ toPage \in Seq([kind : Posts \union {"done", "cancelled", "failed"}, job : Campaigns])
  /\ chain \in Seq(Campaigns) /\ busy \in Campaigns \union {None}
  /\ at \in {"idle", "preparing", "cell", "between"} /\ done \in Nat /\ cancelled \subseteq Campaigns

(* The Worker is never behind: what it was handed, works on or has said, and  *)
(* the page has not heard, is of the one job the page awaits, whenever Cancel *)
(* was pressed (drain, runCampaignIn, handle).                               *)
OneJobAtATime ==
  LET handed == {m \in InSeq(toWorker) : m.kind = "start"}
      afoot == {m.job : m \in handed \union InSeq(toPage)} \union InSeq(chain)
                 \union ({busy} \ {None})
  IN IF pc = "result" THEN afoot = {job} ELSE afoot = {}

(* "Shown only once stored": a campaign is done when its report is stored,    *)
(* every cell of it is accounted for and every workflow run it landed has     *)
(* been tried; one that failed or was cancelled has no report, and what is    *)
(* on screen is in the store (runOne).                                       *)
DoneIsStored ==
  /\ \A e \in Campaigns :
       /\ status[e] = "done" => e \in reports /\ stores[e] = 0
       /\ e \in reports => status[e] \in {"done", "removed"}
  /\ shown # None => shown \in reports
  /\ pc \in {"stores", "persist"} => progress = CellsOf[current]

(* Every campaign that is queued is settled or removed (drain). *)
QueueMoves == \A e \in Campaigns : status[e] = "queued" ~> status[e] \in Settled
=============================================================================
