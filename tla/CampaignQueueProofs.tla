------------------------ MODULE CampaignQueueProofs ------------------------
(* What the Workshop's queue keeps for any number of campaigns and cells:     *)
(* page and Worker are never about two jobs, although each has a queue of its *)
(* own and their messages cross.  A job is in one place at a time: on its way *)
(* to the Worker, in line, at work, or told of; the page moves on only when   *)
(* it is told, and by then nothing of the job is left anywhere.               *)
EXTENDS CampaignQueue, SequenceTheorems, TLAPS

Ends == {"done", "cancelled", "failed"}
Cancels == [kind : {"cancel"}, job : Campaigns]
PostsOf(j) == [kind : Posts, job : {j}]

(* Where the job the page awaits is.                                          *)
Handed ==
  /\ \E a, b \in Seq(Cancels) : toWorker = (a \o <<Msg("start", job)>>) \o b
  /\ chain = <<>> /\ busy = None /\ toPage = <<>>
InLine ==
  /\ toWorker \in Seq(Cancels) /\ chain = <<job>> /\ busy = None /\ toPage = <<>>
AtWork ==
  /\ toWorker \in Seq(Cancels) /\ chain = <<>> /\ busy = job /\ toPage \in Seq(PostsOf(job))
ToldOf ==
  /\ toWorker \in Seq(Cancels) /\ chain = <<>> /\ busy = None
  /\ \E s \in Seq(PostsOf(job)), k \in Ends : toPage = Append(s, Msg(k, job))
Nothing ==
  /\ toWorker \in Seq(Cancels) /\ chain = <<>> /\ busy = None /\ toPage = <<>>

Types ==
  /\ queue \in Seq(Campaigns) /\ status \in [Campaigns -> Statuses]
  /\ pc \in {"idle", "cassettes", "result", "stores", "persist"}
  /\ pc # "idle" => current \in Campaigns
  /\ pc \in {"result", "stores", "persist"} <=> job # None
  /\ job # None => job = current
  /\ busy = None <=> at = "idle"

OneJob ==
  IF pc = "result" THEN Handed \/ InLine \/ AtWork \/ ToldOf ELSE Nothing

IInv == Types /\ OneJob

--------------------------------------------------------------------------------
(* Sequences                                                                  *)

LEMMA HeadAndTail ==
  ASSUME NEW S, NEW s \in Seq(S), s # <<>>
  PROVE  Head(s) \in S /\ Tail(s) \in Seq(S)
  OBVIOUS

LEMMA ElementsOf ==
  ASSUME NEW S, NEW s \in Seq(S)
  PROVE  InSeq(s) \subseteq S
  BY DEF InSeq

LEMMA NoElements == ASSUME NEW S PROVE <<>> \in Seq(S) /\ DOMAIN <<>> = {}
  OBVIOUS

(* The first of a sequence with a known element in it.                        *)
LEMMA HeadOfParts ==
  ASSUME NEW S, NEW a \in Seq(S), NEW b \in Seq(S), NEW x
  PROVE  LET s == (a \o <<x>>) \o b
         IN /\ s # <<>>
            /\ a = <<>> => Head(s) = x /\ Tail(s) = b
  OBVIOUS

LEMMA HeadOfFirstPart ==
  ASSUME NEW S, NEW a \in Seq(S), NEW b \in Seq(S), NEW x, a # <<>>
  PROVE  /\ Head((a \o <<x>>) \o b) = Head(a)
         /\ Tail((a \o <<x>>) \o b) = (Tail(a) \o <<x>>) \o b
  OBVIOUS

LEMMA HeadOfAppend ==
  ASSUME NEW S, NEW a \in Seq(S), NEW x
  PROVE  LET s == Append(a, x)
         IN /\ s # <<>>
            /\ a = <<>> => Head(s) = x /\ Tail(s) = <<>>
            /\ a # <<>> => Head(s) = Head(a) /\ Tail(s) = Append(Tail(a), x)
  OBVIOUS

LEMMA AppendToParts ==
  ASSUME NEW S, NEW a \in Seq(S), NEW b \in Seq(S), NEW x, NEW y \in S
  PROVE  /\ Append((a \o <<x>>) \o b, y) = (a \o <<x>>) \o Append(b, y)
         /\ Append(b, y) \in Seq(S)
  <1> DEFINE T == S \union {x}
  <1> DEFINE u == a \o <<x>>
  <1>1. Append(b, y) \in Seq(S) OBVIOUS
  <1>2. u \in Seq(T) /\ b \in Seq(T) /\ <<y>> \in Seq(T) /\ y \in T OBVIOUS
  <1> HIDE DEF u
  <1>3. u \o b \in Seq(T) BY <1>2, ConcatProperties
  <1>4. Append(u \o b, y) = (u \o b) \o <<y>> BY <1>2, <1>3, AppendIsConcat
  <1>5. Append(b, y) = b \o <<y>> BY <1>2, AppendIsConcat
  <1>6. (u \o b) \o <<y>> = u \o (b \o <<y>>) BY <1>2, ConcatAssociative
  <1> QED BY <1>1, <1>4, <1>5, <1>6 DEF u

LEMMA StartIsLast ==
  ASSUME NEW S, NEW a \in Seq(S), NEW x
  PROVE  Append(a, x) = (a \o <<x>>) \o <<>>
  OBVIOUS

LEMMA ElementsOfParts ==
  ASSUME NEW S, NEW a \in Seq(S), NEW b \in Seq(S), NEW x
  PROVE  LET s == (a \o <<x>>) \o b
         IN InSeq(s) \subseteq S \union {x} /\ x \in InSeq(s)
  <1> DEFINE s == (a \o <<x>>) \o b
  <1>1. \A i \in DOMAIN s : s[i] = x \/ s[i] \in S OBVIOUS
  <1>2. Len(a) + 1 \in DOMAIN s /\ s[Len(a) + 1] = x OBVIOUS
  <1> QED BY <1>1, <1>2 DEF InSeq

LEMMA ElementsOfAppend ==
  ASSUME NEW S, NEW a \in Seq(S), NEW x
  PROVE  LET s == Append(a, x)
         IN InSeq(s) \subseteq S \union {x} /\ x \in InSeq(s)
  <1> DEFINE s == Append(a, x)
  <1>1. \A i \in DOMAIN s : s[i] = x \/ s[i] \in S OBVIOUS
  <1>2. Len(a) + 1 \in DOMAIN s /\ s[Len(a) + 1] = x OBVIOUS
  <1> QED BY <1>1, <1>2 DEF InSeq

--------------------------------------------------------------------------------
LEMMA InvImpliesOneJob == IInv => OneJobAtATime
  <1> SUFFICES ASSUME IInv PROVE OneJobAtATime
    OBVIOUS
  <1> DEFINE handed == {m \in InSeq(toWorker) : m.kind = "start"}
  <1> DEFINE afoot == {m.job : m \in handed \union InSeq(toPage)} \union InSeq(chain)
                        \union ({busy} \ {None})
  <1>1. ASSUME toWorker \in Seq(Cancels) PROVE handed = {}
    <2>1. \A m \in Cancels : m.kind # "start" BY DEF Cancels
    <2>2. InSeq(toWorker) \subseteq Cancels BY <1>1, ElementsOf
    <2> QED BY <2>1, <2>2
  <1>2. InSeq(<<>>) = {} BY NoElements DEF InSeq
  <1>3. pc = "result" => job \in Campaigns /\ job # None BY DEF IInv, Types
  <1>4. CASE pc # "result"
    <2>1. afoot = {} BY <1>1, <1>2, <1>4 DEF IInv, OneJob, Nothing
    <2> QED BY <1>4, <2>1 DEF OneJobAtATime
  <1>5. ASSUME pc = "result", Handed PROVE afoot = {job}
    <2>1. PICK a, b \in Seq(Cancels) : toWorker = (a \o <<Msg("start", job)>>) \o b
      BY <1>5 DEF Handed
    <2>2. handed = {Msg("start", job)}
      <3>1. \A m \in Cancels : m.kind # "start" BY DEF Cancels
      <3>2. /\ InSeq(toWorker) \subseteq Cancels \union {Msg("start", job)}
            /\ Msg("start", job) \in InSeq(toWorker)
        BY <2>1, ElementsOfParts
      <3>3. Msg("start", job).kind = "start" BY DEF Msg
      <3> QED BY <3>1, <3>2, <3>3
    <2>3. Msg("start", job).job = job BY DEF Msg
    <2> HIDE DEF handed
    <2> QED BY <1>2, <1>5, <2>2, <2>3 DEF Handed
  <1>6. ASSUME pc = "result", InLine PROVE afoot = {job}
    <2>1. InSeq(<<job>>) = {job} BY DEF InSeq
    <2> QED BY <1>1, <1>2, <1>6, <2>1 DEF InLine
  <1>7. ASSUME pc = "result", AtWork PROVE afoot = {job}
    <2>0. \A m \in PostsOf(job) : m.job = job BY DEF PostsOf
    <2>1. \A m \in InSeq(toPage) : m.job = job BY <1>7, <2>0, ElementsOf DEF AtWork
    <2>2. handed = {} BY <1>1, <1>7 DEF AtWork
    <2> HIDE DEF handed
    <2> QED BY <1>2, <1>3, <1>7, <2>1, <2>2 DEF AtWork
  <1>8. ASSUME pc = "result", ToldOf PROVE afoot = {job}
    <2>1. PICK s \in Seq(PostsOf(job)), k \in Ends : toPage = Append(s, Msg(k, job))
      BY <1>8 DEF ToldOf
    <2>2. /\ \A m \in InSeq(toPage) : m.job = job
          /\ \E m \in InSeq(toPage) : m.job = job
      <3>1. /\ InSeq(toPage) \subseteq PostsOf(job) \union {Msg(k, job)}
            /\ Msg(k, job) \in InSeq(toPage)
        BY <2>1, ElementsOfAppend
      <3>2. Msg(k, job).job = job /\ \A m \in PostsOf(job) : m.job = job
        BY DEF Msg, PostsOf
      <3> QED BY <3>1, <3>2
    <2>3. handed = {} BY <1>1, <1>8 DEF ToldOf
    <2> HIDE DEF handed
    <2> QED BY <1>2, <1>8, <2>2, <2>3 DEF ToldOf
  <1> QED BY <1>4, <1>5, <1>6, <1>7, <1>8 DEF IInv, OneJob, OneJobAtATime

LEMMA InitInv == Init => IInv
  BY NoElements DEF Init, IInv, Types, Statuses, OneJob, Nothing

--------------------------------------------------------------------------------
(* The page                                                                   *)

(* The drain loop awaits nothing of a job when it goes on.                    *)
LEMMA DrainGoesOn ==
  ASSUME NEW q \in Seq(Campaigns), NEW st \in [Campaigns -> Statuses], Drain(q, st)
  PROVE  /\ status' \in [Campaigns -> Statuses] /\ pc' \in {"idle", "cassettes"}
         /\ pc' # "idle" => current' \in Campaigns
         /\ job' = None
  <1>1. \A i \in DOMAIN q : q[i] \in Campaigns OBVIOUS
  <1>2. "running" \in Statuses BY DEF Statuses
  <1> QED BY <1>1, <1>2 DEF Drain

LEMMA SettleStep ==
  ASSUME IInv, NEW how \in Statuses, current \in Campaigns, Settle(how),
         toWorker \in Seq(Cancels), toWorker' = toWorker, chain' = <<>>, busy' = None,
         toPage' = <<>>, at' = at, busy = None
  PROVE  IInv'
  <1> DEFINE st == [status EXCEPT ![current] = how]
  <1>1. st \in [Campaigns -> Statuses] BY DEF IInv, Types
  <1>2. Drain(queue, st) /\ queue' = queue BY DEF Settle
  <1> HIDE DEF st
  <1>3. /\ status' \in [Campaigns -> Statuses] /\ pc' \in {"idle", "cassettes"}
        /\ pc' # "idle" => current' \in Campaigns
        /\ job' = None
    BY <1>1, <1>2, DrainGoesOn DEF IInv, Types
  <1>4. Types' BY <1>2, <1>3 DEF IInv, Types
  <1>5. OneJob' BY <1>3 DEF OneJob, Nothing
  <1> QED BY <1>4, <1>5 DEF IInv

(* What the page and the Worker are about is left as it is.                   *)
LEMMA OneJobKept ==
  ASSUME OneJob, UNCHANGED <<toWorker, toPage, chain, busy>>,
         IF pc = "result" THEN pc' = pc /\ job' = job ELSE pc' # "result"
  PROVE  OneJob'
  BY DEF OneJob, Handed, InLine, AtWork, ToldOf, Nothing

LEMMA EnqueueStep == ASSUME IInv, NEW e \in Campaigns, Enqueue(e) PROVE IInv'
  <1> DEFINE q == Append(queue, e)
  <1> DEFINE st == [status EXCEPT ![e] = "queued"]
  <1>1. q \in Seq(Campaigns) /\ queue' = q BY DEF IInv, Types, Enqueue
  <1>2. st \in [Campaigns -> Statuses] BY DEF IInv, Types, Statuses
  <1>3. UNCHANGED <<toWorker, toPage, chain, busy, at>> BY DEF Enqueue, worker
  <1>4. IF pc = "idle" THEN Drain(q, st)
        ELSE status' = st /\ UNCHANGED <<pc, current, job>>
    BY <1>1 DEF Enqueue
  <1> HIDE DEF q, st
  <1>5. CASE pc = "idle"
    <2>1. /\ status' \in [Campaigns -> Statuses] /\ pc' \in {"idle", "cassettes"}
          /\ pc' # "idle" => current' \in Campaigns
          /\ job' = None
      BY <1>1, <1>2, <1>4, <1>5, DrainGoesOn
    <2>2. Types' BY <1>1, <1>3, <2>1 DEF IInv, Types
    <2>3. OneJob' BY <1>3, <1>5, <2>1, OneJobKept DEF IInv
    <2> QED BY <2>2, <2>3 DEF IInv
  <1>6. CASE pc # "idle"
    <2>1. Types' BY <1>1, <1>2, <1>3, <1>4, <1>6 DEF IInv, Types
    <2>2. OneJob' BY <1>3, <1>4, <1>6, OneJobKept DEF IInv
    <2> QED BY <2>1, <2>2 DEF IInv
  <1> QED BY <1>5, <1>6

LEMMA RemoveStep == ASSUME IInv, NEW e \in Campaigns, Remove(e) PROVE IInv'
  <1>1. PICK i \in DOMAIN queue :
          queue' = SubSeq(queue, 1, i - 1) \o SubSeq(queue, i + 1, Len(queue))
    BY DEF Remove
  <1>2. queue' \in Seq(Campaigns)
    <2>1. queue \in Seq(Campaigns) /\ i \in 1 .. Len(queue) /\ Len(queue) \in Nat
      BY DEF IInv, Types
    <2>2. SubSeq(queue, 1, i - 1) \in Seq(Campaigns) BY <2>1
    <2>3. SubSeq(queue, i + 1, Len(queue)) \in Seq(Campaigns) BY <2>1
    <2> QED BY <1>1, <2>2, <2>3
  <1>3. status' \in [Campaigns -> Statuses] BY DEF Remove, IInv, Types, Statuses
  <1>4. UNCHANGED <<pc, current, job, toWorker, toPage, chain, busy, at>>
    BY DEF Remove, worker
  <1>5. Types' BY <1>2, <1>3, <1>4 DEF IInv, Types
  <1>6. OneJob' BY <1>4, OneJobKept DEF IInv
  <1> QED BY <1>5, <1>6 DEF IInv

LEMMA PostJobStep == ASSUME IInv, PostJob PROVE IInv'
  <1>1. current \in Campaigns /\ current # None BY QueueAssumption DEF IInv, Types, PostJob
  <1>2. Types' BY <1>1 DEF PostJob, IInv, Types, worker
  <1>3. Nothing BY DEF IInv, OneJob, PostJob
  <1>4. toWorker' = (toWorker \o <<Msg("start", job')>>) \o <<>>
    BY <1>3, StartIsLast DEF PostJob, Nothing
  <1>5. Handed' BY <1>3, <1>4, NoElements DEF Handed, Nothing, PostJob, worker
  <1> QED BY <1>2, <1>5 DEF IInv, OneJob, PostJob

LEMMA CancelStep == ASSUME IInv, Cancel PROVE IInv'
  <1> DEFINE m == Msg("cancel", job)
  <1>1. m \in Cancels BY DEF IInv, Types, Cancel, Cancels, Msg
  <1>2. /\ toWorker' = Append(toWorker, m)
        /\ UNCHANGED <<queue, status, pc, current, job, toPage, chain, busy, at>>
    BY DEF Cancel, worker
  <1> HIDE DEF m
  <1>3. Types' BY <1>2 DEF IInv, Types
  <1>4. ASSUME toWorker \in Seq(Cancels) PROVE toWorker' \in Seq(Cancels)
    BY <1>1, <1>2, <1>4
  <1>5. ASSUME Handed PROVE Handed'
    <2>1. PICK a, b \in Seq(Cancels) : toWorker = (a \o <<Msg("start", job)>>) \o b
      BY <1>5 DEF Handed
    <2>2. /\ toWorker' = (a \o <<Msg("start", job)>>) \o Append(b, m)
          /\ Append(b, m) \in Seq(Cancels)
      BY <1>1, <1>2, <2>1, AppendToParts
    <2> QED BY <1>2, <1>5, <2>2 DEF Handed
  <1>6. OneJob'
    BY <1>2, <1>4, <1>5 DEF IInv, OneJob, InLine, AtWork, ToldOf, Nothing
  <1> QED BY <1>3, <1>6 DEF IInv

(* What the page hears is of its job: news while it is at work, and its last  *)
(* word when nothing is left of it.                                           *)
LEMMA WhatIsHeard ==
  ASSUME IInv, toPage # <<>>
  PROVE  /\ pc = "result" /\ Head(toPage).job = job /\ toWorker \in Seq(Cancels) /\ chain = <<>>
         /\ Head(toPage).kind \in Posts
              => (AtWork /\ Tail(toPage) \in Seq(PostsOf(job)))
                 \/ (/\ busy = None
                     /\ \E s \in Seq(PostsOf(job)), k \in Ends :
                          Tail(toPage) = Append(s, Msg(k, job)))
         /\ Head(toPage).kind \notin Posts => Tail(toPage) = <<>> /\ busy = None
  <1>1. pc = "result" /\ (AtWork \/ ToldOf)
    BY DEF IInv, OneJob, Handed, InLine, Nothing
  <1>2. \A x \in PostsOf(job) : x.kind \in Posts /\ x.job = job BY DEF PostsOf
  <1>3. CASE AtWork
    <2>1. Head(toPage) \in PostsOf(job) /\ Tail(toPage) \in Seq(PostsOf(job))
      BY <1>3, HeadAndTail DEF AtWork
    <2> QED BY <1>1, <1>2, <1>3, <2>1 DEF AtWork
  <1>4. CASE ToldOf
    <2>1. PICK s \in Seq(PostsOf(job)), k \in Ends : toPage = Append(s, Msg(k, job))
      BY <1>4 DEF ToldOf
    <2>2. CASE s = <<>>
      <3>1. Head(toPage) = Msg(k, job) /\ Tail(toPage) = <<>> BY <2>1, <2>2, HeadOfAppend
      <3>2. Msg(k, job).job = job /\ Msg(k, job).kind \notin Posts
        BY DEF Msg, Ends, Posts
      <3> QED BY <1>1, <1>4, <3>1, <3>2 DEF ToldOf
    <2>3. CASE s # <<>>
      <3>1. Head(toPage) = Head(s) /\ Tail(toPage) = Append(Tail(s), Msg(k, job))
        BY <2>1, <2>3, HeadOfAppend
      <3>2. Head(s) \in PostsOf(job) /\ Tail(s) \in Seq(PostsOf(job)) BY <2>3, HeadAndTail
      <3> QED BY <1>1, <1>2, <1>4, <3>1, <3>2 DEF ToldOf
    <2> QED BY <2>2, <2>3
  <1> QED BY <1>1, <1>3, <1>4

LEMMA HearPostStep == ASSUME IInv, HearPost PROVE IInv'
  <1>1. /\ toPage # <<>> /\ toPage' = Tail(toPage)
        /\ UNCHANGED <<queue, status, pc, current, job, toWorker, chain, busy, at>>
    BY DEF HearPost, worker
  <1>2. pc = "result" /\ Head(toPage).job = job /\ toWorker \in Seq(Cancels) /\ chain = <<>>
    BY <1>1, WhatIsHeard
  <1>3. Head(toPage).kind \in Posts BY <1>2 DEF HearPost, Listening
  <1>4. AtWork' \/ ToldOf'
    BY <1>1, <1>2, <1>3, WhatIsHeard DEF AtWork, ToldOf
  <1>5. Types' BY <1>1 DEF IInv, Types
  <1> QED BY <1>1, <1>2, <1>4, <1>5 DEF IInv, OneJob

LEMMA HearDoneStep == ASSUME IInv, HearDone PROVE IInv'
  <1>1. /\ toPage # <<>> /\ toPage' = Tail(toPage) /\ Head(toPage).kind \notin Posts
        /\ pc = "result" /\ pc' = "stores"
        /\ UNCHANGED <<queue, status, current, job, toWorker, chain, busy, at>>
    BY DEF HearDone, Heard, Listening, worker, Posts
  <1>2. toWorker \in Seq(Cancels) /\ chain = <<>> /\ busy = None /\ Tail(toPage) = <<>>
    BY <1>1, WhatIsHeard
  <1>3. Types' BY <1>1 DEF IInv, Types
  <1>4. Nothing' BY <1>1, <1>2 DEF Nothing
  <1> QED BY <1>1, <1>3, <1>4 DEF IInv, OneJob

LEMMA HearEndStep ==
  ASSUME IInv, NEW kind \in {"cancelled", "failed"}, HearEnd(kind)
  PROVE  IInv'
  <1>1. /\ toPage # <<>> /\ toPage' = Tail(toPage) /\ Head(toPage).kind \notin Posts
        /\ pc = "result" /\ Settle(kind) /\ UNCHANGED <<toWorker, chain, busy, at>>
    BY DEF HearEnd, Heard, Listening, worker, Posts
  <1>2. toWorker \in Seq(Cancels) /\ chain = <<>> /\ busy = None /\ Tail(toPage) = <<>>
    BY <1>1, WhatIsHeard
  <1>3. kind \in Statuses /\ current \in Campaigns BY <1>1 DEF Statuses, IInv, Types
  <1> QED BY <1>1, <1>2, <1>3, SettleStep

LEMMA SettlesStep == ASSUME IInv, CassettesFail \/ Persisted PROVE IInv'
  <1>1. PICK how \in {"failed", "done"} : Settle(how) BY DEF CassettesFail, Persisted
  <1>2. how \in Statuses BY DEF Statuses
  <1>3. /\ pc \in {"cassettes", "persist"}
        /\ UNCHANGED <<toWorker, toPage, chain, busy, at>>
    BY DEF CassettesFail, Persisted, worker
  <1>4. Nothing /\ current \in Campaigns BY <1>3 DEF IInv, OneJob, Types
  <1> QED BY <1>1, <1>2, <1>3, <1>4, SettleStep DEF Nothing

LEMMA PersistStep == ASSUME IInv, Persist PROVE IInv'
  <1>1. /\ pc = "stores" /\ pc' = "persist"
        /\ UNCHANGED <<queue, status, current, job, toWorker, toPage, chain, busy, at>>
    BY DEF Persist, worker
  <1>2. Types' BY <1>1 DEF IInv, Types
  <1>3. OneJob' BY <1>1, OneJobKept DEF IInv
  <1> QED BY <1>2, <1>3 DEF IInv

--------------------------------------------------------------------------------
(* The Worker                                                                 *)

LEMMA HandleStep == ASSUME IInv, Handle PROVE IInv'
  <1>1. /\ toWorker # <<>> /\ toWorker' = Tail(toWorker)
        /\ chain' = IF Head(toWorker).kind = "start" THEN Append(chain, Head(toWorker).job)
                    ELSE chain
        /\ UNCHANGED <<queue, status, pc, current, job, toPage, busy, at>>
    BY DEF Handle, page
  <1>2. Types' BY <1>1 DEF IInv, Types
  <1>3. \A x \in Cancels : x.kind # "start" BY DEF Cancels
  <1>4. ASSUME toWorker \in Seq(Cancels)
        PROVE  toWorker' \in Seq(Cancels) /\ chain' = chain
    BY <1>1, <1>3, <1>4, HeadAndTail
  <1>5. ASSUME Handed PROVE Handed' \/ InLine'
    <2>1. PICK a, b \in Seq(Cancels) : toWorker = (a \o <<Msg("start", job)>>) \o b
      BY <1>5 DEF Handed
    <2>2. CASE a = <<>>
      <3>1. Head(toWorker) = Msg("start", job) /\ toWorker' = b
        BY <1>1, <2>1, <2>2, HeadOfParts
      <3>2. chain' = Append(<<>>, job) BY <1>1, <1>5, <3>1 DEF Msg, Handed
      <3>3. chain' = <<job>> BY <3>2
      <3> QED BY <1>1, <1>5, <3>1, <3>3 DEF Handed, InLine
    <2>3. CASE a # <<>>
      <3> DEFINE x == Msg("start", job)
      <3>0. toWorker = (a \o <<x>>) \o b BY <2>1
      <3> HIDE DEF x
      <3>1. /\ Head(toWorker) = Head(a)
            /\ Tail(toWorker) = (Tail(a) \o <<x>>) \o b
        BY <2>3, <3>0, HeadOfFirstPart
      <3>2. Head(a) \in Cancels /\ Tail(a) \in Seq(Cancels) BY <2>3, HeadAndTail
      <3> QED BY <1>1, <1>3, <1>5, <3>1, <3>2 DEF Handed, x
    <2> QED BY <2>2, <2>3
  <1>6. OneJob'
    BY <1>1, <1>4, <1>5 DEF IInv, OneJob, InLine, AtWork, ToldOf, Nothing
  <1> QED BY <1>2, <1>6 DEF IInv

LEMMA BeginStep == ASSUME IInv, Begin PROVE IInv'
  <1>1. /\ busy = None /\ chain # <<>> /\ busy' = Head(chain) /\ chain' = Tail(chain)
        /\ at' = "preparing"
        /\ UNCHANGED <<queue, status, pc, current, job, toWorker, toPage>>
    BY DEF Begin, page
  <1>2. pc = "result" /\ InLine
    BY <1>1, QueueAssumption DEF IInv, OneJob, Handed, AtWork, ToldOf, Nothing
  <1>3. busy' = job /\ chain' = <<>> BY <1>1, <1>2 DEF InLine
  <1>4. job # None BY <1>2 DEF IInv, Types
  <1>5. Types' BY <1>1, <1>3, <1>4 DEF IInv, Types
  <1>6. AtWork' BY <1>1, <1>2, <1>3, NoElements DEF InLine, AtWork
  <1> QED BY <1>1, <1>2, <1>5, <1>6 DEF IInv, OneJob

(* The Worker is at work on the job the page awaits, and says so or ends it.  *)
LEMMA WorkStep ==
  ASSUME IInv, at # "idle", UNCHANGED <<page, toWorker, chain>>,
         \/ /\ at' # "idle" /\ busy' = busy
            /\ \E s \in Seq(PostsOf(busy)) : toPage' = toPage \o s
         \/ \E kind \in Ends : End(kind)
  PROVE  IInv'
  <1>1. UNCHANGED <<queue, status, pc, current, job, toWorker, chain>> BY DEF page
  <1>2. pc = "result" /\ AtWork /\ busy # None
    BY DEF IInv, Types, OneJob, Handed, InLine, ToldOf, Nothing
  <1>3. CASE \E kind \in Ends : End(kind)
    <2>1. PICK kind \in Ends : End(kind) BY <1>3
    <2>2. busy' = None /\ at' = "idle" /\ toPage' = Append(toPage, Msg(kind, job))
      BY <1>2, <2>1 DEF End, AtWork
    <2>3. ToldOf' BY <1>1, <1>2, <2>2 DEF ToldOf, AtWork
    <2>4. Types' BY <1>1, <2>2 DEF IInv, Types
    <2> QED BY <1>1, <1>2, <2>3, <2>4 DEF IInv, OneJob
  <1>4. ASSUME at' # "idle", busy' = busy, NEW s \in Seq(PostsOf(busy)), toPage' = toPage \o s
        PROVE  IInv'
    <2>1. toPage' \in Seq(PostsOf(job)) BY <1>2, <1>4 DEF AtWork
    <2>2. AtWork' BY <1>1, <1>2, <1>4, <2>1 DEF AtWork
    <2>3. Types' BY <1>1, <1>2, <1>4 DEF IInv, Types
    <2> QED BY <1>1, <1>2, <2>2, <2>3 DEF IInv, OneJob
  <1> QED BY <1>3, <1>4

LEMMA NothingSaid == ASSUME IInv, at # "idle", toPage' = toPage
                     PROVE  \E s \in Seq(PostsOf(busy)) : toPage' = toPage \o s
  <1>1. toPage \in Seq(PostsOf(job))
    BY DEF IInv, Types, OneJob, Handed, InLine, AtWork, ToldOf, Nothing
  <1>2. toPage \o <<>> = toPage BY <1>1
  <1> QED BY <1>2, NoElements

LEMMA WorkerSteps == ASSUME IInv, Prepare \/ RunCell \/ BetweenCells PROVE IInv'
  <1>1. CASE Prepare
    <2>1. UNCHANGED <<page, toWorker, chain>> /\ at # "idle" BY <1>1 DEF Prepare
    <2>2. \/ End("failed")
          \/ at' # "idle" /\ busy' = busy /\ toPage' = toPage
      BY <1>1 DEF Prepare
    <2> QED BY <2>1, <2>2, NothingSaid, WorkStep DEF Ends
  <1>2. CASE RunCell
    <2>1. UNCHANGED <<page, toWorker, chain>> /\ at # "idle" /\ at' # "idle" /\ busy' = busy
      BY <1>2 DEF RunCell
    <2>2. PICK traced \in BOOLEAN :
            toPage' = toPage
              \o (IF busy \in Books THEN <<Msg("workflow-run", busy)>> ELSE <<>>)
              \o (IF traced THEN <<Msg("trace", busy)>> ELSE <<>>)
              \o <<Msg("progress", busy)>>
      BY <1>2 DEF RunCell
    <2>3. \A k \in Posts : <<Msg(k, busy)>> \in Seq(PostsOf(busy)) BY DEF Msg, PostsOf
    <2> DEFINE x == IF busy \in Books THEN <<Msg("workflow-run", busy)>> ELSE <<>>
    <2> DEFINE y == IF traced THEN <<Msg("trace", busy)>> ELSE <<>>
    <2> DEFINE z == <<Msg("progress", busy)>>
    <2>4. x \in Seq(PostsOf(busy)) /\ y \in Seq(PostsOf(busy)) /\ z \in Seq(PostsOf(busy))
      BY <2>3, NoElements DEF Posts
    <2>5. toPage' = ((toPage \o x) \o y) \o z BY <2>2
    <2> HIDE DEF x, y, z
    <2>6. toPage \in Seq(PostsOf(busy))
      BY <2>1 DEF IInv, Types, OneJob, Handed, InLine, AtWork, ToldOf, Nothing
    <2>7. /\ (x \o y) \o z \in Seq(PostsOf(busy))
          /\ toPage' = toPage \o ((x \o y) \o z)
      BY <2>4, <2>5, <2>6
    <2> QED BY <2>1, <2>7, WorkStep
  <1>3. CASE BetweenCells
    <2>1. UNCHANGED <<page, toWorker, chain>> /\ at # "idle" BY <1>3 DEF BetweenCells
    <2>2. \/ \E kind \in Ends : End(kind)
          \/ at' # "idle" /\ busy' = busy /\ toPage' = toPage
      BY <1>3 DEF BetweenCells, Ends
    <2> QED BY <2>1, <2>2, NothingSaid, WorkStep
  <1> QED BY <1>1, <1>2, <1>3

--------------------------------------------------------------------------------
LEMMA NextInv == IInv /\ [Next]_vars => IInv'
  <1> SUFFICES ASSUME IInv, [Next]_vars PROVE IInv'
    OBVIOUS
  <1>1. CASE Person
    <2>1. ASSUME NEW e \in Campaigns, Enqueue(e) PROVE IInv' BY <2>1, EnqueueStep
    <2>2. ASSUME NEW e \in Campaigns, Remove(e) PROVE IInv' BY <2>2, RemoveStep
    <2>3. ASSUME NEW e \in Campaigns \union {None}, Show(e) PROVE IInv'
      <3>1. UNCHANGED <<queue, status, pc, current, job, toWorker, toPage, chain, busy, at>>
        BY <2>3 DEF Show, page, worker
      <3>2. Types' BY <3>1 DEF IInv, Types
      <3>3. OneJob' BY <3>1, OneJobKept DEF IInv
      <3> QED BY <3>2, <3>3 DEF IInv
    <2> QED BY <1>1, <2>1, <2>2, <2>3, CancelStep DEF Person
  <1>2. CASE Page
    BY <1>2, PostJobStep, SettlesStep, HearPostStep, HearDoneStep, HearEndStep, PersistStep
       DEF Page
  <1>3. CASE Worker
    BY <1>3, HandleStep, BeginStep, WorkerSteps DEF Worker
  <1>4. ASSUME \/ \E e \in Campaigns : StoreRun(e)
               \/ UNCHANGED vars
        PROVE  IInv'
    <2>1. UNCHANGED <<queue, status, pc, current, job, toWorker, toPage, chain, busy, at>>
      BY <1>4 DEF StoreRun, vars, page, worker
    <2>2. Types' BY <2>1 DEF IInv, Types
    <2>3. OneJob' BY <2>1, OneJobKept DEF IInv
    <2> QED BY <2>2, <2>3 DEF IInv
  <1> QED BY <1>1, <1>2, <1>3, <1>4 DEF Next

(* What the Worker was handed, works on or has said, and the page has not     *)
(* heard, is of the one job the page awaits, for any number of campaigns,     *)
(* cells and cancels (drain and runCampaignIn of the page, handle and runOne  *)
(* of the Worker).                                                            *)
THEOREM OneJobOnly == Spec => []OneJobAtATime
  BY InitInv, NextInv, InvImpliesOneJob, PTL DEF Spec

--------------------------------------------------------------------------------
(* A campaign that is done is stored.  Two more facts are kept beside what    *)
(* IInv says: an entry's status agrees with what is stored of it, and the     *)
(* progress the page has heard, with what is still to be heard, is that of    *)
(* the cells done.                                                            *)

Agrees(st, rp, ss) ==
  \A e \in Campaigns : /\ st[e] = "done" => e \in rp /\ ss[e] = 0
                       /\ e \in rp => st[e] \in {"done", "removed"}

Filed ==
  /\ stores \in [Campaigns -> Nat] /\ reports \subseteq Campaigns
  /\ Agrees(status, reports, stores)
  /\ shown # None => shown \in reports
  /\ pc # "idle" => status[current] = "running"
  /\ pc = "persist" => stores[current] = 0

(* The progress a sequence of messages leads to, as a running count.          *)
News(m) == IF m.kind = "progress" THEN 1 ELSE 0
Counts(p, s, from, to) ==
  /\ p \in [0 .. Len(s) -> Nat] /\ p[0] = from /\ p[Len(s)] = to
  /\ \A i \in 1 .. Len(s) : p[i] = p[i - 1] + News(s[i])
Leads(s, from, to) == \E p : Counts(p, s, from, to)

Counted ==
  /\ progress \in Nat /\ done \in Nat
  /\ busy = None => done = 0
  /\ pc = "cassettes" => progress = 0
  /\ pc = "result" => /\ busy = None /\ toPage = <<>> => progress = 0
                      /\ busy # None => Leads(toPage, progress, done)
                      /\ toPage # <<>> /\ toPage[Len(toPage)].kind = "done"
                           => Leads(toPage, progress, CellsOf[job])
  /\ pc \in {"stores", "persist"} => progress = CellsOf[current]

LEMMA LeadsNowhere == ASSUME NEW n \in Nat PROVE Leads(<<>>, n, n)
  <1> DEFINE p == [i \in 0 .. 0 |-> n]
  <1>1. Len(<<>>) = 0 OBVIOUS
  <1>2. p \in [0 .. 0 -> Nat] /\ p[0] = n OBVIOUS
  <1> HIDE DEF p
  <1>3. Counts(p, <<>>, n, n) BY <1>1, <1>2 DEF Counts
  <1> QED BY <1>3 DEF Leads

LEMMA LeadsOn ==
  ASSUME NEW S, NEW s \in Seq(S), NEW m \in S, NEW from, NEW to \in Nat, Leads(s, from, to)
  PROVE  Leads(Append(s, m), from, to + News(m))
  <1> DEFINE t == Append(s, m)
  <1> DEFINE d == News(m)
  <1>0. d \in Nat BY DEF News
  <1>1. PICK p : Counts(p, s, from, to) BY DEF Leads
  <1> DEFINE q == [i \in 0 .. Len(s) + 1 |-> IF i = Len(s) + 1 THEN to + d ELSE p[i]]
  <1>2. /\ Len(s) \in Nat /\ Len(t) = Len(s) + 1 /\ t[Len(s) + 1] = m
        /\ \A i \in 1 .. Len(s) : t[i] = s[i]
    OBVIOUS
  <1> HIDE DEF t, d
  <1>3. q \in [0 .. Len(t) -> Nat] BY <1>0, <1>1, <1>2 DEF Counts
  <1>4. q[0] = from /\ q[Len(t)] = to + d BY <1>1, <1>2 DEF Counts
  <1>5. ASSUME NEW i \in 1 .. Len(t) PROVE q[i] = q[i - 1] + News(t[i])
    <2>1. CASE i = Len(s) + 1
      <3>1. q[i] = to + d /\ q[i - 1] = p[Len(s)] /\ t[i] = m BY <1>2, <2>1
      <3> QED BY <1>1, <3>1 DEF Counts, d
    <2>2. CASE i # Len(s) + 1
      <3>1. i \in 1 .. Len(s) BY <1>2, <2>2
      <3>2. q[i] = p[i] /\ q[i - 1] = p[i - 1] /\ t[i] = s[i] BY <1>2, <3>1
      <3> QED BY <1>1, <3>1, <3>2 DEF Counts
    <2> QED BY <2>1, <2>2
  <1> HIDE DEF q
  <1>6. Counts(q, t, from, to + d) BY <1>3, <1>4, <1>5 DEF Counts
  <1> QED BY <1>6 DEF Leads, t, d

LEMMA LeadsFrom ==
  ASSUME NEW S, NEW s \in Seq(S), s # <<>>, NEW from \in Nat, NEW to, Leads(s, from, to)
  PROVE  Leads(Tail(s), from + News(Head(s)), to)
  <1> DEFINE t == Tail(s)
  <1>1. PICK p : Counts(p, s, from, to) BY DEF Leads
  <1> DEFINE q == [i \in 0 .. Len(t) |-> p[i + 1]]
  <1>2. /\ Len(s) \in Nat /\ Len(s) >= 1 /\ Len(t) = Len(s) - 1 /\ Head(s) = s[1]
        /\ \A i \in 1 .. Len(t) : t[i] = s[i + 1]
    OBVIOUS
  <1> HIDE DEF t
  <1>3. q \in [0 .. Len(t) -> Nat] BY <1>1, <1>2 DEF Counts
  <1>4. q[0] = from + News(Head(s))
    <2>1. 1 \in 1 .. Len(s) /\ 1 - 1 = 0 BY <1>2
    <2>2. p[1] = p[0] + News(s[1]) BY <1>1, <2>1 DEF Counts
    <2> QED BY <1>1, <1>2, <2>2 DEF Counts
  <1>5. q[Len(t)] = to BY <1>1, <1>2 DEF Counts
  <1>6. ASSUME NEW i \in 1 .. Len(t) PROVE q[i] = q[i - 1] + News(t[i])
    <2>1. i + 1 \in 1 .. Len(s) /\ (i + 1) - 1 = i /\ i - 1 \in 0 .. Len(t) /\ i \in 0 .. Len(t)
          /\ (i - 1) + 1 = i
      BY <1>2
    <2>2. p[i + 1] = p[i] + News(s[i + 1]) BY <1>1, <2>1 DEF Counts
    <2> QED BY <1>2, <2>1, <2>2
  <1> HIDE DEF q
  <1>7. Counts(q, t, from + News(Head(s)), to) BY <1>3, <1>4, <1>5, <1>6 DEF Counts
  <1> QED BY <1>7 DEF Leads, t

LEMMA LeadsToOne ==
  ASSUME NEW from, NEW to, Leads(<<>>, from, to)
  PROVE  from = to
  <1>1. Len(<<>>) = 0 OBVIOUS
  <1> QED BY <1>1 DEF Leads, Counts

--------------------------------------------------------------------------------
(* What is filed, step by step                                                *)

LEMMA FiledDrain ==
  ASSUME NEW q \in Seq(Campaigns), NEW st \in [Campaigns -> Statuses], Drain(q, st),
         stores' \in [Campaigns -> Nat], reports' \subseteq Campaigns,
         Agrees(st, reports', stores'), shown' # None => shown' \in reports'
  PROVE  Filed'
  <1>1. CASE pc' = "idle" /\ status' = st BY <1>1 DEF Filed
  <1>2. ASSUME NEW i \in DOMAIN q, st[q[i]] = "queued", pc' = "cassettes", current' = q[i],
               status' = [st EXCEPT ![q[i]] = "running"]
        PROVE  Filed'
    <2>1. q[i] \in Campaigns OBVIOUS
    <2>2. status'[current'] = "running" BY <1>2, <2>1
    <2>3. \A e \in Campaigns : e # q[i] => status'[e] = st[e] BY <1>2
    <2>4. Agrees(status', reports', stores') BY <1>2, <2>2, <2>3 DEF Agrees
    <2> QED BY <1>2, <2>2, <2>4 DEF Filed
  <1> QED BY <1>1, <1>2 DEF Drain

(* The current entry runs, so that nothing of it is stored; it fails or is    *)
(* cancelled.                                                                 *)
LEMMA FiledSettle ==
  ASSUME IInv, Filed, pc # "idle", NEW how \in {"failed", "cancelled"}, Settle(how),
         UNCHANGED <<stores, reports, shown>>
  PROVE  Filed'
  <1> DEFINE st == [status EXCEPT ![current] = how]
  <1>1. current \in Campaigns /\ status[current] = "running" /\ queue \in Seq(Campaigns)
    BY DEF IInv, Types, Filed
  <1>2. st \in [Campaigns -> Statuses] BY DEF IInv, Types, Statuses
  <1>3. st[current] = how /\ \A e \in Campaigns : e # current => st[e] = status[e]
    BY <1>1 DEF IInv, Types
  <1>4. Drain(queue, st) BY DEF Settle
  <1> HIDE DEF st
  <1>5. Agrees(st, reports, stores) BY <1>1, <1>3 DEF Agrees, Filed
  <1> QED BY <1>1, <1>2, <1>4, <1>5, FiledDrain DEF Filed

LEMMA FiledEnqueue == ASSUME IInv, Filed, NEW e \in Campaigns, Enqueue(e) PROVE Filed'
  <1> DEFINE q == Append(queue, e)
  <1> DEFINE st == [status EXCEPT ![e] = "queued"]
  <1>1. q \in Seq(Campaigns) /\ queue' = q BY DEF IInv, Types, Enqueue
  <1>2. st \in [Campaigns -> Statuses] BY DEF IInv, Types, Statuses
  <1>3. st[e] = "queued" /\ \A f \in Campaigns : f # e => st[f] = status[f]
    BY DEF IInv, Types
  <1>4. /\ UNCHANGED <<stores, reports, shown>> /\ status[e] = "unknown"
        /\ IF pc = "idle" THEN Drain(q, st) ELSE status' = st /\ UNCHANGED <<pc, current>>
    BY <1>1 DEF Enqueue, kept
  <1> HIDE DEF q, st
  <1>5. Agrees(st, reports, stores) BY <1>3, <1>4 DEF Agrees, Filed
  <1>6. CASE pc = "idle" BY <1>1, <1>2, <1>4, <1>5, <1>6, FiledDrain DEF Filed
  <1>7. CASE pc # "idle"
    <2>1. current \in Campaigns /\ current # e BY <1>4, <1>7 DEF IInv, Types, Filed
    <2> QED BY <1>3, <1>4, <1>5, <1>7, <2>1 DEF Filed
  <1> QED BY <1>6, <1>7

LEMMA FiledRemove == ASSUME IInv, Filed, NEW e \in Campaigns, Remove(e) PROVE Filed'
  <1>1. /\ UNCHANGED <<pc, current, stores, reports, shown>>
        /\ status[e] # "running" /\ status' = [status EXCEPT ![e] = "removed"]
    BY DEF Remove, kept
  <1>2. status'[e] = "removed" /\ \A f \in Campaigns : f # e => status'[f] = status[f]
    BY <1>1 DEF IInv, Types
  <1>3. Agrees(status', reports, stores) BY <1>2 DEF Agrees, Filed
  <1>4. pc # "idle" => status'[current] = "running"
    BY <1>1, <1>2 DEF IInv, Types, Filed
  <1> QED BY <1>1, <1>3, <1>4 DEF Filed

LEMMA FiledHearPost == ASSUME IInv, Filed, HearPost PROVE Filed'
  <1>1. UNCHANGED <<status, pc, current, job, reports, shown>> BY DEF HearPost
  <1>2. CASE stores' = stores BY <1>1, <1>2 DEF Filed
  <1>3. CASE Listening /\ stores' = [stores EXCEPT ![job] = @ + 1]
    <2>1. job = current /\ pc = "result" /\ current \in Campaigns
      BY <1>3 DEF Listening, IInv, Types
    <2>2. status[current] = "running" BY <2>1 DEF Filed
    <2>3. /\ stores' \in [Campaigns -> Nat]
          /\ \A e \in Campaigns : e # current => stores'[e] = stores[e]
      BY <1>3, <2>1 DEF Filed
    <2>4. Agrees(status, reports, stores') BY <2>2, <2>3 DEF Agrees, Filed
    <2> QED BY <1>1, <2>1, <2>3, <2>4 DEF Filed
  <1> QED BY <1>2, <1>3 DEF HearPost

LEMMA FiledStoreRun == ASSUME IInv, Filed, NEW e \in Campaigns, StoreRun(e) PROVE Filed'
  <1>1. /\ UNCHANGED <<status, pc, current, reports, shown>>
        /\ stores[e] > 0 /\ stores' = [stores EXCEPT ![e] = @ - 1]
    BY DEF StoreRun, page
  <1>2. /\ stores' \in [Campaigns -> Nat]
        /\ \A f \in Campaigns : f # e => stores'[f] = stores[f]
    BY <1>1 DEF Filed
  <1>3. \A f \in Campaigns : stores[f] = 0 => f # e BY <1>1
  <1>4. Agrees(status, reports, stores') BY <1>2, <1>3 DEF Agrees, Filed
  <1>5. pc = "persist" => stores'[current] = 0 BY <1>2, <1>3 DEF IInv, Types, Filed
  <1> QED BY <1>1, <1>2, <1>4, <1>5 DEF Filed

LEMMA FiledPersisted == ASSUME IInv, Filed, Persisted PROVE Filed'
  <1>1. pc = "persist" /\ stores' = stores BY DEF Persisted
  <1>2. ASSUME reports' = reports \union {current}, shown' = current, Settle("done")
        PROVE  Filed'
    <2> DEFINE st == [status EXCEPT ![current] = "done"]
    <2>1. current \in Campaigns /\ stores[current] = 0 /\ queue \in Seq(Campaigns)
      BY <1>1 DEF IInv, Types, Filed
    <2>2. st \in [Campaigns -> Statuses] BY DEF IInv, Types, Statuses
    <2>3. st[current] = "done" /\ \A e \in Campaigns : e # current => st[e] = status[e]
      BY <2>1 DEF IInv, Types
    <2>4. Drain(queue, st) BY <1>2 DEF Settle
    <2> HIDE DEF st
    <2>5. Agrees(st, reports', stores) BY <1>2, <2>1, <2>3 DEF Agrees, Filed
    <2>6. reports' \subseteq Campaigns /\ shown' \in reports' BY <1>2, <2>1 DEF Filed
    <2>7. stores' \in [Campaigns -> Nat] /\ Agrees(st, reports', stores')
      BY <1>1, <2>5 DEF Filed
    <2> QED BY <2>1, <2>2, <2>4, <2>6, <2>7, FiledDrain
  <1>3. ASSUME Settle("failed"), UNCHANGED <<reports, shown>> PROVE Filed'
    BY <1>1, <1>3, FiledSettle
  <1> QED BY <1>2, <1>3 DEF Persisted

LEMMA FiledStep == IInv /\ Filed /\ [Next]_vars => Filed'
  <1> SUFFICES ASSUME IInv, Filed, [Next]_vars PROVE Filed'
    OBVIOUS
  <1>1. CASE Person
    <2>1. CASE Cancel BY <2>1 DEF Cancel, kept, Filed
    <2>2. ASSUME NEW e \in Campaigns \union {None}, Show(e) PROVE Filed'
      <3>1. /\ UNCHANGED <<status, pc, current, stores, reports>>
            /\ shown' \in reports \union {None}
        BY <2>2 DEF Show, page
      <3> QED BY <3>1 DEF Filed
    <2> QED BY <1>1, <2>1, <2>2, FiledEnqueue, FiledRemove DEF Person
  <1>2. CASE Page
    <2>1. CASE PostJob BY <2>1 DEF PostJob, kept, Filed
    <2>2. CASE CassettesFail BY <2>2, FiledSettle DEF CassettesFail, kept
    <2>3. CASE HearDone BY <2>3 DEF HearDone, Listening, kept, Filed
    <2>4. ASSUME NEW kind \in {"cancelled", "failed"}, HearEnd(kind) PROVE Filed'
      BY <2>4, FiledSettle DEF HearEnd, Listening, kept
    <2>5. CASE Persist BY <2>5 DEF Persist, StoresLanded, kept, Filed
    <2> QED BY <1>2, <2>1, <2>2, <2>3, <2>4, <2>5, FiledHearPost, FiledPersisted DEF Page
  <1>3. ASSUME Worker \/ UNCHANGED vars PROVE Filed'
    <2>1. UNCHANGED <<status, pc, current, stores, reports, shown>>
      BY <1>3 DEF Worker, Handle, Begin, Prepare, RunCell, BetweenCells, vars, page, kept
    <2> QED BY <2>1 DEF Filed
  <1> QED BY <1>1, <1>2, <1>3, FiledStoreRun DEF Next

--------------------------------------------------------------------------------
(* What is counted, step by step                                              *)

Wire == [kind : Posts \union Ends, job : Campaigns]

LEMMA OnTheWire == ASSUME IInv PROVE toPage \in Seq(Wire)
  <1>1. \A j \in Campaigns : PostsOf(j) \subseteq Wire BY DEF PostsOf, Wire
  <1>2. CASE toPage = <<>> BY <1>2, NoElements
  <1>3. CASE pc = "result" /\ AtWork
    <2>1. job \in Campaigns BY <1>3 DEF IInv, Types
    <2> QED BY <1>1, <1>3, <2>1 DEF AtWork
  <1>4. CASE pc = "result" /\ ToldOf
    <2>1. job \in Campaigns BY <1>4 DEF IInv, Types
    <2>2. PICK s \in Seq(PostsOf(job)), k \in Ends : toPage = Append(s, Msg(k, job))
      BY <1>4 DEF ToldOf
    <2>3. s \in Seq(Wire) BY <1>1, <2>1, <2>2
    <2>4. Msg(k, job) \in Wire BY <2>1, <2>2 DEF Msg, Wire
    <2> QED BY <2>2, <2>3, <2>4
  <1> QED BY <1>2, <1>3, <1>4 DEF IInv, OneJob, Handed, InLine, Nothing

LEMMA LastOf ==
  ASSUME NEW S, NEW s \in Seq(S)
  PROVE  /\ s # <<>> /\ Tail(s) # <<>> => Tail(s)[Len(Tail(s))] = s[Len(s)]
         /\ s # <<>> /\ Tail(s) = <<>> => Head(s) = s[Len(s)]
         /\ \A m \in S : Append(s, m) # <<>> /\ Append(s, m)[Len(Append(s, m))] = m
  <1>1. ASSUME s # <<>>, Tail(s) # <<>> PROVE Tail(s)[Len(Tail(s))] = s[Len(s)]
    <2>1. /\ Len(s) \in Nat /\ Len(Tail(s)) = Len(s) - 1 /\ Tail(s) \in Seq(S)
          /\ Len(Tail(s)) # 0
      BY <1>1
    <2>2. \A i \in 1 .. Len(s) - 1 : Tail(s)[i] = s[i + 1] BY <1>1
    <2>3. Len(s) - 1 \in 1 .. Len(s) - 1 /\ (Len(s) - 1) + 1 = Len(s) BY <2>1
    <2> QED BY <2>1, <2>2, <2>3
  <1>2. ASSUME s # <<>>, Tail(s) = <<>> PROVE Head(s) = s[Len(s)]
    <2>1. Len(Tail(s)) = Len(s) - 1 /\ Len(s) \in Nat /\ Head(s) = s[1] BY <1>2
    <2>2. Len(Tail(s)) = 0
      <3>1. Len(<<>>) = 0 OBVIOUS
      <3> QED BY <1>2, <3>1, Zenon
    <2>3. Head(s) = s[1] /\ Len(s) = 1 BY <2>1, <2>2
    <2> QED BY <2>3
  <1>3. ASSUME NEW m \in S PROVE Append(s, m) # <<>> /\ Append(s, m)[Len(Append(s, m))] = m
    OBVIOUS
  <1> QED BY <1>1, <1>2, <1>3

(* A message that is no news, and may be left out.                            *)
LEMMA LeadsStill ==
  ASSUME NEW s \in Seq(Wire), NEW from, NEW to \in Nat, Leads(s, from, to),
         NEW m \in Wire, m.kind # "progress", NEW x, x = <<m>> \/ x = <<>>
  PROVE  s \o x \in Seq(Wire) /\ Leads(s \o x, from, to)
  <1>1. CASE x = <<>>
    <2>1. s \o x = s BY <1>1
    <2> QED BY <2>1
  <1>2. CASE x = <<m>>
    <2>1. s \o x = Append(s, m) /\ Append(s, m) \in Seq(Wire) BY <1>2
    <2>2. News(m) = 0 /\ to + 0 = to BY DEF News
    <2>3. Leads(Append(s, m), from, to + News(m)) BY LeadsOn
    <2> QED BY <2>1, <2>2, <2>3
  <1> QED BY <1>1, <1>2

LEMMA CountedSame ==
  ASSUME Counted, UNCHANGED <<progress, done, busy, pc, current, job, toPage>>
  PROVE  Counted'
  BY DEF Counted

LEMMA CountedDrain ==
  ASSUME Counted, NEW q, NEW st, Drain(q, st), UNCHANGED <<busy, done>>
  PROVE  Counted'
  BY DEF Counted, Drain

LEMMA CountedPostJob == ASSUME IInv, Counted, PostJob PROVE Counted'
  <1>1. pc = "cassettes" /\ pc' = "result" /\ UNCHANGED <<progress, done, busy, toPage>>
    BY DEF PostJob, worker
  <1>2. toPage = <<>> /\ busy = None BY <1>1 DEF IInv, OneJob, Nothing
  <1> QED BY <1>1, <1>2 DEF Counted

LEMMA CountedHearPost == ASSUME IInv, Counted, HearPost PROVE Counted'
  <1> DEFINE m == Head(toPage)
  <1>1. toPage # <<>> /\ toPage' = Tail(toPage) /\ UNCHANGED <<pc, current, job, busy, done>>
    BY DEF HearPost, worker
  <1>2. pc = "result" /\ m.job = job /\ Listening
    BY <1>1, WhatIsHeard DEF Listening
  <1>3. m.kind \in Posts BY <1>1, <1>2 DEF HearPost
  <1>4. progress' = progress + News(m) /\ progress' \in Nat
    BY <1>1, <1>2 DEF HearPost, Heard, News, Counted
  <1>5. toPage \in Seq(Wire) BY OnTheWire
  <1>6. busy = None => toPage' # <<>>
    <2>1. ASSUME busy = None PROVE toPage' # <<>>
      <3>1. ~AtWork BY <1>2, <2>1 DEF AtWork, IInv, Types
      <3>2. PICK s \in Seq(PostsOf(job)), k \in Ends : Tail(toPage) = Append(s, Msg(k, job))
        BY <1>1, <1>3, <3>1, WhatIsHeard
      <3> QED BY <1>1, <3>2, HeadOfAppend
    <2> QED BY <2>1
  <1>7. ASSUME NEW to, Leads(toPage, progress, to) PROVE Leads(toPage', progress', to)
    BY <1>1, <1>4, <1>5, <1>7, LeadsFrom DEF Counted
  <1>8. toPage' # <<>> => toPage'[Len(toPage')] = toPage[Len(toPage)]
    BY <1>1, <1>5, LastOf
  <1> HIDE DEF m
  <1> QED BY <1>1, <1>2, <1>4, <1>6, <1>7, <1>8 DEF Counted

LEMMA CountedHearDone == ASSUME IInv, Counted, HearDone PROVE Counted'
  <1>1. /\ toPage # <<>> /\ Head(toPage).kind = "done" /\ pc = "result" /\ pc' = "stores"
        /\ UNCHANGED <<current, job, progress, busy, done>>
    BY DEF HearDone, Heard, Listening, worker
  <1>2. Tail(toPage) = <<>>
    <2>1. "done" \notin Posts BY DEF Posts
    <2> QED BY <1>1, <2>1, WhatIsHeard
  <1>3. toPage \in Seq(Wire) BY OnTheWire
  <1>4. toPage[Len(toPage)].kind = "done" BY <1>1, <1>2, <1>3, LastOf
  <1>5. Leads(toPage, progress, CellsOf[job]) BY <1>1, <1>4 DEF Counted
  <1>6. progress \in Nat /\ News(Head(toPage)) = 0 /\ progress + 0 = progress
    BY <1>1 DEF Counted, News
  <1>7. Leads(<<>>, progress, CellsOf[job])
    <2>1. Leads(Tail(toPage), progress + News(Head(toPage)), CellsOf[job])
      BY <1>1, <1>3, <1>5, <1>6, LeadsFrom
    <2> QED BY <1>2, <1>6, <2>1
  <1>8. progress = CellsOf[job] BY <1>7, LeadsToOne
  <1>9. job = current BY <1>1 DEF IInv, Types
  <1> QED BY <1>1, <1>8, <1>9 DEF Counted

LEMMA CountedBegin == ASSUME IInv, Counted, Begin PROVE Counted'
  <1>1. busy = None /\ chain # <<>> /\ UNCHANGED <<pc, current, job, progress, toPage, done>>
    BY DEF Begin, page
  <1>2. pc = "result" /\ toPage = <<>>
    <2>1. ~Handed /\ ~ToldOf /\ ~Nothing BY <1>1 DEF Handed, ToldOf, Nothing
    <2>2. pc = "result" /\ (InLine \/ AtWork) BY <2>1 DEF IInv, OneJob
    <2>3. ~AtWork BY <1>1 DEF AtWork
    <2> QED BY <2>2, <2>3 DEF InLine
  <1>3. progress = 0 /\ done = 0 BY <1>1, <1>2 DEF Counted
  <1>4. Leads(toPage, progress, done) BY <1>2, <1>3, LeadsNowhere
  <1>5. busy' # None
    <2>1. chain = <<job>> /\ busy' = Head(chain) /\ job # None
      BY <1>1, <1>2 DEF Begin, IInv, Types, OneJob, Handed, InLine, AtWork, ToldOf
    <2> QED BY <2>1
  <1> QED BY <1>1, <1>2, <1>3, <1>4, <1>5 DEF Counted

(* The Worker's steps of a job.                                               *)
LEMMA AtWorkOn ==
  ASSUME IInv, Counted, at # "idle"
  PROVE  /\ pc = "result" /\ busy = job /\ job \in Campaigns /\ job # None
         /\ toPage \in Seq(Wire) /\ Leads(toPage, progress, done)
  <1>1. busy # None BY DEF IInv, Types
  <1>2. pc = "result" /\ AtWork
    BY <1>1 DEF IInv, OneJob, Handed, InLine, AtWork, ToldOf, Nothing
  <1> QED BY <1>1, <1>2, OnTheWire DEF AtWork, IInv, Types, Counted

LEMMA CountedEnd ==
  ASSUME IInv, Counted, at # "idle", NEW k \in Ends, End(k), k = "done" => done = CellsOf[busy],
         UNCHANGED <<pc, current, job, progress>>
  PROVE  Counted'
  <1> DEFINE m == Msg(k, busy)
  <1>1. /\ pc = "result" /\ busy = job /\ toPage \in Seq(Wire) /\ Leads(toPage, progress, done)
        /\ job \in Campaigns
    BY AtWorkOn
  <1>2. m \in Wire /\ m.kind = k /\ News(m) = 0 BY <1>1 DEF Msg, Wire, Ends, News
  <1>3. toPage' = Append(toPage, m) /\ busy' = None /\ done' = 0 BY DEF End
  <1> HIDE DEF m
  <1>4. Leads(toPage', progress, done)
    <2>1. done \in Nat /\ done + 0 = done BY DEF Counted
    <2>2. Leads(Append(toPage, m), progress, done + News(m)) BY <1>1, <1>2, <2>1, LeadsOn
    <2> QED BY <1>2, <1>3, <2>1, <2>2
  <1>5. toPage' # <<>> /\ toPage'[Len(toPage')] = m BY <1>1, <1>2, <1>3, LastOf
  <1>6. m.kind = "done" => Leads(toPage', progress, CellsOf[job]) BY <1>1, <1>2, <1>4
  <1> QED BY <1>1, <1>3, <1>5, <1>6 DEF Counted

LEMMA CountedRunCell == ASSUME IInv, Counted, RunCell PROVE Counted'
  <1>1. /\ at = "cell" /\ done' = done + 1 /\ UNCHANGED <<pc, current, job, progress, busy>>
        /\ \E traced \in BOOLEAN :
             toPage' = toPage
               \o (IF busy \in Books THEN <<Msg("workflow-run", busy)>> ELSE <<>>)
               \o (IF traced THEN <<Msg("trace", busy)>> ELSE <<>>)
               \o <<Msg("progress", busy)>>
    BY DEF RunCell, page
  <1>2. /\ pc = "result" /\ busy = job /\ job \in Campaigns /\ job # None
        /\ toPage \in Seq(Wire) /\ Leads(toPage, progress, done) /\ done \in Nat
    BY <1>1, AtWorkOn DEF Counted
  <1> DEFINE run == Msg("workflow-run", busy)
  <1> DEFINE trace == Msg("trace", busy)
  <1> DEFINE news == Msg("progress", busy)
  <1>3. /\ run \in Wire /\ trace \in Wire /\ news \in Wire
        /\ run.kind # "progress" /\ trace.kind # "progress"
        /\ News(news) = 1 /\ news.kind # "done"
    BY <1>2 DEF Msg, Wire, Posts, News
  <1>4. PICK x, y : /\ x = <<run>> \/ x = <<>>
                    /\ y = <<trace>> \/ y = <<>>
                    /\ toPage' = ((toPage \o x) \o y) \o <<news>>
    <2>1. PICK traced \in BOOLEAN :
            toPage' = toPage
              \o (IF busy \in Books THEN <<run>> ELSE <<>>)
              \o (IF traced THEN <<trace>> ELSE <<>>)
              \o <<news>>
      BY <1>1
    <2> DEFINE x == IF busy \in Books THEN <<run>> ELSE <<>>
    <2> DEFINE y == IF traced THEN <<trace>> ELSE <<>>
    <2>2. (x = <<run>> \/ x = <<>>) /\ (y = <<trace>> \/ y = <<>>) OBVIOUS
    <2>3. toPage' = ((toPage \o x) \o y) \o <<news>> BY <2>1
    <2> HIDE DEF x, y, run, trace, news
    <2> QED BY <2>2, <2>3
  <1> HIDE DEF run, trace, news
  <1>5. toPage \o x \in Seq(Wire) /\ Leads(toPage \o x, progress, done)
    BY <1>2, <1>3, <1>4, LeadsStill
  <1>6. (toPage \o x) \o y \in Seq(Wire) /\ Leads((toPage \o x) \o y, progress, done)
    BY <1>2, <1>3, <1>4, <1>5, LeadsStill
  <1> DEFINE s == (toPage \o x) \o y
  <1>7. s \in Seq(Wire) /\ Leads(s, progress, done) /\ toPage' = s \o <<news>>
    BY <1>4, <1>6
  <1> HIDE DEF s
  <1>8. toPage' = Append(s, news) BY <1>3, <1>7, AppendIsConcat
  <1>9. Leads(toPage', progress', done')
    BY <1>1, <1>2, <1>3, <1>7, <1>8, LeadsOn
  <1>10. toPage' # <<>> /\ toPage'[Len(toPage')] = news BY <1>3, <1>7, <1>8, LastOf
  <1>11. toPage'[Len(toPage')].kind # "done" BY <1>3, <1>10
  <1>12. done' \in Nat /\ progress' \in Nat /\ busy' # None /\ pc' = "result"
    BY <1>1, <1>2 DEF Counted
  <1> QED BY <1>9, <1>11, <1>12 DEF Counted

LEMMA CountedPrepare == ASSUME IInv, Counted, Prepare PROVE Counted'
  <1>1. at # "idle" /\ UNCHANGED <<pc, current, job, progress>> BY DEF Prepare, page
  <1>2. ASSUME End("failed") PROVE Counted' BY <1>1, <1>2, CountedEnd DEF Ends
  <1>3. ASSUME UNCHANGED <<toPage, busy, done>> PROVE Counted' BY <1>1, <1>3, CountedSame
  <1> QED BY <1>2, <1>3 DEF Prepare

LEMMA CountedBetween == ASSUME IInv, Counted, BetweenCells PROVE Counted'
  <1>1. at # "idle" /\ UNCHANGED <<pc, current, job, progress>> BY DEF BetweenCells, page
  <1>2. ASSUME NEW k \in Ends, End(k), k = "done" => done = CellsOf[busy] PROVE Counted'
    BY <1>1, <1>2, CountedEnd
  <1>3. ASSUME UNCHANGED <<toPage, busy, done>> PROVE Counted' BY <1>1, <1>3, CountedSame
  <1> QED BY <1>2, <1>3 DEF BetweenCells, Ends

LEMMA CountedStep == IInv /\ Counted /\ [Next]_vars => Counted'
  <1> SUFFICES ASSUME IInv, Counted, [Next]_vars PROVE Counted'
    OBVIOUS
  <1>1. CASE Person
    <2>1. ASSUME NEW e \in Campaigns, Enqueue(e) PROVE Counted'
      <3>1. UNCHANGED <<busy, done, toPage>> BY <2>1 DEF Enqueue, worker
      <3>2. \/ \E q, st : Drain(q, st)
            \/ UNCHANGED <<progress, pc, current, job>>
        BY <2>1 DEF Enqueue
      <3> QED BY <3>1, <3>2, CountedDrain, CountedSame
    <2>2. CASE \/ \E e \in Campaigns : Remove(e)
               \/ Cancel
               \/ \E e \in Campaigns \union {None} : Show(e)
      BY <2>2, CountedSame DEF Remove, Cancel, Show, page, worker
    <2> QED BY <1>1, <2>1, <2>2 DEF Person
  <1>2. CASE Page
    <2>1. CASE CassettesFail \/ Persisted
      <3>1. UNCHANGED <<busy, done>> /\ \E q, st : Drain(q, st)
        BY <2>1 DEF CassettesFail, Persisted, Settle, worker
      <3> QED BY <3>1, CountedDrain
    <2>2. ASSUME NEW kind \in {"cancelled", "failed"}, HearEnd(kind) PROVE Counted'
      <3>1. UNCHANGED <<busy, done>> /\ \E q, st : Drain(q, st)
        BY <2>2 DEF HearEnd, Settle, worker
      <3> QED BY <3>1, CountedDrain
    <2>3. CASE Persist BY <2>3 DEF Persist, worker, Counted
    <2> QED BY <1>2, <2>1, <2>2, <2>3, CountedPostJob, CountedHearPost, CountedHearDone DEF Page
  <1>3. CASE Worker
    <2>1. CASE Handle BY <2>1, CountedSame DEF Handle, page
    <2> QED BY <1>3, <2>1, CountedBegin, CountedPrepare, CountedRunCell, CountedBetween DEF Worker
  <1>4. CASE (\E e \in Campaigns : StoreRun(e)) \/ UNCHANGED vars
    BY <1>4, CountedSame DEF StoreRun, vars, page, worker
  <1> QED BY <1>1, <1>2, <1>3, <1>4 DEF Next

(* A campaign that is done has its report in the store and every workflow run *)
(* it landed tried, all its cells were accounted for before, and what is on   *)
(* screen is stored, however many cells it has and however the messages and   *)
(* the writes interleave (runOne of the page, runOne of the Worker).          *)
THEOREM DoneMeansStored == Spec => []DoneIsStored
  <1> DEFINE J == IInv /\ Filed /\ Counted
  <1>1. Init => J
    <2>1. SUFFICES ASSUME Init PROVE J OBVIOUS
    <2>2. Filed BY <2>1 DEF Init, Filed, Agrees
    <2>3. Counted BY <2>1 DEF Init, Counted
    <2> QED BY <2>1, <2>2, <2>3, InitInv
  <1>2. J /\ [Next]_vars => J' BY NextInv, FiledStep, CountedStep
  <1>3. J => DoneIsStored
    <2>1. SUFFICES ASSUME J PROVE DoneIsStored OBVIOUS
    <2> QED BY <2>1 DEF DoneIsStored, Filed, Agrees, Counted
  <1> HIDE DEF J
  <1> QED BY <1>1, <1>2, <1>3, PTL DEF Spec
=============================================================================
