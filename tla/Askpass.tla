------------------------------ MODULE Askpass ------------------------------
(***************************************************************************)
(* The password cache of a shell session (internal/askpass/agent.go,        *)
(* page.go): an agent inside the shell's process that keeps one password in *)
(* a locked page and answers the commands of the running line over a socket.*)
(*                                                                         *)
(* The shell opens the agent for a line (BeginLine) with a token of its own *)
(* and shuts it after it (EndLine).  A request carries a token, is checked  *)
(* under the lock, and acts later under the lock again; the body of a store *)
(* comes later still, without the lock.  So requests of an earlier line can *)
(* be anywhere when the next line runs, the password expires, or the agent  *)
(* is closed.  A token is the number of the line (gen) it was minted for.   *)
(***************************************************************************)
EXTENDS Integers, Sequences, FiniteSets

CONSTANTS
  Client,    \* connections that may be open at once
  Secret,    \* passwords that may be typed
  NoSecret,  \* a zeroed slot of the page
  MaxGets,   \* gets answered per line (Options.MaxGets, 1 by default)
  Sem,       \* connections served at once
  Idle, Max, \* the lifetimes
  Slack,     \* clockSlack
  MaxNow,    \* bound of the clock
  MaxGen,    \* bound of gen: two per line
  MaxReq,    \* bound of the requests made
  MaxBack    \* how often the clock may be set back

ASSUME AskpassAssumption ==
  /\ NoSecret \notin Secret
  /\ MaxGets \in Nat \ {0} /\ Sem \in Nat \ {0} /\ MaxReq \in Nat
  /\ Idle \in Nat \ {0} /\ Max \in Nat \ {0} /\ Slack \in Nat
  /\ MaxNow \in Nat /\ MaxGen \in Nat \ {0} /\ MaxBack \in Nat

VARIABLES
  now, backs,       \* the wall clock; history: how often it was set back
  secret, stage,    \* the two slots of the page
  stored, lastGet,  \* the instants the lifetimes run from
  token, gen,       \* the line whose token is valid, 0 for none; the line number
  inFlight, gets, spent,
  life,             \* "open", "closing" (closed is set), "released" (the page is unmapped)
  conn,             \* the requests, see Conns
  reqs,             \* requests made so far
  queue, wake,      \* events to deliver, and the channel of capacity one
  deliver,          \* the goroutine: "wait", "drain", "call" or "gone"
  told,             \* the last event Notify was given, or is being given
  shell,            \* "idle" or "flushing": the shell waits in Flush
  served            \* history: secrets sent to each line

times == <<now, backs>>
page == <<secret, stage, stored, lastGet>>
line == <<token, gen, inFlight, gets, spent>>
events == <<queue, wake, deliver, told, shell>>
vars == <<times, page, line, life, conn, reqs, events, served>>

Slot == Secret \cup {NoSecret}
Verb == {"have", "get", "store", "forget"}
Event == {"stored", "forgotten"}
Answer == {"none", "ok", "no", "denied", "closed", "not-in-flight", "limit", "busy", "bad-secret"}
(* A request: "header" when it was accepted, "checked" when its token        *)
(* matched line .gen, "body" when a store waits for its bytes with stageMu   *)
(* held, "staged" when they are in the page, "done" when it was answered.    *)
Conns == [pc : {"idle", "header", "checked", "body", "staged", "done"},
          verb : Verb, tok : 0 .. MaxGen, gen : 0 .. MaxGen, what : Slot, ans : Answer]
NoConn == [pc |-> "idle", verb |-> "have", tok |-> 0, gen |-> 0, what |-> NoSecret, ans |-> "none"]
Serving == {c \in Client : conn[c].pc \in {"header", "checked", "body", "staged"}}
Closed == life # "open"

-----------------------------------------------------------------------------
\* expireLocked: the lifetimes, and a clock that went back too far.
Expired ==
  /\ secret # NoSecret /\ ~Closed
  /\ \/ now < stored - Slack \/ now < lastGet - Slack
     \/ now >= stored + Max \/ now >= lastGet + Idle

Held == IF Expired THEN NoSecret ELSE secret

\* Events are queued with the change that causes them, and deliver is woken.
Enqueue(evs) == /\ queue' = queue \o evs
                /\ wake' = (wake \/ evs # <<>>)
                /\ UNCHANGED <<deliver, told, shell>>
ExpiryEvents == IF Expired THEN <<"forgotten">> ELSE <<>>
ForgetEvents == IF secret # NoSecret THEN <<"forgotten">> ELSE <<>>

Answered(c, ans) == conn' = [conn EXCEPT ![c].pc = "done", ![c].ans = ans]

Init ==
  /\ now = Slack + 1 /\ backs = 0
  /\ secret = NoSecret /\ stage = NoSecret /\ stored = 0 /\ lastGet = 0
  /\ token = 0 /\ gen = 1 /\ inFlight = FALSE /\ gets = 0 /\ spent = FALSE
  /\ life = "open" /\ conn = [c \in Client |-> NoConn] /\ reqs = 0
  /\ queue = <<>> /\ wake = FALSE /\ deliver = "wait" /\ told = "forgotten" /\ shell = "idle"
  /\ served = [g \in 0 .. MaxGen |-> 0]

-----------------------------------------------------------------------------
\* The shell.
BeginLine ==
  /\ shell = "idle" /\ ~inFlight /\ ~Closed /\ gen + 1 < MaxGen
  /\ gen' = gen + 1 /\ token' = gen'
  /\ inFlight' = TRUE /\ gets' = 0 /\ spent' = FALSE
  /\ UNCHANGED <<times, page, life, conn, reqs, events, served>>

EndLine ==
  /\ inFlight
  /\ gen' = gen + 1 /\ token' = 0
  /\ inFlight' = FALSE /\ gets' = 0 /\ spent' = FALSE
  /\ UNCHANGED <<times, page, life, conn, reqs, events, served>>

\* Forget, after a password change or on 'console forget'; Cached and Sweep.
Forget ==
  /\ shell = "idle" /\ ~inFlight /\ life # "released" /\ secret # NoSecret
  /\ secret' = NoSecret /\ Enqueue(ForgetEvents)
  /\ UNCHANGED <<times, stage, stored, lastGet, line, life, conn, reqs, served>>

\* (mutant) The sweeper only looks while a line runs.
SweepInLine ==
  /\ Expired /\ inFlight
  /\ secret' = NoSecret /\ Enqueue(ExpiryEvents)
  /\ UNCHANGED <<times, stage, stored, lastGet, line, life, conn, reqs, served>>

Sweep ==
  /\ Expired
  /\ secret' = NoSecret /\ Enqueue(ExpiryEvents)
  /\ UNCHANGED <<times, stage, stored, lastGet, line, life, conn, reqs, served>>

\* (mutant) Flush queues its barrier and wakes nobody.
FlushUnwoken ==
  /\ shell = "idle" /\ ~inFlight /\ ~Closed
  /\ queue' = Append(queue, "barrier") /\ shell' = "flushing"
  /\ UNCHANGED <<times, page, line, life, conn, reqs, wake, deliver, told, served>>

\* Flush, before the shell prints the notices of a line.
FlushBegin ==
  /\ shell = "idle" /\ ~inFlight /\ ~Closed
  /\ queue' = Append(queue, "barrier") /\ wake' = TRUE /\ shell' = "flushing"
  /\ UNCHANGED <<times, page, line, life, conn, reqs, deliver, told, served>>

\* Close: closed is set and the connections are cut, then it waits for all.
Close ==
  /\ shell = "idle" /\ ~inFlight /\ life = "open"
  /\ life' = "closing"
  /\ UNCHANGED <<times, page, line, conn, reqs, events, served>>

\* (mutant) Close does not wait for the handlers.
ReleaseAtOnce ==
  /\ life = "closing" /\ deliver = "gone"
  /\ life' = "released"
  /\ secret' = NoSecret /\ stage' = NoSecret /\ queue' = <<>>
  /\ UNCHANGED <<times, stored, lastGet, line, conn, reqs, wake, deliver, told, shell, served>>

Release ==
  /\ life = "closing" /\ Serving = {} /\ deliver = "gone"
  /\ life' = "released"
  /\ secret' = NoSecret /\ stage' = NoSecret /\ queue' = <<>>
  /\ UNCHANGED <<times, stored, lastGet, line, conn, reqs, wake, deliver, told, shell, served>>

-----------------------------------------------------------------------------
\* A command, of this line or of an earlier one, connects; accept admits it.
Connect(c) ==
  /\ conn[c].pc \in {"idle", "done"} /\ reqs < MaxReq /\ ~Closed
  /\ reqs' = reqs + 1
  /\ \E verb \in Verb, tok \in {g \in 1 .. gen : g % 2 = 0}, what \in Secret :
       conn' = [conn EXCEPT ![c] =
         IF Cardinality(Serving) >= Sem THEN [NoConn EXCEPT !.pc = "done", !.ans = "denied"]
         ELSE [NoConn EXCEPT !.pc = "header", !.verb = verb, !.tok = tok,
                             !.what = IF verb = "store" THEN what ELSE NoSecret]]
  /\ UNCHANGED <<times, page, line, life, events, served>>

\* A handler whose connection was cut, or timed out, ends without an answer.
Drop(c) ==
  /\ conn[c].pc \in {"header", "body"}
  /\ Answered(c, IF conn[c].pc = "body" THEN "bad-secret" ELSE "none")
  /\ UNCHANGED <<times, page, line, life, reqs, events, served>>

CheckToken(c) ==
  /\ conn[c].pc = "header"
  /\ conn' = [conn EXCEPT ![c] =
       IF token = 0 \/ conn[c].tok # token THEN [@ EXCEPT !.pc = "done", !.ans = "denied"]
       ELSE [@ EXCEPT !.pc = "checked", !.gen = gen]]
  /\ UNCHANGED <<times, page, line, life, reqs, events, served>>

Stale(c) == gen # conn[c].gen

HandleHave(c) ==
  /\ conn[c].pc = "checked" /\ conn[c].verb = "have"
  /\ IF Stale(c)
     THEN Answered(c, "denied") /\ UNCHANGED <<page, events>>
     ELSE /\ Answered(c, IF Held # NoSecret /\ inFlight /\ ~Closed /\ ~spent THEN "ok" ELSE "no")
          /\ secret' = Held /\ Enqueue(ExpiryEvents) /\ UNCHANGED <<stage, stored, lastGet>>
  /\ UNCHANGED <<times, line, life, reqs, served>>

\* (mutant) The limit is off by one.
HandleGetTwice(c) ==
  /\ conn[c].pc = "checked" /\ conn[c].verb = "get"
  /\ LET refusal == IF Stale(c) THEN "denied" ELSE IF Closed THEN "closed"
                    ELSE IF ~inFlight THEN "not-in-flight" ELSE IF Held = NoSecret THEN "no"
                    ELSE IF gets > MaxGets THEN "limit" ELSE "ok"
     IN /\ Answered(c, refusal)
        /\ secret' = IF refusal = "limit" THEN NoSecret ELSE Held
        /\ Enqueue(IF refusal = "limit" THEN ForgetEvents ELSE ExpiryEvents)
        /\ gets' = IF refusal = "ok" THEN gets + 1 ELSE gets
        /\ spent' = (spent \/ gets' >= MaxGets)
        /\ lastGet' = IF refusal = "ok" THEN now ELSE lastGet
        /\ served' = IF refusal = "ok" THEN [served EXCEPT ![conn[c].tok] = @ + 1] ELSE served
  /\ UNCHANGED <<times, stage, stored, token, gen, inFlight, life, reqs>>

\* A get beyond the limit is a retry of a refused password: it is forgotten.
HandleGet(c) ==
  /\ conn[c].pc = "checked" /\ conn[c].verb = "get"
  /\ LET refusal == IF Stale(c) THEN "denied" ELSE IF Closed THEN "closed"
                    ELSE IF ~inFlight THEN "not-in-flight" ELSE IF Held = NoSecret THEN "no"
                    ELSE IF gets >= MaxGets THEN "limit" ELSE "ok"
     IN /\ Answered(c, refusal)
        /\ secret' = IF refusal = "limit" THEN NoSecret ELSE Held
        /\ Enqueue(IF refusal = "limit" THEN ForgetEvents ELSE ExpiryEvents)
        /\ gets' = IF refusal = "ok" THEN gets + 1 ELSE gets
        /\ spent' = (spent \/ gets' >= MaxGets)
        /\ lastGet' = IF refusal = "ok" THEN now ELSE lastGet
        /\ served' = IF refusal = "ok" THEN [served EXCEPT ![conn[c].tok] = @ + 1] ELSE served
  /\ UNCHANGED <<times, stage, stored, token, gen, inFlight, life, reqs>>

\* (mutant) The notice of a forget over the socket is left out.
HandleForgetSilent(c) ==
  /\ conn[c].pc = "checked" /\ conn[c].verb = "forget"
  /\ IF Stale(c)
     THEN Answered(c, "denied") /\ UNCHANGED <<page, events>>
     ELSE /\ Answered(c, "ok")
          /\ secret' = NoSecret /\ UNCHANGED <<stage, stored, lastGet, events>>
  /\ UNCHANGED <<times, line, life, reqs, served>>

HandleForget(c) ==
  /\ conn[c].pc = "checked" /\ conn[c].verb = "forget"
  /\ IF Stale(c)
     THEN Answered(c, "denied") /\ UNCHANGED <<page, events>>
     ELSE /\ Answered(c, "ok")
          /\ secret' = NoSecret /\ Enqueue(ForgetEvents) /\ UNCHANGED <<stage, stored, lastGet>>
  /\ UNCHANGED <<times, line, life, reqs, served>>

\* storeBody up to the read of the body; stageMu is held by who is at it.
StageBusy == \E c \in Client : conn[c].pc \in {"body", "staged"}

HandleStore(c) ==
  /\ conn[c].pc = "checked" /\ conn[c].verb = "store"
  /\ LET refusal == IF Stale(c) THEN "denied" ELSE IF Closed THEN "closed"
                    ELSE IF ~inFlight THEN "not-in-flight" ELSE IF spent THEN "limit"
                    ELSE IF StageBusy THEN "busy" ELSE "none"
     IN conn' = [conn EXCEPT ![c].pc = IF refusal = "none" THEN "body" ELSE "done",
                             ![c].ans = refusal]
  /\ secret' = Held /\ Enqueue(ExpiryEvents)
  /\ UNCHANGED <<times, stage, stored, lastGet, line, life, reqs, served>>

ReadBody(c) ==
  /\ conn[c].pc = "body" /\ ~Closed
  /\ stage' = conn[c].what /\ conn' = [conn EXCEPT ![c].pc = "staged"]
  /\ UNCHANGED <<times, secret, stored, lastGet, line, life, reqs, events, served>>

\* replaceLocked: the same bytes only count as use.
Replace(new) ==
  /\ secret' = new /\ lastGet' = now
  /\ stored' = IF new = secret THEN stored ELSE now
  /\ Enqueue(IF new = secret THEN <<>> ELSE <<"stored">>)

\* (mutant) The line is not compared again after the body was read.
StoreCommitLate(c) ==
  /\ conn[c].pc = "staged"
  /\ LET refusal == IF Closed \/ ~inFlight \/ spent THEN "not-in-flight" ELSE "ok"
     IN /\ Answered(c, refusal)
        /\ IF refusal = "ok" THEN Replace(stage)
           ELSE UNCHANGED <<secret, stored, lastGet, events>>
  /\ stage' = NoSecret
  /\ UNCHANGED <<times, line, life, reqs, served>>

StoreCommit(c) ==
  /\ conn[c].pc = "staged"
  /\ LET refusal == IF Stale(c) THEN "denied"
                    ELSE IF Closed \/ ~inFlight \/ spent THEN "not-in-flight" ELSE "ok"
     IN /\ Answered(c, refusal)
        /\ IF refusal = "ok" THEN Replace(stage)
           ELSE UNCHANGED <<secret, stored, lastGet, events>>
  /\ stage' = NoSecret
  /\ UNCHANGED <<times, line, life, reqs, served>>

-----------------------------------------------------------------------------
\* deliver: woken, it drains the queue one event at a time, unlocked.
DeliverWake ==
  /\ deliver = "wait" /\ wake
  /\ deliver' = "drain" /\ wake' = FALSE
  /\ UNCHANGED <<times, page, line, life, conn, reqs, queue, told, shell, served>>

DeliverPop ==
  /\ deliver = "drain" /\ queue # <<>> /\ ~Closed
  /\ queue' = Tail(queue)
  /\ IF Head(queue) = "barrier"
     THEN shell' = "idle" /\ UNCHANGED <<deliver, told>>
     ELSE deliver' = "call" /\ told' = Head(queue) /\ UNCHANGED shell
  /\ UNCHANGED <<times, page, line, life, conn, reqs, wake, served>>

DeliverReturn ==
  /\ deliver = "call" /\ deliver' = "drain"
  /\ UNCHANGED <<times, page, line, life, conn, reqs, queue, wake, told, shell, served>>

DeliverRest ==
  /\ deliver = "drain" /\ (queue = <<>> \/ Closed)
  /\ deliver' = "wait"
  /\ UNCHANGED <<times, page, line, life, conn, reqs, queue, wake, told, shell, served>>

DeliverQuit ==
  /\ deliver = "wait" /\ Closed
  /\ deliver' = "gone"
  /\ UNCHANGED <<times, page, line, life, conn, reqs, queue, wake, told, shell, served>>

\* The wall clock runs on, or is set back.
Tick ==
  /\ now < MaxNow /\ now' = now + 1
  /\ UNCHANGED <<backs, page, line, life, conn, reqs, events, served>>

SetBack ==
  /\ backs < MaxBack /\ now > 0
  /\ now' \in 0 .. now - 1 /\ backs' = backs + 1
  /\ UNCHANGED <<page, line, life, conn, reqs, events, served>>

-----------------------------------------------------------------------------
Handle(c) ==
  \/ Drop(c) \/ CheckToken(c) \/ HandleHave(c) \/ HandleGet(c) \/ HandleForget(c)
  \/ HandleStore(c) \/ ReadBody(c) \/ StoreCommit(c)

Deliver == DeliverWake \/ DeliverPop \/ DeliverReturn \/ DeliverRest \/ DeliverQuit

Next ==
  \/ BeginLine \/ EndLine \/ Forget \/ Sweep \/ FlushBegin \/ Close \/ Release
  \/ \E c \in Client : Connect(c)
  \/ \E c \in Client : Handle(c)
  \/ Deliver
  \/ Tick \/ SetBack

(* The sweeper ticks, a handler has a deadline on its connection, Notify    *)
(* returns, and Close's own wait ends when they have.                       *)
Fairness ==
  /\ WF_vars(Sweep) /\ WF_vars(Deliver) /\ WF_vars(Release)
  /\ \A c \in Client : WF_vars(Handle(c))

Spec == Init /\ [][Next]_vars
LiveSpec == Spec /\ Fairness

-----------------------------------------------------------------------------
TypeOK ==
  /\ now \in 0 .. MaxNow + Slack + 1 /\ backs \in 0 .. MaxBack
  /\ secret \in Slot /\ stage \in Slot /\ stored \in Nat /\ lastGet \in Nat
  /\ token \in 0 .. MaxGen /\ gen \in 1 .. MaxGen
  /\ inFlight \in BOOLEAN /\ gets \in 0 .. MaxGets /\ spent \in BOOLEAN
  /\ life \in {"open", "closing", "released"}
  /\ conn \in [Client -> Conns] /\ reqs \in 0 .. MaxReq
  /\ queue \in Seq(Event \cup {"barrier"}) /\ wake \in BOOLEAN
  /\ deliver \in {"wait", "drain", "call", "gone"} /\ told \in Event
  /\ shell \in {"idle", "flushing"} /\ served \in [0 .. MaxGen -> 0 .. MaxGets]

(* The state has its types, and one line is sent the password MaxGets times *)
(* at most, however many of its commands ask, in whatever order their       *)
(* requests are checked and served.                                         *)
GetsPerLine == TypeOK /\ \A g \in 0 .. MaxGen : served[g] <= MaxGets

(* A request is granted only to the line that is running now: one whose     *)
(* token was checked, or whose body was held back, across the end of its    *)
(* line gets and changes nothing.  A password that is sent is inside both    *)
(* lifetimes and was not stored in the clock's future, whatever the clock    *)
(* did since the store.                                                      *)
GrantedToTheRunningLine ==
  [][/\ \A c \in Client : conn[c].pc # "done" /\ conn'[c].pc = "done" /\ conn'[c].ans = "ok"
          => conn[c].tok = gen /\ inFlight
     /\ served' # served =>
          /\ now < stored + Max /\ now < lastGet + Idle
          /\ now + Slack >= stored /\ now + Slack >= lastGet]_vars

(* The page holds a staged password only while a store has it, and when the *)
(* page is given back nothing is in it and no handler will touch it again.   *)
PageIsClean ==
  /\ stage # NoSecret =>
       \E c \in Client : conn[c].pc = "staged" /\ conn[c].what = stage
  /\ Cardinality({c \in Client : conn[c].pc \in {"body", "staged"}}) <= 1
  /\ life = "released" => secret = NoSecret /\ stage = NoSecret /\ Serving = {}

(* What the shell was told last is what the cache holds, once everything    *)
(* queued was delivered: no notice is lost, doubled or out of order.         *)
NoticesAgree ==
  ~Closed /\ queue = <<>> => ((told = "stored") <=> (secret # NoSecret))

\* An expired password is forgotten without anybody asking for it.
ExpiredIsForgotten == Expired ~> ~Expired

\* Flush ends when what was queued before it was delivered, and Close ends when
\* every goroutine it waits for has ended.
CallsReturn ==
  /\ (shell = "flushing") ~> (shell = "idle")
  /\ (life = "closing") ~> (life = "released")
=============================================================================
