--------------------------- MODULE Askpass_proofs ---------------------------
(***************************************************************************)
(* Proofs about Askpass, for every set of connections and passwords, every *)
(* limit, lifetime and bound: what a line may get, to whom a request is    *)
(* granted, and what is left in the page.                                  *)
(***************************************************************************)
EXTENDS Askpass, FiniteSetTheorems, TLAPS

At(c, places) == conn[c].pc \in places

\* A token is that of the running line; a request that was checked belongs to the
\* line it was checked in, which runs as long as its number is the current one.
LineInv ==
    /\ inFlight <=> token # 0
    /\ inFlight => token = gen /\ gen < MaxGen /\ served[gen] = gets
    /\ \A g \in 0 .. MaxGen : g > gen => served[g] = 0
    /\ \A c \in Client : At(c, {"checked", "body", "staged"}) =>
          conn[c].tok = conn[c].gen /\ conn[c].gen <= gen /\ (conn[c].gen = gen => inFlight)

\* One store at most is between its check and its commit, and it owns the stage.
PageInv ==
    /\ stage # NoSecret => \E c \in Client : conn[c].pc = "staged" /\ conn[c].what = stage
    /\ \A c, d \in Client : At(c, {"body", "staged"}) /\ At(d, {"body", "staged"}) => c = d
    /\ life = "released" => secret = NoSecret /\ stage = NoSecret /\ Serving = {}

IInv == TypeOK /\ LineInv /\ PageInv

-----------------------------------------------------------------------------
\* The queue of notices takes the events of a change.
LEMMA EnqueueType ==
    ASSUME TypeOK, NEW evs \in Seq(Event), Enqueue(evs)
    PROVE  /\ queue' \in Seq(Event \cup {"barrier"}) /\ wake' \in BOOLEAN
           /\ UNCHANGED <<deliver, told, shell>>
<1>1. evs \in Seq(Event \cup {"barrier"}) BY DEF Event
<1>2. queue \in Seq(Event \cup {"barrier"}) /\ wake \in BOOLEAN BY DEF TypeOK
<1> QED BY <1>1, <1>2 DEF Enqueue

LEMMA EventsType ==
    /\ ExpiryEvents \in Seq(Event) /\ ForgetEvents \in Seq(Event)
    /\ <<"stored">> \in Seq(Event) /\ <<>> \in Seq(Event)
<1>1. "stored" \in Event /\ "forgotten" \in Event BY DEF Event
<1>2. <<"stored">> \in Seq(Event) /\ <<"forgotten">> \in Seq(Event) /\ <<>> \in Seq(Event) BY <1>1
<1> QED BY <1>2 DEF ExpiryEvents, ForgetEvents

\* A request is answered: its other fields and the other requests are as they were.
LEMMA AnsweredType ==
    ASSUME TypeOK, NEW c \in Client, NEW ans \in Answer, Answered(c, ans)
    PROVE  /\ conn' \in [Client -> Conns]
           /\ conn'[c] = [conn[c] EXCEPT !.pc = "done", !.ans = ans]
           /\ \A d \in Client \ {c} : conn'[d] = conn[d]
<1>1. conn \in [Client -> Conns] BY DEF TypeOK
<1>2. conn' = [conn EXCEPT ![c] = [conn[c] EXCEPT !.pc = "done", !.ans = ans]]
  BY <1>1 DEF Answered, Conns
<1>3. [conn[c] EXCEPT !.pc = "done", !.ans = ans] \in Conns BY <1>1 DEF Conns
<1> QED BY <1>1, <1>2, <1>3

\* Init.
LEMMA InitIInv == Init => IInv
<1> SUFFICES ASSUME Init PROVE IInv OBVIOUS
<1> USE AskpassAssumption DEF Init
<1>1. NoConn \in Conns BY DEF NoConn, Conns, Verb, Slot, Answer
<1>2. TypeOK
  <2>1. conn \in [Client -> Conns] BY <1>1
  <2>2. served \in [0 .. MaxGen -> 0 .. MaxGets] OBVIOUS
  <2>3. queue \in Seq(Event \cup {"barrier"}) OBVIOUS
  <2>4. now \in 0 .. MaxNow + Slack + 1 OBVIOUS
  <2>5. told \in Event BY DEF Event
  <2>6. inFlight \in BOOLEAN /\ spent \in BOOLEAN /\ wake \in BOOLEAN OBVIOUS
  <2>7. backs \in 0 .. MaxBack /\ token \in 0 .. MaxGen /\ gen \in 1 .. MaxGen
        /\ gets \in 0 .. MaxGets /\ reqs \in 0 .. MaxReq
    OBVIOUS
  <2>8. secret \in Slot /\ stage \in Slot /\ stored \in Nat /\ lastGet \in Nat BY DEF Slot
  <2>9. /\ life \in {"open", "closing", "released"} /\ deliver \in {"wait", "drain", "call", "gone"}
        /\ shell \in {"idle", "flushing"}
    OBVIOUS
  <2> QED BY <2>1, <2>2, <2>3, <2>4, <2>5, <2>6, <2>7, <2>8, <2>9 DEF TypeOK
<1>3. \A c \in Client : conn[c].pc = "idle" BY DEF NoConn
<1>4. LineInv BY <1>3 DEF LineInv, At
<1>5. PageInv BY <1>3 DEF PageInv, At
<1> QED BY <1>2, <1>4, <1>5 DEF IInv

-----------------------------------------------------------------------------
(***************************************************************************)
(* TypeOK by groups of variables.                                          *)
(***************************************************************************)
TimesOK == now \in 0 .. MaxNow + Slack + 1 /\ backs \in 0 .. MaxBack
PageOK == secret \in Slot /\ stage \in Slot /\ stored \in Nat /\ lastGet \in Nat
LineOK ==
    /\ token \in 0 .. MaxGen /\ gen \in 1 .. MaxGen
    /\ inFlight \in BOOLEAN /\ gets \in 0 .. MaxGets /\ spent \in BOOLEAN
LifeOK == life \in {"open", "closing", "released"}
ConnOK == conn \in [Client -> Conns] /\ reqs \in 0 .. MaxReq
EventsOK ==
    /\ queue \in Seq(Event \cup {"barrier"}) /\ wake \in BOOLEAN
    /\ deliver \in {"wait", "drain", "call", "gone"} /\ told \in Event
    /\ shell \in {"idle", "flushing"}
ServedOK == served \in [0 .. MaxGen -> 0 .. MaxGets]

LEMMA TypeParts ==
    TypeOK <=> TimesOK /\ PageOK /\ LineOK /\ LifeOK /\ ConnOK /\ EventsOK /\ ServedOK
BY DEF TypeOK, TimesOK, PageOK, LineOK, LifeOK, ConnOK, EventsOK, ServedOK

\* What a step leaves alone keeps its types.
LEMMA PartsStay ==
    ASSUME TypeOK
    PROVE  /\ UNCHANGED times => TimesOK'
           /\ UNCHANGED page => PageOK'
           /\ UNCHANGED line => LineOK'
           /\ UNCHANGED life => LifeOK'
           /\ UNCHANGED <<conn, reqs>> => ConnOK'
           /\ UNCHANGED events => EventsOK'
           /\ UNCHANGED served => ServedOK'
BY TypeParts DEF TimesOK, PageOK, LineOK, LifeOK, ConnOK, EventsOK, ServedOK, times, page, line, events

LEMMA TypePartsNext ==
    ASSUME TimesOK', PageOK', LineOK', LifeOK', ConnOK', EventsOK', ServedOK'
    PROVE  TypeOK'
BY DEF TypeOK, TimesOK, PageOK, LineOK, LifeOK, ConnOK, EventsOK, ServedOK

\* What LineInv and PageInv speak of is left alone.
LEMMA InvStays ==
    /\ LineInv /\ UNCHANGED <<line, conn, served>> => LineInv'
    /\ PageInv /\ UNCHANGED <<secret, stage, life, conn>> => PageInv'
BY DEF LineInv, PageInv, At, Serving, line

\* Events are queued for a change of the page.
LEMMA QueuedOK ==
    ASSUME TypeOK, NEW evs \in Seq(Event), Enqueue(evs)
    PROVE  EventsOK'
BY EnqueueType, TypeParts DEF EventsOK

LEMMA HeldType == TypeOK => Held \in Slot
BY DEF TypeOK, Held, Slot

-----------------------------------------------------------------------------
\* The shell's steps that neither begin nor end a line: the cached password may go.
LEMMA ShellKeeps ==
    ASSUME IInv, Forget \/ Sweep \/ FlushBegin \/ Close
    PROVE  IInv'
<1> USE DEF IInv
<1>1. CASE Forget \/ Sweep
  <2>1. /\ UNCHANGED <<times, stage, stored, lastGet, line, life, conn, reqs, served>>
        /\ secret' = NoSecret /\ (Enqueue(ForgetEvents) \/ Enqueue(ExpiryEvents))
    BY <1>1 DEF Forget, Sweep
  <2>2. EventsOK' BY <2>1, EventsType, QueuedOK
  <2>3. PageOK' BY <2>1, TypeParts DEF PageOK, Slot
  <2>4. TypeOK' BY <2>1, <2>2, <2>3, PartsStay, TypePartsNext
  <2>5. LineInv' BY <2>1, InvStays
  <2>6. PageInv' BY <2>1 DEF PageInv, At, Serving
  <2> QED BY <2>4, <2>5, <2>6
<1>2. CASE FlushBegin
  <2>1. UNCHANGED <<times, page, line, life, conn, reqs, deliver, told, served>>
    BY <1>2 DEF FlushBegin
  <2>2. queue' = Append(queue, "barrier") /\ wake' = TRUE /\ shell' = "flushing" BY <1>2 DEF FlushBegin
  <2>3. EventsOK' BY <2>1, <2>2, TypeParts DEF EventsOK
  <2>4. TypeOK' BY <2>1, <2>3, PartsStay, TypePartsNext
  <2>5. LineInv' /\ PageInv' BY <2>1, InvStays DEF page
  <2> QED BY <2>4, <2>5
<1>3. CASE Close
  <2>1. UNCHANGED <<times, page, line, conn, reqs, events, served>> /\ life' = "closing" BY <1>3 DEF Close
  <2>2. LifeOK' BY <2>1 DEF LifeOK
  <2>3. TypeOK' BY <2>1, <2>2, PartsStay, TypePartsNext
  <2>4. LineInv' BY <2>1, InvStays
  <2>5. PageInv' BY <2>1 DEF PageInv, At, Serving, page
  <2> QED BY <2>3, <2>4, <2>5
<1> QED BY <1>1, <1>2, <1>3

\* A line begins with a number nobody was served under, and ends with one more.
LEMMA LinesKeep == ASSUME IInv, BeginLine \/ EndLine PROVE IInv'
<1> USE AskpassAssumption DEF IInv
<1>0. UNCHANGED <<times, page, life, conn, reqs, events, served>> BY DEF BeginLine, EndLine
<1>1. gen \in 1 .. MaxGen /\ MaxGen \in Nat /\ conn \in [Client -> Conns] BY DEF TypeOK
<1>2. LineOK'
  <2>0. inFlight' \in BOOLEAN /\ spent' \in BOOLEAN BY Zenon DEF BeginLine, EndLine
  <2>1. gets' = 0 /\ gen' = gen + 1 /\ token' \in {0, gen'} BY DEF BeginLine, EndLine
  <2>2. gen < MaxGen
    <3>1. CASE BeginLine BY <1>1, <3>1 DEF BeginLine
    <3>2. CASE EndLine BY <3>2 DEF EndLine, LineInv
    <3> QED BY <3>1, <3>2
  <2>3. gen' \in 1 .. MaxGen /\ token' \in 0 .. MaxGen /\ gets' \in 0 .. MaxGets BY <1>1, <2>1, <2>2
  <2> QED BY <2>0, <2>3 DEF LineOK
<1>3. TypeOK' BY <1>0, <1>2, PartsStay, TypePartsNext
<1>4. gen' = gen + 1 /\ gen' \in 1 .. MaxGen BY <1>1, <1>2 DEF BeginLine, EndLine, LineOK
<1>5. \A g \in 0 .. MaxGen : g > gen' => served'[g] = 0 BY <1>0, <1>1, <1>4 DEF LineInv
<1>6. \A c \in Client : At(c, {"checked", "body", "staged"})' =>
        conn'[c].tok = conn'[c].gen /\ conn'[c].gen <= gen' /\ conn'[c].gen # gen'
  <2> SUFFICES ASSUME NEW c \in Client, conn[c].pc \in {"checked", "body", "staged"}
               PROVE  conn[c].tok = conn[c].gen /\ conn[c].gen <= gen' /\ conn[c].gen # gen'
    BY <1>0 DEF At
  <2>1. conn[c].gen \in 0 .. MaxGen BY <1>1 DEF Conns
  <2>2. conn[c].tok = conn[c].gen /\ conn[c].gen <= gen BY DEF LineInv, At
  <2> QED BY <1>1, <1>4, <2>1, <2>2
<1>7. inFlight' => token' = gen' /\ gen' < MaxGen /\ served'[gen'] = gets'
  <2>1. CASE BeginLine
    <3>1. served[gen + 1] = 0 BY <1>1, <1>4 DEF LineInv
    <3> QED BY <1>0, <1>1, <1>4, <2>1, <3>1 DEF BeginLine
  <2>2. CASE EndLine BY <2>2 DEF EndLine
  <2> QED BY <2>1, <2>2
<1>8. inFlight' <=> token' # 0 BY <1>1 DEF BeginLine, EndLine
<1>9. LineInv' BY <1>5, <1>6, <1>7, <1>8 DEF LineInv
<1>10. PageInv' BY <1>0, InvStays DEF page
<1> QED BY <1>3, <1>9, <1>10

\* Close's end, the goroutine of the notices, and the clock.
LEMMA OthersKeep == ASSUME IInv, Release \/ Deliver \/ Tick \/ SetBack PROVE IInv'
<1> USE AskpassAssumption DEF IInv
<1>1. CASE Release
  <2>1. /\ UNCHANGED <<times, stored, lastGet, line, conn, reqs, wake, deliver, told, shell, served>>
        /\ life' = "released" /\ secret' = NoSecret /\ stage' = NoSecret /\ queue' = <<>> /\ Serving = {}
    BY <1>1 DEF Release
  <2>2. PageOK' BY <2>1, TypeParts DEF PageOK, Slot
  <2>3. EventsOK' BY <2>1, TypeParts DEF EventsOK
  <2>4. LifeOK' BY <2>1 DEF LifeOK
  <2>5. TypeOK' BY <2>1, <2>2, <2>3, <2>4, PartsStay, TypePartsNext
  <2>6. LineInv' BY <2>1, InvStays
  <2>7. PageInv' BY <2>1 DEF PageInv, At, Serving
  <2> QED BY <2>5, <2>6, <2>7
<1>2. CASE Deliver
  <2>1. UNCHANGED <<times, page, line, life, conn, reqs, served>>
    BY <1>2 DEF Deliver, DeliverWake, DeliverPop, DeliverReturn, DeliverRest, DeliverQuit
  <2>2. EventsOK'
    <3>0. EventsOK BY TypeParts
    <3>1. CASE DeliverWake BY <3>0, <3>1 DEF DeliverWake, EventsOK
    <3>2. CASE DeliverPop
      <4>1. queue \in Seq(Event \cup {"barrier"}) /\ queue # <<>> /\ queue' = Tail(queue)
        BY <3>0, <3>2 DEF DeliverPop, EventsOK
      <4>2. queue' \in Seq(Event \cup {"barrier"}) /\ Head(queue) \in Event \cup {"barrier"} BY <4>1
      <4>3. UNCHANGED wake BY <3>2 DEF DeliverPop
      <4>4. CASE Head(queue) = "barrier"
        BY <3>0, <3>2, <4>2, <4>3, <4>4 DEF DeliverPop, EventsOK
      <4>5. CASE Head(queue) # "barrier"
        BY <3>0, <3>2, <4>2, <4>3, <4>5 DEF DeliverPop, EventsOK
      <4> QED BY <4>4, <4>5
    <3>3. CASE DeliverReturn \/ DeliverRest \/ DeliverQuit
      BY <3>0, <3>3 DEF DeliverReturn, DeliverRest, DeliverQuit, EventsOK
    <3> QED BY <1>2, <3>1, <3>2, <3>3 DEF Deliver
  <2>3. TypeOK' BY <2>1, <2>2, PartsStay, TypePartsNext
  <2>4. LineInv' /\ PageInv' BY <2>1, InvStays DEF page
  <2> QED BY <2>3, <2>4
<1>3. CASE Tick \/ SetBack
  <2>1. UNCHANGED <<page, line, life, conn, reqs, events, served>> BY <1>3 DEF Tick, SetBack
  <2>2. now \in 0 .. MaxNow + Slack + 1 /\ backs \in 0 .. MaxBack BY DEF TypeOK
  <2>3. TimesOK'
    <3>1. CASE Tick BY <2>2, <3>1 DEF Tick, TimesOK
    <3>2. CASE SetBack BY <2>2, <3>2 DEF SetBack, TimesOK
    <3> QED BY <1>3, <3>1, <3>2
  <2>4. TypeOK' BY <2>1, <2>3, PartsStay, TypePartsNext
  <2>5. LineInv' /\ PageInv' BY <2>1, InvStays DEF page
  <2> QED BY <2>4, <2>5
<1> QED BY <1>1, <1>2, <1>3

-----------------------------------------------------------------------------
\* A checked request, or the body of its store, belongs to the line of its number.
Belongs(r) ==
    r.pc \in {"checked", "body", "staged"} =>
      r.tok = r.gen /\ r.gen <= gen /\ (r.gen = gen => inFlight)

\* One request moves on and the others stay: what is asked of its new form r.
LEMMA OneMoves ==
    ASSUME IInv, NEW c \in Client, NEW r \in Conns, conn' = [conn EXCEPT ![c] = r],
           UNCHANGED <<token, gen, inFlight, life>>, life # "released", Belongs(r),
           r.pc \in {"body", "staged"} => conn[c].pc \in {"body", "staged"} \/ ~StageBusy,
           \/ stage' = NoSecret
           \/ stage' = stage /\ conn[c].pc # "staged"
           \/ r.pc = "staged" /\ r.what = stage'
    PROVE  /\ conn' \in [Client -> Conns]
           /\ \A d \in Client : Belongs(conn[d])'
           /\ PageInv'
<1> USE DEF IInv
<1>1. conn \in [Client -> Conns] BY DEF TypeOK
<1>2. conn'[c] = r /\ \A d \in Client \ {c} : conn'[d] = conn[d] BY <1>1
<1>3. conn' \in [Client -> Conns] BY <1>1
<1>4. \A d \in Client : Belongs(conn[d])'
  <2>1. \A d \in Client : Belongs(conn[d]) BY DEF LineInv, At, Belongs
  <2> QED BY <1>2, <2>1 DEF Belongs
<1>5. stage' # NoSecret => \E d \in Client : conn'[d].pc = "staged" /\ conn'[d].what = stage'
  <2>1. CASE stage' = stage /\ conn[c].pc # "staged"
    <3> SUFFICES ASSUME stage # NoSecret
                 PROVE  \E d \in Client : conn'[d].pc = "staged" /\ conn'[d].what = stage
      BY <2>1
    <3>1. PICK d \in Client : conn[d].pc = "staged" /\ conn[d].what = stage BY DEF PageInv
    <3> QED BY <1>2, <2>1, <3>1
  <2>2. CASE r.pc = "staged" /\ r.what = stage' BY <1>2, <2>2
  <2> QED BY <2>1, <2>2
<1>6. ASSUME NEW d \in Client, NEW e \in Client,
             conn'[d].pc \in {"body", "staged"}, conn'[e].pc \in {"body", "staged"}
      PROVE  d = e
  <2>1. \A x, y \in Client : conn[x].pc \in {"body", "staged"} /\ conn[y].pc \in {"body", "staged"} => x = y
    BY DEF PageInv, At
  <2>2. CASE d # c /\ e # c BY <1>2, <1>6, <2>1, <2>2
  <2>3. CASE d = c /\ e # c
    <3>1. conn[e].pc \in {"body", "staged"} BY <1>2, <1>6, <2>3
    <3>2. conn[c].pc \in {"body", "staged"} BY <1>2, <1>6, <2>3, <3>1 DEF StageBusy
    <3> QED BY <2>1, <2>3, <3>1, <3>2
  <2>4. CASE e = c /\ d # c
    <3>1. conn[d].pc \in {"body", "staged"} BY <1>2, <1>6, <2>4
    <3>2. conn[c].pc \in {"body", "staged"} BY <1>2, <1>6, <2>4, <3>1 DEF StageBusy
    <3> QED BY <2>1, <2>4, <3>1, <3>2
  <2> QED BY <2>2, <2>3, <2>4
<1>7. PageInv' BY <1>5, <1>6 DEF PageInv, At
<1> QED BY <1>3, <1>4, <1>7

\* LineInv from its parts.
LEMMA LineFromParts ==
    ASSUME LineInv, UNCHANGED <<line, served>>, \A d \in Client : Belongs(conn[d])'
    PROVE  LineInv'
BY DEF LineInv, line, At, Belongs

\* A request with a handler is there only before the page is given back.
LEMMA HandlerOpen ==
    ASSUME IInv, NEW c \in Client, conn[c].pc \in {"header", "checked", "body", "staged"}
    PROVE  life # "released"
BY DEF IInv, PageInv, Serving

\* A step that answers request c and leaves the line, the stage and the life alone.
LEMMA AnswerKeeps ==
    ASSUME IInv, NEW c \in Client, NEW ans \in Answer, Answered(c, ans),
           conn[c].pc \in {"header", "checked", "body"}, UNCHANGED <<token, gen, inFlight, life, stage>>
    PROVE  /\ conn' \in [Client -> Conns]
           /\ \A d \in Client : Belongs(conn[d])'
           /\ PageInv'
<1> DEFINE r == [conn[c] EXCEPT !.pc = "done", !.ans = ans]
<1>1. conn \in [Client -> Conns] BY DEF IInv, TypeOK
<1>2. conn' = [conn EXCEPT ![c] = r] BY <1>1 DEF Answered, Conns
<1>3. r \in Conns /\ r.pc = "done" BY <1>1 DEF Conns
<1>4. Belongs(r) BY <1>3 DEF Belongs
<1>5. life # "released" BY HandlerOpen
<1> HIDE DEF r
<1> QED BY <1>2, <1>3, <1>4, <1>5, OneMoves

-----------------------------------------------------------------------------
\* A request comes, or is refused at the door.
LEMMA ConnectKeeps == ASSUME IInv, NEW c \in Client, Connect(c) PROVE IInv'
<1> USE AskpassAssumption
<1>1. UNCHANGED <<times, page, line, life, events, served>> /\ life = "open"
      /\ conn[c].pc \in {"idle", "done"}
  BY DEF Connect, Closed
<1>2. reqs' \in 0 .. MaxReq
  <2>1. reqs \in 0 .. MaxReq BY DEF IInv, TypeOK
  <2> QED BY <2>1 DEF Connect
<1>3. gen \in 1 .. MaxGen BY DEF IInv, TypeOK
<1>4. PICK r \in Conns : r.pc \in {"done", "header"} /\ conn' = [conn EXCEPT ![c] = r]
  <2>1. PICK verb \in Verb, tok \in {g \in 1 .. gen : g % 2 = 0}, what \in Secret :
          conn' = [conn EXCEPT ![c] =
            IF Cardinality(Serving) >= Sem THEN [NoConn EXCEPT !.pc = "done", !.ans = "denied"]
            ELSE [NoConn EXCEPT !.pc = "header", !.verb = verb, !.tok = tok,
                                !.what = IF verb = "store" THEN what ELSE NoSecret]]
    BY DEF Connect
  <2>2. tok \in 0 .. MaxGen BY <1>3
  <2>3. NoConn \in Conns BY DEF NoConn, Conns, Verb, Slot, Answer
  <2>4. (IF verb = "store" THEN what ELSE NoSecret) \in Slot /\ "denied" \in Answer BY DEF Slot, Answer
  <2>5. /\ [NoConn EXCEPT !.pc = "done", !.ans = "denied"] \in Conns
        /\ [NoConn EXCEPT !.pc = "done", !.ans = "denied"].pc = "done"
        /\ [NoConn EXCEPT !.pc = "header", !.verb = verb, !.tok = tok,
                          !.what = IF verb = "store" THEN what ELSE NoSecret] \in Conns
        /\ [NoConn EXCEPT !.pc = "header", !.verb = verb, !.tok = tok,
                          !.what = IF verb = "store" THEN what ELSE NoSecret].pc = "header"
    <3> DEFINE w == IF verb = "store" THEN what ELSE NoSecret
    <3>1. w \in Slot /\ "denied" \in Answer BY <2>4
    <3> HIDE DEF w
    <3>2. /\ [NoConn EXCEPT !.pc = "done", !.ans = "denied"] \in Conns
          /\ [NoConn EXCEPT !.pc = "done", !.ans = "denied"].pc = "done"
          /\ [NoConn EXCEPT !.pc = "header", !.verb = verb, !.tok = tok, !.what = w] \in Conns
          /\ [NoConn EXCEPT !.pc = "header", !.verb = verb, !.tok = tok, !.what = w].pc = "header"
      BY <2>2, <2>3, <3>1 DEF Conns
    <3> QED BY <3>2 DEF w
  <2>6. CASE Cardinality(Serving) >= Sem BY <2>1, <2>5, <2>6
  <2>7. CASE ~(Cardinality(Serving) >= Sem) BY <2>1, <2>5, <2>7
  <2> QED BY <2>6, <2>7
<1>5. Belongs(r) BY <1>4 DEF Belongs
<1>6. UNCHANGED <<token, gen, inFlight, stage>> BY <1>1 DEF line, page
<1>7. conn' \in [Client -> Conns] /\ PageInv' /\ \A d \in Client : Belongs(conn[d])'
  BY <1>1, <1>4, <1>5, <1>6, OneMoves
<1>8. ConnOK' BY <1>2, <1>7 DEF ConnOK
<1>9. TypeOK' BY <1>1, <1>8, PartsStay, TypePartsNext DEF IInv
<1>10. LineInv' BY <1>1, <1>7, LineFromParts DEF IInv
<1> QED BY <1>7, <1>9, <1>10 DEF IInv

\* A request is checked, or its connection ends.
LEMMA CheckKeeps == ASSUME IInv, NEW c \in Client, Drop(c) \/ CheckToken(c) PROVE IInv'
<1>0. conn \in [Client -> Conns] /\ reqs \in 0 .. MaxReq /\ gen \in 1 .. MaxGen
  BY DEF IInv, TypeOK
<1>1. UNCHANGED <<times, page, line, life, reqs, events, served>> BY DEF Drop, CheckToken
<1>2. UNCHANGED <<token, gen, inFlight, stage, life>> BY <1>1 DEF line, page
<1>3. conn' \in [Client -> Conns] /\ PageInv' /\ \A d \in Client : Belongs(conn[d])'
  <2>1. CASE Drop(c)
    <3>1. PICK ans \in Answer : Answered(c, ans) BY <2>1 DEF Drop, Answer
    <3>2. conn[c].pc \in {"header", "body"} BY <2>1 DEF Drop
    <3> QED BY <1>2, <3>1, <3>2, AnswerKeeps
  <2>2. CASE CheckToken(c) /\ (token = 0 \/ conn[c].tok # token)
    <3>1. conn' = [conn EXCEPT ![c] = [conn[c] EXCEPT !.pc = "done", !.ans = "denied"]]
      BY <2>2 DEF CheckToken
    <3>2. Answered(c, "denied") BY <1>0, <3>1 DEF Answered, Conns
    <3>3. conn[c].pc = "header" /\ "denied" \in Answer BY <2>2 DEF CheckToken, Answer
    <3> QED BY <1>2, <3>2, <3>3, AnswerKeeps
  <2>3. CASE CheckToken(c) /\ ~(token = 0 \/ conn[c].tok # token)
    <3> DEFINE r == [conn[c] EXCEPT !.pc = "checked", !.gen = gen]
    <3>1. conn' = [conn EXCEPT ![c] = r] /\ conn[c].pc = "header" BY <2>3 DEF CheckToken
    <3>2. r \in Conns /\ r.pc = "checked" /\ r.gen = gen /\ r.tok = conn[c].tok
      <4>1. gen \in 0 .. MaxGen BY <1>0, AskpassAssumption
      <4> QED BY <1>0, <4>1 DEF Conns
    <3>3. inFlight /\ conn[c].tok = gen BY <2>3 DEF IInv, LineInv
    <3>4. Belongs(r) BY <1>0, <3>2, <3>3 DEF Belongs
    <3>5. life # "released" BY <3>1, HandlerOpen
    <3> HIDE DEF r
    <3> QED BY <1>2, <3>1, <3>2, <3>4, <3>5, OneMoves
  <2> QED BY <2>1, <2>2, <2>3
<1>4. ConnOK' BY <1>0, <1>1, <1>3 DEF ConnOK
<1>5. TypeOK' BY <1>1, <1>4, PartsStay, TypePartsNext DEF IInv
<1>6. LineInv' BY <1>1, <1>3, LineFromParts DEF IInv
<1> QED BY <1>3, <1>5, <1>6 DEF IInv

\* A request that was checked asks, or forgets: the password may go.
LEMMA AskKeeps == ASSUME IInv, NEW c \in Client, HandleHave(c) \/ HandleForget(c) PROVE IInv'
<1>0. reqs \in 0 .. MaxReq /\ TypeOK BY DEF IInv, TypeOK
<1>1. UNCHANGED <<times, line, life, reqs, served>> /\ conn[c].pc = "checked"
  BY DEF HandleHave, HandleForget
<1>2. stage' = stage /\ stored' = stored /\ lastGet' = lastGet BY DEF HandleHave, HandleForget, page
<1>3. PICK ans \in Answer : Answered(c, ans)
  <2>1. CASE HandleHave(c)
    <3>1. CASE Stale(c) BY <2>1, <3>1 DEF HandleHave, Answer
    <3>2. CASE ~Stale(c) BY <2>1, <3>2 DEF HandleHave, Answer
    <3> QED BY <3>1, <3>2
  <2>2. CASE HandleForget(c) BY <2>2 DEF HandleForget, Answer
  <2> QED BY <2>1, <2>2
<1>4. /\ secret' \in {secret, NoSecret, Held}
      /\ UNCHANGED events \/ Enqueue(ExpiryEvents) \/ Enqueue(ForgetEvents)
  BY DEF HandleHave, HandleForget, page
<1>5. UNCHANGED <<token, gen, inFlight>> BY <1>1 DEF line
<1>6. conn' \in [Client -> Conns] /\ PageInv' /\ \A d \in Client : Belongs(conn[d])'
  BY <1>1, <1>2, <1>3, <1>5, AnswerKeeps
<1>7. ConnOK' BY <1>0, <1>1, <1>6 DEF ConnOK
<1>8. PageOK'
  <2>1. secret' \in Slot BY <1>0, <1>4, HeldType DEF TypeOK, Slot
  <2> QED BY <1>0, <1>2, <2>1, TypeParts DEF PageOK
<1>9. EventsOK' BY <1>0, <1>4, EventsType, QueuedOK, PartsStay
<1>10. TypeOK' BY <1>0, <1>1, <1>7, <1>8, <1>9, PartsStay, TypePartsNext
<1>11. LineInv' BY <1>1, <1>6, LineFromParts DEF IInv
<1> QED BY <1>6, <1>10, <1>11 DEF IInv

\* What a get that is answered with the password knows, and what it counts.
LEMMA GetFacts ==
    ASSUME IInv, NEW c \in Client, HandleGet(c)
    PROVE  /\ UNCHANGED <<times, stage, stored, token, gen, inFlight, life, reqs>>
           /\ conn[c].pc = "checked"
           /\ \E ans \in Answer :
                /\ Answered(c, ans)
                /\ \/ /\ ans = "ok" /\ inFlight /\ conn[c].tok = gen /\ gets < MaxGets
                      /\ Held # NoSecret /\ ~Closed /\ gets' = gets + 1
                      /\ served' = [served EXCEPT ![gen] = @ + 1]
                   \/ ans # "ok" /\ gets' = gets /\ served' = served
           /\ secret' \in {Held, NoSecret} /\ lastGet' \in {now, lastGet}
           /\ Enqueue(ExpiryEvents) \/ Enqueue(ForgetEvents)
           /\ spent' = (spent \/ gets' >= MaxGets)
<1> USE DEF HandleGet
<1>1. /\ UNCHANGED <<times, stage, stored, token, gen, inFlight, life, reqs>> /\ conn[c].pc = "checked"
      /\ secret' \in {Held, NoSecret} /\ lastGet' \in {now, lastGet}
      /\ Enqueue(ExpiryEvents) \/ Enqueue(ForgetEvents)
      /\ spent' = (spent \/ gets' >= MaxGets)
  OBVIOUS
<1>2. conn[c].tok = conn[c].gen BY <1>1 DEF IInv, LineInv, At
<1>3. gets \in Nat /\ MaxGets \in Nat BY AskpassAssumption DEF IInv, TypeOK
<1>4. \E ans \in Answer :
        /\ Answered(c, ans)
        /\ \/ /\ ans = "ok" /\ inFlight /\ conn[c].tok = gen /\ gets < MaxGets
              /\ Held # NoSecret /\ ~Closed /\ gets' = gets + 1
              /\ served' = [served EXCEPT ![gen] = @ + 1]
           \/ ans # "ok" /\ gets' = gets /\ served' = served
  <2> DEFINE refusal == IF Stale(c) THEN "denied" ELSE IF Closed THEN "closed"
                        ELSE IF ~inFlight THEN "not-in-flight" ELSE IF Held = NoSecret THEN "no"
                        ELSE IF gets >= MaxGets THEN "limit" ELSE "ok"
  <2>1. refusal \in Answer BY DEF Answer
  <2>2. /\ Answered(c, refusal)
        /\ gets' = IF refusal = "ok" THEN gets + 1 ELSE gets
        /\ served' = IF refusal = "ok" THEN [served EXCEPT ![conn[c].tok] = @ + 1] ELSE served
    OBVIOUS
  <2>3. refusal = "ok" => ~Stale(c) /\ ~Closed /\ inFlight /\ Held # NoSecret /\ gets < MaxGets
    BY <1>3
  <2> HIDE DEF refusal, HandleGet
  <2>4. refusal = "ok" => conn[c].tok = gen BY <1>2, <2>3 DEF Stale
  <2>5. CASE refusal = "ok" BY <2>1, <2>2, <2>3, <2>4, <2>5
  <2>6. CASE refusal # "ok" BY <2>1, <2>2, <2>6
  <2> QED BY <2>5, <2>6
<1> HIDE DEF HandleGet
<1> QED BY <1>1, <1>4

LEMMA GetKeeps == ASSUME IInv, NEW c \in Client, HandleGet(c) PROVE IInv'
<1>0. /\ reqs \in 0 .. MaxReq /\ TypeOK /\ gen \in 1 .. MaxGen /\ gets \in 0 .. MaxGets
      /\ served \in [0 .. MaxGen -> 0 .. MaxGets] /\ MaxGets \in Nat /\ MaxGen \in Nat
      /\ now \in 0 .. MaxNow + Slack + 1
  BY AskpassAssumption DEF IInv, TypeOK
<1>1. UNCHANGED <<times, stage, stored, token, gen, inFlight, life, reqs>> /\ conn[c].pc = "checked"
  BY GetFacts
<1>2. PICK ans \in Answer :
        /\ Answered(c, ans)
        /\ \/ /\ ans = "ok" /\ inFlight /\ conn[c].tok = gen /\ gets < MaxGets
              /\ gets' = gets + 1 /\ served' = [served EXCEPT ![gen] = @ + 1]
           \/ ans # "ok" /\ gets' = gets /\ served' = served
  BY GetFacts
<1>3. conn' \in [Client -> Conns] /\ PageInv' /\ \A d \in Client : Belongs(conn[d])'
  BY <1>1, <1>2, AnswerKeeps
<1>4. ConnOK' BY <1>0, <1>1, <1>3 DEF ConnOK
<1>5. PageOK'
  <2>1. secret' \in Slot BY <1>0, GetFacts, HeldType DEF Slot
  <2>2. lastGet' \in Nat
    <3>1. now \in Nat /\ lastGet \in Nat BY <1>0, AskpassAssumption DEF TypeOK
    <3> QED BY <3>1, GetFacts
  <2> QED BY <1>0, <1>1, <2>1, <2>2, TypeParts DEF PageOK
<1>6. EventsOK' BY <1>0, GetFacts, EventsType, QueuedOK
<1>7. inFlight => served[gen] = gets BY DEF IInv, LineInv
<1>8. gets' \in 0 .. MaxGets /\ ServedOK' /\ (inFlight => served'[gen] = gets')
      /\ \A g \in 0 .. MaxGen : g > gen => served'[g] = served[g]
  <2>1. CASE inFlight /\ gets < MaxGets /\ gets' = gets + 1 /\ served' = [served EXCEPT ![gen] = @ + 1]
    <3>1. served' = [served EXCEPT ![gen] = gets + 1] BY <1>7, <2>1
    <3>2. gets + 1 \in 0 .. MaxGets /\ gen \in 0 .. MaxGen BY <1>0, <2>1
    <3> QED BY <1>0, <2>1, <3>1, <3>2 DEF ServedOK
  <2>2. CASE gets' = gets /\ served' = served BY <1>0, <1>7, <2>2 DEF ServedOK
  <2> QED BY <1>2, <2>1, <2>2
<1>9. spent' \in BOOLEAN BY GetFacts
<1>10. LineOK' BY <1>0, <1>1, <1>8, <1>9, TypeParts DEF LineOK
<1>11. TimesOK' /\ LifeOK' BY <1>0, <1>1, PartsStay
<1>12. TypeOK' BY <1>4, <1>5, <1>6, <1>8, <1>10, <1>11, TypePartsNext
<1>13. LineInv'
  <2>1. (inFlight <=> token # 0) /\ (inFlight => token = gen /\ gen < MaxGen)
        /\ \A g \in 0 .. MaxGen : g > gen => served[g] = 0
    BY DEF IInv, LineInv
  <2> QED BY <1>1, <1>3, <1>8, <2>1 DEF LineInv, At, Belongs
<1> QED BY <1>3, <1>12, <1>13 DEF IInv

\* A store is let in, its body comes, and it is committed or refused.
LEMMA StoreKeeps == ASSUME IInv, NEW c \in Client, HandleStore(c) PROVE IInv'
<1>0. conn \in [Client -> Conns] /\ reqs \in 0 .. MaxReq /\ TypeOK BY DEF IInv, TypeOK
<1>1. /\ UNCHANGED <<times, stage, stored, lastGet, line, life, reqs, served>> /\ conn[c].pc = "checked"
      /\ secret' = Held /\ Enqueue(ExpiryEvents)
  BY DEF HandleStore
<1>2. UNCHANGED <<token, gen, inFlight>> BY <1>1 DEF line
<1>3. PICK p \in {"body", "done"}, ans \in Answer :
        /\ conn' = [conn EXCEPT ![c].pc = p, ![c].ans = ans] /\ (p = "body" => ~StageBusy)
  BY DEF HandleStore, Answer
<1>4. conn' \in [Client -> Conns] /\ PageInv' /\ \A d \in Client : Belongs(conn[d])'
  <2> DEFINE r == [conn[c] EXCEPT !.pc = p, !.ans = ans]
  <2>1. conn' = [conn EXCEPT ![c] = r] BY <1>0, <1>3 DEF Conns
  <2>2. r \in Conns /\ r.pc = p /\ r.tok = conn[c].tok /\ r.gen = conn[c].gen BY <1>0 DEF Conns
  <2>3. Belongs(conn[c]) BY DEF IInv, LineInv, At, Belongs
  <2>4. Belongs(r) BY <1>1, <2>2, <2>3 DEF Belongs
  <2>5. life # "released" BY <1>1, HandlerOpen
  <2> HIDE DEF r
  <2> QED BY <1>1, <1>2, <1>3, <2>1, <2>2, <2>4, <2>5, OneMoves
<1>5. ConnOK' BY <1>0, <1>1, <1>4 DEF ConnOK
<1>6. PageOK' BY <1>0, <1>1, HeldType, TypeParts DEF PageOK
<1>7. EventsOK' BY <1>0, <1>1, EventsType, QueuedOK
<1>8. TypeOK' BY <1>0, <1>1, <1>5, <1>6, <1>7, PartsStay, TypePartsNext
<1>9. LineInv' BY <1>1, <1>4, LineFromParts DEF IInv
<1> QED BY <1>4, <1>8, <1>9 DEF IInv

LEMMA BodyKeeps == ASSUME IInv, NEW c \in Client, ReadBody(c) PROVE IInv'
<1>0. conn \in [Client -> Conns] /\ reqs \in 0 .. MaxReq /\ TypeOK BY DEF IInv, TypeOK
<1>1. /\ UNCHANGED <<times, secret, stored, lastGet, line, life, reqs, events, served>>
      /\ conn[c].pc = "body" /\ stage' = conn[c].what /\ conn' = [conn EXCEPT ![c].pc = "staged"]
  BY DEF ReadBody
<1>2. UNCHANGED <<token, gen, inFlight>> BY <1>1 DEF line
<1>3. conn' \in [Client -> Conns] /\ PageInv' /\ \A d \in Client : Belongs(conn[d])'
  <2> DEFINE r == [conn[c] EXCEPT !.pc = "staged"]
  <2>1. conn' = [conn EXCEPT ![c] = r] BY <1>0, <1>1
  <2>2. r \in Conns /\ r.pc = "staged" /\ r.tok = conn[c].tok /\ r.gen = conn[c].gen
        /\ r.what = conn[c].what
    BY <1>0 DEF Conns
  <2>3. Belongs(conn[c]) BY DEF IInv, LineInv, At, Belongs
  <2>4. Belongs(r) BY <1>1, <2>2, <2>3 DEF Belongs
  <2>5. life # "released" BY <1>1, HandlerOpen
  <2> HIDE DEF r
  <2> QED BY <1>1, <1>2, <2>1, <2>2, <2>4, <2>5, OneMoves
<1>4. ConnOK' BY <1>0, <1>1, <1>3 DEF ConnOK
<1>5. PageOK'
  <2>1. stage' \in Slot BY <1>0, <1>1 DEF Conns
  <2> QED BY <1>0, <1>1, <2>1, TypeParts DEF PageOK
<1>6. TypeOK' BY <1>0, <1>1, <1>4, <1>5, PartsStay, TypePartsNext
<1>7. LineInv' BY <1>1, <1>3, LineFromParts DEF IInv
<1> QED BY <1>3, <1>6, <1>7 DEF IInv

LEMMA CommitKeeps == ASSUME IInv, NEW c \in Client, StoreCommit(c) PROVE IInv'
<1>0. conn \in [Client -> Conns] /\ reqs \in 0 .. MaxReq /\ TypeOK BY DEF IInv, TypeOK
<1>1. UNCHANGED <<times, line, life, reqs, served>> /\ conn[c].pc = "staged" /\ stage' = NoSecret
  BY DEF StoreCommit
<1>2. UNCHANGED <<token, gen, inFlight>> BY <1>1 DEF line
<1>3. PICK ans \in Answer : Answered(c, ans) BY DEF StoreCommit, Answer
<1>4. UNCHANGED <<secret, stored, lastGet, events>> \/ Replace(stage)
  <2> DEFINE refusal == IF Stale(c) THEN "denied"
                        ELSE IF Closed \/ ~inFlight \/ spent THEN "not-in-flight" ELSE "ok"
  <2>1. IF refusal = "ok" THEN Replace(stage) ELSE UNCHANGED <<secret, stored, lastGet, events>>
    BY DEF StoreCommit
  <2> HIDE DEF refusal
  <2> QED BY <2>1
<1>5. conn' \in [Client -> Conns] /\ PageInv' /\ \A d \in Client : Belongs(conn[d])'
  <2> DEFINE r == [conn[c] EXCEPT !.pc = "done", !.ans = ans]
  <2>1. conn' = [conn EXCEPT ![c] = r] BY <1>0, <1>3 DEF Answered, Conns
  <2>2. r \in Conns /\ r.pc = "done" BY <1>0 DEF Conns
  <2>3. Belongs(r) BY <2>2 DEF Belongs
  <2>4. life # "released" BY <1>1, HandlerOpen
  <2> HIDE DEF r
  <2> QED BY <1>1, <1>2, <2>1, <2>2, <2>3, <2>4, OneMoves
<1>6. ConnOK' BY <1>0, <1>1, <1>5 DEF ConnOK
<1>7. PageOK'
  <2>1. now \in Nat BY <1>0, AskpassAssumption DEF TypeOK
  <2>2. PageOK BY <1>0, TypeParts
  <2>3. secret' \in Slot /\ stored' \in Nat /\ lastGet' \in Nat
    BY <1>4, <2>1, <2>2 DEF Replace, PageOK
  <2> QED BY <1>1, <2>3 DEF PageOK, Slot
<1>8. EventsOK'
  <2>1. CASE Replace(stage)
    <3> DEFINE evs == IF stage = secret THEN <<>> ELSE <<"stored">>
    <3>1. Enqueue(evs) BY <2>1 DEF Replace
    <3>2. evs \in Seq(Event) BY EventsType
    <3> HIDE DEF evs
    <3> QED BY <1>0, <3>1, <3>2, QueuedOK
  <2> QED BY <1>0, <1>4, <2>1, PartsStay
<1>9. TypeOK' BY <1>0, <1>1, <1>6, <1>7, <1>8, PartsStay, TypePartsNext
<1>10. LineInv' BY <1>1, <1>5, LineFromParts DEF IInv
<1> QED BY <1>5, <1>9, <1>10 DEF IInv

-----------------------------------------------------------------------------
LEMMA NextKeeps == ASSUME IInv, Next PROVE IInv'
<1>1. CASE \E c \in Client : Handle(c)
  <2>1. PICK c \in Client : Handle(c) BY <1>1
  <2> QED BY <2>1, CheckKeeps, AskKeeps, GetKeeps, StoreKeeps, BodyKeeps, CommitKeeps DEF Handle
<1>2. CASE \E c \in Client : Connect(c) BY <1>2, ConnectKeeps
<1>3. CASE BeginLine \/ EndLine BY <1>3, LinesKeep
<1>4. CASE Forget \/ Sweep \/ FlushBegin \/ Close BY <1>4, ShellKeeps
<1>5. CASE Release \/ Deliver \/ Tick \/ SetBack BY <1>5, OthersKeep
<1> QED BY <1>1, <1>2, <1>3, <1>4, <1>5 DEF Next

LEMMA StutterKeeps == ASSUME IInv, UNCHANGED vars PROVE IInv'
<1>1. UNCHANGED <<times, page, line, life, conn, reqs, events, served>> BY DEF vars
<1>2. TypeOK' BY <1>1, PartsStay, TypePartsNext DEF IInv
<1> QED BY <1>1, <1>2, InvStays DEF IInv, page

LEMMA Invariance == Spec => []IInv
<1>1. Init => IInv BY InitIInv
<1>2. IInv /\ [Next]_vars => IInv' BY NextKeeps, StutterKeeps
<1> QED BY <1>1, <1>2, PTL DEF Spec

(* One line of the shell is sent the password MaxGets times at most: get    *)
(* counts under the lock, the count starts again only with another line     *)
(* number, and a request of an ended line finds the number changed.          *)
THEOREM LineLimit == Spec => []GetsPerLine
<1>1. IInv => GetsPerLine BY DEF IInv, TypeOK, GetsPerLine
<1> QED BY <1>1, Invariance, PTL

(* A staged password belongs to the one store at work, and what Close gives *)
(* back to the system is zeroed and has no handler left.                     *)
THEOREM PageLeftClean == Spec => []PageIsClean
<1>1. ASSUME IInv PROVE PageIsClean
  <2> DEFINE S == {c \in Client : conn[c].pc \in {"body", "staged"}}
  <2>1. \A c, d \in S : c = d BY <1>1 DEF IInv, PageInv, At
  <2>2. Cardinality(S) <= 1
    <3>1. CASE S = {} BY <3>1, FS_EmptySet
    <3>2. CASE S # {}
      <4>1. PICK c : c \in S BY <3>2
      <4>2. S = {c} BY <2>1, <4>1
      <4> HIDE DEF S
      <4>3. Cardinality({c}) = 1 BY FS_Singleton
      <4> QED BY <4>2, <4>3
    <3> QED BY <3>1, <3>2
  <2> QED BY <1>1, <2>2 DEF IInv, PageInv, PageIsClean
<1> QED BY <1>1, Invariance, PTL

-----------------------------------------------------------------------------
\* A handler answers "ok" only to the line that runs, and moves its own request only.
LEMMA HandlerGrants ==
    ASSUME IInv, NEW c \in Client, Handle(c)
    PROVE  /\ \A d \in Client \ {c} : conn'[d] = conn[d]
           /\ conn'[c].pc = "done" /\ conn'[c].ans = "ok" => conn[c].tok = gen /\ inFlight
<1>0. conn \in [Client -> Conns] BY DEF IInv, TypeOK
<1>1. conn[c].pc \in {"checked", "body", "staged"} /\ ~Stale(c) => conn[c].tok = gen /\ inFlight
  BY DEF IInv, LineInv, At, Stale
<1>2. ASSUME NEW ans \in Answer, Answered(c, ans)
      PROVE  conn'[c].ans = ans /\ \A d \in Client \ {c} : conn'[d] = conn[d]
  BY <1>0, <1>2 DEF Answered, Conns
<1>3. CASE Drop(c)
  <2>1. PICK ans \in Answer : ans # "ok" /\ Answered(c, ans) BY <1>3 DEF Drop, Answer
  <2> QED BY <1>2, <2>1
<1>4. CASE CheckToken(c)
  <2>1. PICK r : conn' = [conn EXCEPT ![c] = r] /\ (r.pc = "checked" \/ r.ans = "denied")
    <3>1. CASE token = 0 \/ conn[c].tok # token
      <4>1. [conn[c] EXCEPT !.pc = "done", !.ans = "denied"].ans = "denied" BY <1>0 DEF Conns
      <4> QED BY <1>4, <3>1, <4>1 DEF CheckToken
    <3>2. CASE ~(token = 0 \/ conn[c].tok # token)
      <4>1. [conn[c] EXCEPT !.pc = "checked", !.gen = gen].pc = "checked" BY <1>0 DEF Conns
      <4> QED BY <1>4, <3>2, <4>1 DEF CheckToken
    <3> QED BY <3>1, <3>2
  <2> QED BY <1>0, <2>1
<1>5. CASE HandleHave(c)
  <2>1. conn[c].pc = "checked" BY <1>5 DEF HandleHave
  <2>2. PICK ans \in Answer : Answered(c, ans) /\ (Stale(c) => ans = "denied")
    <3>1. CASE Stale(c) BY <1>5, <3>1 DEF HandleHave, Answer
    <3>2. CASE ~Stale(c) BY <1>5, <3>2 DEF HandleHave, Answer
    <3> QED BY <3>1, <3>2
  <2> QED BY <1>1, <1>2, <2>1, <2>2
<1>6. CASE HandleForget(c)
  <2>1. conn[c].pc = "checked" BY <1>6 DEF HandleForget
  <2>2. PICK ans \in Answer : Answered(c, ans) /\ (Stale(c) => ans = "denied")
    <3>1. CASE Stale(c) BY <1>6, <3>1 DEF HandleForget, Answer
    <3>2. CASE ~Stale(c) BY <1>6, <3>2 DEF HandleForget, Answer
    <3> QED BY <3>1, <3>2
  <2> QED BY <1>1, <1>2, <2>1, <2>2
<1>7. CASE HandleGet(c)
  <2>1. PICK ans \in Answer : Answered(c, ans) /\ (ans = "ok" => conn[c].tok = gen /\ inFlight)
    BY <1>7, GetFacts
  <2> QED BY <1>2, <2>1
<1>8. CASE HandleStore(c)
  <2>1. PICK p \in {"body", "done"}, ans \in Answer :
          /\ conn' = [conn EXCEPT ![c].pc = p, ![c].ans = ans] /\ ans # "ok"
    BY <1>8 DEF HandleStore, Answer
  <2>2. conn'[c].ans = ans /\ \A d \in Client \ {c} : conn'[d] = conn[d] BY <1>0, <2>1 DEF Conns
  <2> QED BY <2>1, <2>2
<1>9. CASE ReadBody(c)
  <2>1. conn' = [conn EXCEPT ![c].pc = "staged"] BY <1>9 DEF ReadBody
  <2>2. conn'[c].pc = "staged" /\ \A d \in Client \ {c} : conn'[d] = conn[d] BY <1>0, <2>1 DEF Conns
  <2> QED BY <2>2
<1>10. CASE StoreCommit(c)
  <2>1. conn[c].pc = "staged" BY <1>10 DEF StoreCommit
  <2>2. PICK ans \in Answer : Answered(c, ans) /\ (Stale(c) => ans = "denied")
    BY <1>10 DEF StoreCommit, Answer
  <2> QED BY <1>1, <1>2, <2>1, <2>2
<1> QED BY <1>3, <1>4, <1>5, <1>6, <1>7, <1>8, <1>9, <1>10 DEF Handle

\* The password is sent by a get only, while it is held.
LEMMA ServedByGet ==
    ASSUME IInv, Next, served' # served
    PROVE  /\ now < stored + Max /\ now < lastGet + Idle
           /\ now + Slack >= stored /\ now + Slack >= lastGet
<1>1. PICK c \in Client : HandleGet(c)
  <2>1. PICK c \in Client : Handle(c)
    BY DEF Next, BeginLine, EndLine, Forget, Sweep, FlushBegin, Close, Release, Connect, Deliver,
           DeliverWake, DeliverPop, DeliverReturn, DeliverRest, DeliverQuit, Tick, SetBack
  <2> QED BY <2>1 DEF Handle, Drop, CheckToken, HandleHave, HandleForget, HandleStore, ReadBody, StoreCommit
<1>2. Held # NoSecret /\ ~Closed BY <1>1, GetFacts
<1>3. secret # NoSecret /\ ~Expired BY <1>2 DEF Held
<1>4. now \in Nat /\ stored \in Nat /\ lastGet \in Nat /\ Slack \in Nat /\ Max \in Nat /\ Idle \in Nat
  BY AskpassAssumption DEF IInv, TypeOK
<1> QED BY <1>2, <1>3, <1>4 DEF Expired

(* Whatever a handler read before it took the lock again: only the line that *)
(* runs is granted anything, and what is sent is inside both lifetimes.       *)
THEOREM OnlyTheRunningLine == Spec => GrantedToTheRunningLine
<1> DEFINE A == /\ \A c \in Client : conn[c].pc # "done" /\ conn'[c].pc = "done" /\ conn'[c].ans = "ok"
                     => conn[c].tok = gen /\ inFlight
                /\ served' # served =>
                     /\ now < stored + Max /\ now < lastGet + Idle
                     /\ now + Slack >= stored /\ now + Slack >= lastGet
<1>1. ASSUME IInv, Next PROVE A
  <2>1. ASSUME NEW c \in Client, conn[c].pc # "done", conn'[c].pc = "done", conn'[c].ans = "ok"
        PROVE  conn[c].tok = gen /\ inFlight
    <3>1. CASE \E d \in Client : Handle(d) BY <1>1, <2>1, <3>1, HandlerGrants
    <3>2. CASE \E d \in Client : Connect(d)
      <4>0. conn \in [Client -> Conns] BY <1>1 DEF IInv, TypeOK
      <4>1. PICK d \in Client : Connect(d) BY <3>2
      <4>2. PICK r : conn' = [conn EXCEPT ![d] = r] /\ r.ans # "ok"
        <5>1. PICK verb \in Verb, tok \in {g \in 1 .. gen : g % 2 = 0}, what \in Secret :
                conn' = [conn EXCEPT ![d] =
                  IF Cardinality(Serving) >= Sem THEN [NoConn EXCEPT !.pc = "done", !.ans = "denied"]
                  ELSE [NoConn EXCEPT !.pc = "header", !.verb = verb, !.tok = tok,
                                      !.what = IF verb = "store" THEN what ELSE NoSecret]]
          BY <4>1 DEF Connect
        <5>2. /\ [NoConn EXCEPT !.pc = "done", !.ans = "denied"].ans # "ok"
              /\ [NoConn EXCEPT !.pc = "header", !.verb = verb, !.tok = tok,
                                !.what = IF verb = "store" THEN what ELSE NoSecret].ans # "ok"
          BY DEF NoConn
        <5>3. CASE Cardinality(Serving) >= Sem BY <5>1, <5>2, <5>3
        <5>4. CASE ~(Cardinality(Serving) >= Sem) BY <5>1, <5>2, <5>4
        <5> QED BY <5>3, <5>4
      <4> QED BY <2>1, <4>0, <4>2
    <3>3. CASE UNCHANGED conn BY <2>1, <3>3
    <3>4. BeginLine \/ EndLine \/ Forget \/ Sweep \/ FlushBegin \/ Close \/ Release \/ Deliver
          \/ Tick \/ SetBack => UNCHANGED conn
      BY DEF BeginLine, EndLine, Forget, Sweep, FlushBegin, Close, Release, Deliver,
             DeliverWake, DeliverPop, DeliverReturn, DeliverRest, DeliverQuit, Tick, SetBack
    <3> QED BY <1>1, <3>1, <3>2, <3>3, <3>4 DEF Next
  <2>2. served' # served => /\ now < stored + Max /\ now < lastGet + Idle
                            /\ now + Slack >= stored /\ now + Slack >= lastGet
    BY <1>1, ServedByGet
  <2> QED BY <2>1, <2>2
<1>2. IInv /\ [Next]_vars => [A]_vars BY <1>1
<1> QED BY <1>2, Invariance, PTL DEF Spec, GrantedToTheRunningLine

-----------------------------------------------------------------------------
(***************************************************************************)
(* The notices.                                                            *)
(***************************************************************************)
\* w is the last thing the shell will have been told: it heads no later notice.
Says(w) ==
    \/ told = w /\ \A i \in 1 .. Len(queue) : queue[i] = "barrier"
    \/ \E i \in 1 .. Len(queue) :
         queue[i] = w /\ \A j \in i + 1 .. Len(queue) : queue[j] = "barrier"

\* The word for what the page holds.
Word == IF secret # NoSecret THEN "stored" ELSE "forgotten"

NoticeInv == ~Closed => Says(Word)

\* Only stores reach the stage, they bring a password, and what is staged is theirs.
StagedInv ==
    \A c \in Client :
      /\ conn[c].verb = "store" => conn[c].what # NoSecret
      /\ At(c, {"body", "staged"}) => conn[c].verb = "store"
      /\ conn[c].pc = "staged" => stage = conn[c].what

\* The shell will have been told w after an event w is queued, whatever was there.
LEMMA QueuedSays ==
    ASSUME TypeOK, NEW w \in Event, queue' = queue \o <<w>>
    PROVE  Says(w)'
<1>1. queue \in Seq(Event \cup {"barrier"}) BY DEF TypeOK
<1>2. queue' \in Seq(Event \cup {"barrier"}) /\ Len(queue') = Len(queue) + 1
      /\ queue'[Len(queue) + 1] = w /\ Len(queue) \in Nat
  BY <1>1 DEF Event
<1> QED BY <1>2 DEF Says

LEMMA NothingQueued == TypeOK => queue \o <<>> = queue
BY DEF TypeOK

\* A barrier changes nothing of what will have been told.
LEMMA BarrierSays ==
    ASSUME TypeOK, NEW w, Says(w), UNCHANGED told, queue' = Append(queue, "barrier")
    PROVE  Says(w)'
<1>1. queue \in Seq(Event \cup {"barrier"}) BY DEF TypeOK
<1>2. Len(queue') = Len(queue) + 1 /\ queue'[Len(queue) + 1] = "barrier" /\ Len(queue) \in Nat
      /\ \A i \in 1 .. Len(queue) : queue'[i] = queue[i]
  BY <1>1
<1> QED BY <1>2 DEF Says

\* Nor does its delivery, nor that of a notice.
LEMMA PoppedSays ==
    ASSUME TypeOK, NEW w, w # "barrier", Says(w), queue # <<>>, queue' = Tail(queue),
           told' = IF Head(queue) = "barrier" THEN told ELSE Head(queue)
    PROVE  Says(w)'
<1>1. queue \in Seq(Event \cup {"barrier"}) BY DEF TypeOK
<1>2. Len(queue) \in Nat \ {0} /\ Len(queue') = Len(queue) - 1 /\ Head(queue) = queue[1]
      /\ \A i \in 1 .. Len(queue) - 1 : queue'[i] = queue[i + 1]
  BY <1>1
<1>3. CASE told = w /\ \A i \in 1 .. Len(queue) : queue[i] = "barrier" BY <1>2, <1>3 DEF Says
<1>4. CASE \E i \in 1 .. Len(queue) :
             queue[i] = w /\ \A j \in i + 1 .. Len(queue) : queue[j] = "barrier"
  <2>1. PICK i \in 1 .. Len(queue) :
          queue[i] = w /\ \A j \in i + 1 .. Len(queue) : queue[j] = "barrier"
    BY <1>4
  <2>2. CASE i = 1
    <3>1. told' = w BY <1>2, <2>1, <2>2
    <3>2. \A k \in 1 .. Len(queue') : queue'[k] = "barrier" BY <1>2, <2>1, <2>2
    <3> QED BY <3>1, <3>2 DEF Says
  <2>3. CASE i > 1
    <3>1. i - 1 \in 1 .. Len(queue') /\ queue'[i - 1] = w BY <1>2, <2>1, <2>3
    <3>2. \A j \in (i - 1) + 1 .. Len(queue') : queue'[j] = "barrier" BY <1>2, <2>1, <2>3
    <3> QED BY <3>1, <3>2 DEF Says
  <2> QED BY <2>1, <2>2, <2>3
<1> QED BY <1>3, <1>4 DEF Says

\* What neither the page nor the notices change.
LEMMA NoticesStay ==
    ASSUME NoticeInv, UNCHANGED <<life, secret, queue, told>>
    PROVE  NoticeInv'
BY DEF NoticeInv, Closed, Says, Word

\* A password that expires, and one that is forgotten, is told of.
LEMMA HeldSays ==
    ASSUME TypeOK, NoticeInv, secret' = Held, Enqueue(ExpiryEvents), UNCHANGED life
    PROVE  NoticeInv'
<1>1. UNCHANGED told BY DEF Enqueue
<1>2. CASE Expired
  <2>1. queue' = queue \o <<"forgotten">> /\ secret' = NoSecret BY <1>2 DEF Enqueue, ExpiryEvents, Held
  <2>2. Says("forgotten")' BY <2>1, QueuedSays DEF Event
  <2> QED BY <2>1, <2>2 DEF NoticeInv, Word
<1>3. CASE ~Expired
  <2>1. queue' = queue /\ secret' = secret BY <1>3, NothingQueued DEF Enqueue, ExpiryEvents, Held
  <2> QED BY <1>1, <2>1, NoticesStay
<1> QED BY <1>2, <1>3

LEMMA ForgetSays ==
    ASSUME TypeOK, NoticeInv, secret' = NoSecret, Enqueue(ForgetEvents), UNCHANGED life
    PROVE  NoticeInv'
<1>1. UNCHANGED told BY DEF Enqueue
<1>2. CASE secret # NoSecret
  <2>1. queue' = queue \o <<"forgotten">> BY <1>2 DEF Enqueue, ForgetEvents
  <2>2. Says("forgotten")' BY <2>1, QueuedSays DEF Event
  <2> QED BY <2>2 DEF NoticeInv, Word
<1>3. CASE secret = NoSecret
  <2>1. queue' = queue BY <1>3, NothingQueued DEF Enqueue, ForgetEvents
  <2> QED BY <1>1, <1>3, <2>1, NoticesStay
<1> QED BY <1>2, <1>3

\* A password that comes is told of, unless it is the one that is there.
LEMMA ReplaceSays ==
    ASSUME TypeOK, NoticeInv, stage # NoSecret, Replace(stage), UNCHANGED life
    PROVE  NoticeInv'
<1>1. UNCHANGED told BY DEF Replace, Enqueue
<1>2. CASE stage # secret
  <2>1. queue' = queue \o <<"stored">> /\ secret' # NoSecret BY <1>2 DEF Replace, Enqueue
  <2>2. Says("stored")' BY <2>1, QueuedSays DEF Event
  <2> QED BY <2>1, <2>2 DEF NoticeInv, Word
<1>3. CASE stage = secret
  <2>1. queue' = queue /\ secret' = secret BY <1>3, NothingQueued DEF Replace, Enqueue
  <2> QED BY <1>1, <2>1, NoticesStay
<1> QED BY <1>2, <1>3

\* Every step outside the handlers keeps the notices in line with the page.
LEMMA ShellNotices ==
    ASSUME TypeOK, NoticeInv,
           \/ BeginLine \/ EndLine \/ Forget \/ Sweep \/ FlushBegin \/ Close \/ Release
           \/ Deliver \/ Tick \/ SetBack \/ \E c \in Client : Connect(c)
    PROVE  NoticeInv'
<1>1. CASE BeginLine \/ EndLine \/ Tick \/ SetBack \/ \E c \in Client : Connect(c)
  <2>1. UNCHANGED <<life, page, events>> BY <1>1 DEF BeginLine, EndLine, Tick, SetBack, Connect
  <2> QED BY <2>1, NoticesStay DEF page, events
<1>2. CASE Forget BY <1>2, ForgetSays DEF Forget
<1>3. CASE Sweep
  <2>1. secret' = Held BY <1>3 DEF Sweep, Held
  <2> QED BY <1>3, <2>1, HeldSays DEF Sweep
<1>4. CASE FlushBegin
  <2>1. UNCHANGED <<page, life, told>> /\ queue' = Append(queue, "barrier") BY <1>4 DEF FlushBegin
  <2>2. UNCHANGED <<Word, Closed>> BY <2>1 DEF page, Word, Closed
  <2> QED BY <2>1, <2>2, BarrierSays DEF NoticeInv
<1>5. CASE Close \/ Release BY <1>5 DEF Close, Release, NoticeInv, Closed
<1>6. CASE DeliverPop
  <2>1. UNCHANGED <<page, life>> /\ queue # <<>> /\ queue' = Tail(queue)
        /\ told' = IF Head(queue) = "barrier" THEN told ELSE Head(queue)
    BY <1>6 DEF DeliverPop
  <2>2. UNCHANGED <<Word, Closed>> /\ Word # "barrier" BY <2>1 DEF page, Word, Closed
  <2> QED BY <2>1, <2>2, PoppedSays DEF NoticeInv
<1>7. CASE DeliverWake \/ DeliverReturn \/ DeliverRest \/ DeliverQuit
  <2>1. UNCHANGED <<page, life, queue, told>>
    BY <1>7 DEF DeliverWake, DeliverReturn, DeliverRest, DeliverQuit
  <2> QED BY <2>1, NoticesStay DEF page
<1> QED BY <1>1, <1>2, <1>3, <1>4, <1>5, <1>6, <1>7 DEF Deliver

\* Every handler does.
LEMMA HandlerNotices ==
    ASSUME TypeOK, NoticeInv, StagedInv, NEW c \in Client, Handle(c)
    PROVE  NoticeInv'
<1>1. CASE Drop(c) \/ CheckToken(c)
  <2>1. UNCHANGED <<life, page, events>> BY <1>1 DEF Drop, CheckToken
  <2> QED BY <2>1, NoticesStay DEF page, events
<1>2. CASE HandleHave(c)
  <2>1. UNCHANGED <<life, page, events>> \/ (secret' = Held /\ Enqueue(ExpiryEvents))
    BY <1>2 DEF HandleHave
  <2>2. UNCHANGED life BY <1>2 DEF HandleHave
  <2> QED BY <2>1, <2>2, HeldSays, NoticesStay DEF page, events
<1>3. CASE HandleForget(c)
  <2>1. UNCHANGED <<life, page, events>> \/ (secret' = NoSecret /\ Enqueue(ForgetEvents))
    BY <1>3 DEF HandleForget
  <2>2. UNCHANGED life BY <1>3 DEF HandleForget
  <2> QED BY <2>1, <2>2, ForgetSays, NoticesStay DEF page, events
<1>4. CASE HandleGet(c)
  <2>1. UNCHANGED life BY <1>4 DEF HandleGet
  <2>2. \/ secret' = NoSecret /\ Enqueue(ForgetEvents)
        \/ secret' = Held /\ Enqueue(ExpiryEvents)
    <3> DEFINE refusal == IF Stale(c) THEN "denied" ELSE IF Closed THEN "closed"
                          ELSE IF ~inFlight THEN "not-in-flight" ELSE IF Held = NoSecret THEN "no"
                          ELSE IF gets >= MaxGets THEN "limit" ELSE "ok"
    <3>1. /\ secret' = IF refusal = "limit" THEN NoSecret ELSE Held
          /\ Enqueue(IF refusal = "limit" THEN ForgetEvents ELSE ExpiryEvents)
      BY <1>4 DEF HandleGet
    <3> HIDE DEF refusal
    <3>2. CASE refusal = "limit" BY <3>1, <3>2
    <3>3. CASE refusal # "limit" BY <3>1, <3>3
    <3> QED BY <3>2, <3>3
  <2> QED BY <2>1, <2>2, HeldSays, ForgetSays
<1>5. CASE HandleStore(c) BY <1>5, HeldSays DEF HandleStore
<1>6. CASE ReadBody(c) BY <1>6, NoticesStay DEF ReadBody, events
<1>7. CASE StoreCommit(c)
  <2>1. UNCHANGED life /\ conn[c].pc = "staged" BY <1>7 DEF StoreCommit
  <2>2. UNCHANGED <<secret, events>> \/ Replace(stage)
    <3> DEFINE refusal == IF Stale(c) THEN "denied"
                          ELSE IF Closed \/ ~inFlight \/ spent THEN "not-in-flight" ELSE "ok"
    <3>1. IF refusal = "ok" THEN Replace(stage) ELSE UNCHANGED <<secret, stored, lastGet, events>>
      BY <1>7 DEF StoreCommit
    <3> HIDE DEF refusal
    <3> QED BY <3>1
  <2>3. stage # NoSecret BY <2>1 DEF StagedInv, At
  <2> QED BY <2>1, <2>2, <2>3, ReplaceSays, NoticesStay DEF events
<1> QED BY <1>1, <1>2, <1>3, <1>4, <1>5, <1>6, <1>7 DEF Handle

-----------------------------------------------------------------------------
\* One request moves on: what is asked of its new form for the stage to stay its store's.
LEMMA StagedMoves ==
    ASSUME IInv, StagedInv, NEW c \in Client, NEW r, conn' = [conn EXCEPT ![c] = r],
           r.verb = "store" => r.what # NoSecret,
           r.pc \in {"body", "staged"} => r.verb = "store",
           r.pc = "staged" => stage' = r.what,
           stage' = stage \/ conn[c].pc \in {"body", "staged"}
    PROVE  StagedInv'
<1>1. conn \in [Client -> Conns] BY DEF IInv, TypeOK
<1>2. conn'[c] = r /\ \A d \in Client \ {c} : conn'[d] = conn[d] BY <1>1
<1>3. ASSUME NEW d \in Client \ {c}, conn[d].pc = "staged" PROVE stage' = stage
  BY <1>3 DEF IInv, PageInv, At
<1> QED BY <1>2, <1>3 DEF StagedInv, At

\* A request that only changes its place and its answer brings what it brought.
LEMMA StagedPlace ==
    ASSUME IInv, StagedInv, NEW c \in Client, NEW p \in {"done", "body", "staged"}, NEW ans \in Answer,
           conn' = [conn EXCEPT ![c] = [conn[c] EXCEPT !.pc = p, !.ans = ans]],
           p # "done" => conn[c].verb = "store", p = "staged" => stage' = conn[c].what,
           stage' = stage \/ conn[c].pc \in {"body", "staged"}
    PROVE  StagedInv'
<1> DEFINE r == [conn[c] EXCEPT !.pc = p, !.ans = ans]
<1>1. conn[c] \in Conns BY DEF IInv, TypeOK
<1>2. r.verb = conn[c].verb /\ r.what = conn[c].what /\ r.pc = p BY <1>1 DEF Conns
<1> HIDE DEF r
<1>3. conn' = [conn EXCEPT ![c] = r] BY DEF r
<1>4. r.verb = "store" => r.what # NoSecret BY <1>2 DEF StagedInv
<1> QED BY <1>2, <1>3, <1>4, StagedMoves

LEMMA StagedAnswered ==
    ASSUME IInv, StagedInv, NEW c \in Client, NEW ans \in Answer, Answered(c, ans),
           stage' = stage \/ conn[c].pc \in {"body", "staged"}
    PROVE  StagedInv'
<1>1. conn \in [Client -> Conns] BY DEF IInv, TypeOK
<1>2. conn' = [conn EXCEPT ![c] = [conn[c] EXCEPT !.pc = "done", !.ans = ans]]
  BY <1>1 DEF Answered, Conns
<1> QED BY <1>2, StagedPlace

LEMMA HandlerStages == ASSUME IInv, StagedInv, NEW c \in Client, Handle(c) PROVE StagedInv'
<1>0. conn \in [Client -> Conns] BY DEF IInv, TypeOK
<1>1. CASE Drop(c)
  <2>1. PICK ans \in Answer : Answered(c, ans) BY <1>1 DEF Drop, Answer
  <2> QED BY <1>1, <2>1, StagedAnswered DEF Drop, page
<1>2. CASE CheckToken(c)
  <2>1. stage' = stage /\ conn[c].pc = "header" BY <1>2 DEF CheckToken, page
  <2>2. PICK r : /\ conn' = [conn EXCEPT ![c] = r]
                 /\ r.verb = conn[c].verb /\ r.what = conn[c].what /\ r.pc \in {"done", "checked"}
    <3>1. CASE token = 0 \/ conn[c].tok # token
      <4> DEFINE r == [conn[c] EXCEPT !.pc = "done", !.ans = "denied"]
      <4>1. r.verb = conn[c].verb /\ r.what = conn[c].what /\ r.pc = "done" BY <1>0 DEF Conns
      <4>2. conn' = [conn EXCEPT ![c] = r] BY <1>2, <3>1 DEF CheckToken
      <4> HIDE DEF r
      <4> QED BY <4>1, <4>2
    <3>2. CASE ~(token = 0 \/ conn[c].tok # token)
      <4> DEFINE r == [conn[c] EXCEPT !.pc = "checked", !.gen = gen]
      <4>1. r.verb = conn[c].verb /\ r.what = conn[c].what /\ r.pc = "checked" BY <1>0 DEF Conns
      <4>2. conn' = [conn EXCEPT ![c] = r] BY <1>2, <3>2 DEF CheckToken
      <4> HIDE DEF r
      <4> QED BY <4>1, <4>2
    <3> QED BY <3>1, <3>2
  <2>3. r.verb = "store" => r.what # NoSecret BY <2>2 DEF StagedInv
  <2> QED BY <2>1, <2>2, <2>3, StagedMoves
<1>3. CASE HandleHave(c) \/ HandleForget(c)
  <2>1. stage' = stage BY <1>3 DEF HandleHave, HandleForget, page
  <2>2. PICK ans \in Answer : Answered(c, ans)
    <3>1. CASE HandleHave(c)
      <4>1. CASE Stale(c) BY <3>1, <4>1 DEF HandleHave, Answer
      <4>2. CASE ~Stale(c) BY <3>1, <4>2 DEF HandleHave, Answer
      <4> QED BY <4>1, <4>2
    <3>2. CASE HandleForget(c) BY <3>2 DEF HandleForget, Answer
    <3> QED BY <1>3, <3>1, <3>2
  <2> QED BY <2>1, <2>2, StagedAnswered
<1>4. CASE HandleGet(c)
  <2>1. stage' = stage /\ \E ans \in Answer : Answered(c, ans) BY <1>4, GetFacts
  <2> QED BY <2>1, StagedAnswered
<1>5. CASE HandleStore(c)
  <2>1. stage' = stage /\ conn[c].verb = "store" BY <1>5 DEF HandleStore
  <2>2. PICK p \in {"body", "done"}, ans \in Answer : conn' = [conn EXCEPT ![c].pc = p, ![c].ans = ans]
    BY <1>5 DEF HandleStore, Answer
  <2>3. conn' = [conn EXCEPT ![c] = [conn[c] EXCEPT !.pc = p, !.ans = ans]] BY <1>0, <2>2 DEF Conns
  <2> QED BY <2>1, <2>3, StagedPlace
<1>6. CASE ReadBody(c)
  <2> DEFINE r == [conn[c] EXCEPT !.pc = "staged"]
  <2>1. stage' = conn[c].what /\ conn[c].pc = "body" /\ conn' = [conn EXCEPT ![c] = r]
    BY <1>0, <1>6 DEF ReadBody
  <2>2. r.verb = conn[c].verb /\ r.what = conn[c].what /\ r.pc = "staged" BY <1>0 DEF Conns
  <2>3. conn[c].verb = "store" /\ conn[c].what # NoSecret BY <2>1 DEF StagedInv, At
  <2> HIDE DEF r
  <2> QED BY <2>1, <2>2, <2>3, StagedMoves
<1>7. CASE StoreCommit(c)
  <2>1. PICK ans \in Answer : Answered(c, ans) BY <1>7 DEF StoreCommit, Answer
  <2>2. conn[c].pc = "staged" BY <1>7 DEF StoreCommit
  <2> QED BY <2>1, <2>2, StagedAnswered
<1> QED BY <1>1, <1>2, <1>3, <1>4, <1>5, <1>6, <1>7 DEF Handle

LEMMA ConnectStages == ASSUME IInv, StagedInv, NEW c \in Client, Connect(c) PROVE StagedInv'
<1>1. stage' = stage BY DEF Connect, page
<1>2. PICK verb \in Verb, tok \in {g \in 1 .. gen : g % 2 = 0}, what \in Secret :
        conn' = [conn EXCEPT ![c] =
          IF Cardinality(Serving) >= Sem THEN [NoConn EXCEPT !.pc = "done", !.ans = "denied"]
          ELSE [NoConn EXCEPT !.pc = "header", !.verb = verb, !.tok = tok,
                              !.what = IF verb = "store" THEN what ELSE NoSecret]]
  BY DEF Connect
<1>3. what # NoSecret BY AskpassAssumption
<1>4. CASE Cardinality(Serving) >= Sem
  <2> DEFINE r == [NoConn EXCEPT !.pc = "done", !.ans = "denied"]
  <2>1. r.verb = "have" /\ r.pc = "done" BY DEF NoConn
  <2>2. conn' = [conn EXCEPT ![c] = r] BY <1>2, <1>4
  <2> HIDE DEF r
  <2> QED BY <1>1, <2>1, <2>2, StagedMoves
<1>5. CASE ~(Cardinality(Serving) >= Sem)
  <2> DEFINE w == IF verb = "store" THEN what ELSE NoSecret
             r == [NoConn EXCEPT !.pc = "header", !.verb = verb, !.tok = tok, !.what = w]
  <2>1. verb = "store" => w # NoSecret BY <1>3
  <2>2. conn' = [conn EXCEPT ![c] = r] BY <1>2, <1>5
  <2> HIDE DEF w
  <2>3. r.verb = verb /\ r.pc = "header" /\ r.what = w BY DEF NoConn
  <2> HIDE DEF r
  <2> QED BY <1>1, <2>1, <2>2, <2>3, StagedMoves
<1> QED BY <1>4, <1>5

LEMMA OthersStage ==
    ASSUME IInv, StagedInv,
           \/ BeginLine \/ EndLine \/ Forget \/ Sweep \/ FlushBegin \/ Close \/ Release
           \/ Deliver \/ Tick \/ SetBack
    PROVE  StagedInv'
<1>1. CASE Release BY <1>1 DEF Release, StagedInv, Serving, At
<1>2. CASE UNCHANGED <<conn, stage>> BY <1>2 DEF StagedInv, At
<1> QED BY <1>1, <1>2 DEF BeginLine, EndLine, Forget, Sweep, FlushBegin, Close, Deliver,
           DeliverWake, DeliverPop, DeliverReturn, DeliverRest, DeliverQuit, Tick, SetBack, page

(* While the agent is open, the last notice that was given or is queued is   *)
(* the one for what the page holds: every change of the page queues its      *)
(* notice under the same lock, in order, and none is queued for no change.   *)
THEOREM NoticesInOrder == Spec => []NoticesAgree
<1> DEFINE NInv == StagedInv /\ NoticeInv
<1>1. Init => NInv
  <2> SUFFICES ASSUME Init PROVE NInv OBVIOUS
  <2>1. StagedInv BY DEF Init, NoConn, StagedInv, At
  <2>2. NoticeInv BY DEF Init, NoticeInv, Says, Word
  <2> QED BY <2>1, <2>2
<1>2. IInv /\ NInv /\ [Next]_vars => NInv'
  <2> SUFFICES ASSUME IInv, NInv, [Next]_vars PROVE NInv' OBVIOUS
  <2>0. TypeOK BY DEF IInv
  <2>1. CASE \E c \in Client : Handle(c)
    BY <2>0, <2>1, HandlerNotices, HandlerStages
  <2>2. CASE \E c \in Client : Connect(c) BY <2>0, <2>2, ShellNotices, ConnectStages
  <2>3. CASE \/ BeginLine \/ EndLine \/ Forget \/ Sweep \/ FlushBegin \/ Close \/ Release
             \/ Deliver \/ Tick \/ SetBack
    BY <2>0, <2>3, ShellNotices, OthersStage
  <2>4. CASE UNCHANGED vars
    <3>1. UNCHANGED <<conn, page, life, events>> BY <2>4 DEF vars
    <3>2. UNCHANGED <<conn, stage, life, secret, queue, told>> BY <3>1 DEF page, events
    <3> QED BY <3>2, NoticesStay DEF StagedInv, At
  <2> QED BY <2>1, <2>2, <2>3, <2>4 DEF Next
<1>3. IInv /\ NInv => NoticesAgree
  <2> SUFFICES ASSUME IInv, NInv, ~Closed, queue = <<>>
               PROVE  (told = "stored") <=> (secret # NoSecret)
    BY DEF NoticesAgree
  <2>1. told = Word BY DEF NoticeInv, Says
  <2> QED BY <2>1 DEF Word
<1> QED BY <1>1, <1>2, <1>3, Invariance, PTL DEF Spec
=============================================================================
