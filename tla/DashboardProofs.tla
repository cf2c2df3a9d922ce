--------------------------- MODULE DashboardProofs ---------------------------
(***************************************************************************)
(* What a tab shows once nothing is in flight, for any projects, versions  *)
(* and phases, and any number of moves, writes, failures and overtakings.  *)
(***************************************************************************)
EXTENDS DashboardProperties, SequenceTheorems, TLAPS

Views == [project : Projects, version : {None} \cup Versions, versions : SUBSET Versions,
          phase : PhaseNames, trace : PhaseNames \cup {All}, tab : {"other", "chain"}]

\* What waits for an answer: the first part of a switch of project waits for the
\* versions, and no switch waits for the chain.
Switches(kinds) == {NoTask} \cup (kinds \X Nat)
TasksOf(r) == CASE r = "versions" -> Switches({"project"})
                [] r = "chain" -> {NoTask}
                [] OTHER -> Switches({"project", "version"})

RequestsOf(r) == [scope : Projects \X ({None} \cup Versions), phase : PhaseNames, task : TasksOf(r),
                  late : BOOLEAN, since : Nat]
Flights == {f \in [Requests -> UNION {Seq(RequestsOf(r)) : r \in Requests}] :
               \A r \in Requests : f[r] \in Seq(RequestsOf(r))}

\* The edits a panel shows are none that were never made.
Shown(answer) == answer \in Answers /\ answer.content \in Contents /\ answer.edits <= edits[answer.content]

TypeInv ==
    /\ edits \in [Contents -> Nat]
    /\ view \in Views
    /\ shown \in [Panels -> Answers]
    /\ \A x \in Panels : Shown(shown[x])
    /\ chain \in {None} \cup Answers
    /\ flight \in Flights
    /\ events \in Nat
    /\ stream \in Projects \X ({None} \cup Versions)

-----------------------------------------------------------------------------
(***************************************************************************)
(* The requests of one panel.  Ending says what its last request must be   *)
(* for the panel to end up well: late, or one of the good ones; idle is    *)
(* what must hold of the panel when there is no request.                   *)
(***************************************************************************)
Ending(asked, good, idle) ==
    IF asked = <<>> THEN idle ELSE asked[Len(asked)].late \/ asked[Len(asked)] \in good

LEMMA AppendEnds ==
    ASSUME NEW R, NEW asked \in Seq(R), NEW req \in R, NEW good, NEW idle
    PROVE  /\ Append(asked, req) \in Seq(R)
           /\ req \in good => Ending(Append(asked, req), good, idle)
           /\ \A n \in DOMAIN asked : n \in DOMAIN Append(asked, req) /\ Append(asked, req)[n] = asked[n]
           /\ \E n \in DOMAIN Append(asked, req) : Append(asked, req)[n] = req
<1>1. Append(asked, req) \in Seq(R) /\ Len(Append(asked, req)) = Len(asked) + 1
  OBVIOUS
<1>2. Append(asked, req)[Len(asked) + 1] = req /\ Append(asked, req) # <<>>
  OBVIOUS
<1>3. DOMAIN asked = 1..Len(asked) /\ DOMAIN Append(asked, req) = 1..(Len(asked) + 1) /\ Len(asked) \in Nat
  BY <1>1, LenProperties
<1>4. \A n \in DOMAIN asked : Append(asked, req)[n] = asked[n]
  BY <1>3
<1> QED
  BY <1>1, <1>2, <1>3, <1>4 DEF Ending

LEMMA AllLateEnds ==
    ASSUME NEW r \in Requests, NEW asked \in Seq(RequestsOf(r)), NEW good, NEW idle
    PROVE  /\ AllLate(asked) \in Seq(RequestsOf(r))
           /\ asked = <<>> => AllLate(asked) = <<>>
           /\ asked # <<>> => Ending(AllLate(asked), good, idle)
           /\ DOMAIN AllLate(asked) = DOMAIN asked
           /\ \A n \in DOMAIN asked : AllLate(asked)[n].task = asked[n].task
<1>1. Len(asked) \in Nat /\ DOMAIN asked = 1..Len(asked)
  BY LenProperties
<1>2. \A n \in 1..Len(asked) : asked[n] \in RequestsOf(r)
  BY ElementOfSeq
<1>3. \A n \in 1..Len(asked) : Late(asked[n]) \in RequestsOf(r) /\ Late(asked[n]).late /\ Late(asked[n]).task = asked[n].task
  BY <1>2 DEF Late, RequestsOf
<1>4. AllLate(asked) \in [1..Len(asked) -> RequestsOf(r)]
  BY <1>1, <1>3 DEF AllLate
<1>5. AllLate(asked) \in Seq(RequestsOf(r))
  BY <1>1, <1>4, SeqDef
<1>6. Len(AllLate(asked)) = Len(asked)
  BY <1>1, <1>4, <1>5, LenProperties
<1>7. asked = <<>> => AllLate(asked) = <<>>
  BY <1>5, <1>6, EmptySeq
<1>8. asked # <<>> => Len(asked) \in 1..Len(asked)
  BY <1>1, EmptySeq
<1>9. asked # <<>> => Ending(AllLate(asked), good, idle)
  BY <1>1, <1>3, <1>5, <1>6, <1>8 DEF Ending, AllLate
<1> QED
  BY <1>1, <1>3, <1>5, <1>7, <1>9 DEF AllLate

LEMMA AnsweredEnds ==
    ASSUME NEW r \in Requests, NEW asked \in Seq(RequestsOf(r)), NEW n \in DOMAIN asked
    PROVE  /\ asked[n] \in RequestsOf(r)
           /\ Answered(asked, n) \in Seq(RequestsOf(r))
           /\ \A m \in DOMAIN asked \ {n} :
                 \E k \in DOMAIN Answered(asked, n) : Answered(asked, n)[k].task = asked[m].task
           /\ \A good, idle, after :
                 /\ Ending(asked, good, idle)
                 /\ asked[n].late \/ asked[n] \in good => after
                 => Ending(Answered(asked, n), good, after)
<1> DEFINE rest == Answered(asked, n)
           last == Len(asked)
<1>1. last \in Nat /\ DOMAIN asked = 1..last /\ asked # <<>> /\ last > 0 /\ n \in 1..last
  BY LenProperties, EmptySeq
<1>2. \A m \in 1..last : asked[m] \in RequestsOf(r)
  BY <1>1, ElementOfSeq
<1>3. \A m \in 1..last : Late(asked[m]) \in RequestsOf(r) /\ Late(asked[m]).late /\ Late(asked[m]).task = asked[m].task
  BY <1>2 DEF Late, RequestsOf
<1>4. rest = [m \in 1..last - 1 |-> IF m < n THEN Late(asked[m]) ELSE asked[m + 1]]
  BY DEF Answered
<1>5. \A m \in 1..last - 1 : rest[m] = IF m < n THEN Late(asked[m]) ELSE asked[m + 1]
  BY <1>4
<1>6. rest \in [1..last - 1 -> RequestsOf(r)]
  <2>1. ASSUME NEW m \in 1..last - 1 PROVE (IF m < n THEN Late(asked[m]) ELSE asked[m + 1]) \in RequestsOf(r)
    <3>1. m \in 1..last /\ m + 1 \in 1..last
      BY <1>1
    <3> QED
      BY <3>1, <1>2, <1>3
  <2> QED
    BY <1>4, <2>1
<1>7. rest \in Seq(RequestsOf(r)) /\ Len(rest) = last - 1 /\ DOMAIN rest = 1..last - 1
  <2>1. last - 1 \in Nat
    BY <1>1
  <2>2. rest \in Seq(RequestsOf(r))
    BY <2>1, <1>6, SeqDef
  <2>3. DOMAIN rest = 1..last - 1
    BY <1>6
  <2> QED
    BY <2>1, <2>2, <2>3, LenProperties
<1>8. ASSUME NEW m \in DOMAIN asked \ {n}
      PROVE  \E k \in DOMAIN rest : rest[k].task = asked[m].task
  <2>1. CASE m < n
    <3>1. m \in 1..last - 1
      BY <2>1, <1>1
    <3>2. rest[m].task = asked[m].task
      BY <2>1, <3>1, <1>1, <1>3, <1>5
    <3> QED
      BY <3>1, <3>2, <1>7
  <2>2. CASE m > n
    <3>1. m - 1 \in 1..last - 1 /\ ~(m - 1 < n) /\ (m - 1) + 1 = m
      BY <2>2, <1>1
    <3>2. rest[m - 1] = asked[m]
      BY <3>1, <1>5
    <3> QED
      BY <3>1, <3>2, <1>7
  <2> QED
    BY <2>1, <2>2, <1>1
<1>9. ASSUME NEW good, NEW idle, NEW after, Ending(asked, good, idle),
             asked[n].late \/ asked[n] \in good => after
      PROVE  Ending(rest, good, after)
  <2>1. asked[last].late \/ asked[last] \in good
    BY <1>9, <1>1 DEF Ending
  <2>2. CASE last = 1
    <3>1. rest = <<>>
      BY <2>2, <1>7, EmptySeq
    <3> QED
      BY <3>1, <2>1, <2>2, <1>1, <1>9 DEF Ending
  <2>3. CASE last > 1
    <3>1. rest # <<>> /\ last - 1 \in 1..last - 1
      BY <2>3, <1>1, <1>7, EmptySeq
    <3>2. CASE n = last
      <4>1. rest[last - 1] = Late(asked[last - 1]) /\ last - 1 \in 1..last
        BY <3>1, <3>2, <1>1, <1>5
      <4>2. rest[last - 1].late
        BY <4>1, <1>3
      <4> QED
        BY <3>1, <4>2, <1>7 DEF Ending
    <3>3. CASE n < last
      <4>1. rest[last - 1] = asked[last]
        BY <3>1, <3>3, <1>1, <1>5
      <4> QED
        BY <3>1, <4>1, <2>1, <1>7 DEF Ending
    <3> QED
      BY <3>2, <3>3, <1>1
  <2> QED
    BY <2>2, <2>3, <1>1
<1> QED
  BY <1>1, <1>2, <1>7, <1>8, <1>9

-----------------------------------------------------------------------------
(***************************************************************************)
(* The flight: what sending, overlooking and answering do to it.           *)
(***************************************************************************)
Waiting(f, r, kind) == \E n \in DOMAIN f[r] : f[r][n].task[1] = kind

\* From f to g, no task is dropped; only the requests in some move; the last
\* request of r is a good one if q is.
Keeps(f, g) == \A r \in Requests : \A kind : Waiting(f, r, kind) => Waiting(g, r, kind)
MovesOnly(f, g, some) == \A r \in Requests \ some : g[r] = f[r]
EndsWith(asked, q) == \A good, idle : q \in good => Ending(asked, good, idle)

LEMMA ScopeType ==
    ASSUME NEW w \in Views
    PROVE  Scope(w) \in Projects \X ({None} \cup Versions)
BY DEF Scope, Views

LEMMA ContentType ==
    ASSUME NEW scope \in Projects \X ({None} \cup Versions)
    PROVE  Content(scope) \in Projects \X Versions
<1>1. \A p \in Projects : Current[p] \in Versions
  BY DashboardAssumption DEF Versions
<1>2. scope[1] \in Projects /\ scope[2] \in {None} \cup Versions
  OBVIOUS
<1> QED
  BY <1>1, <1>2 DEF Content

LEMMA AskType ==
    ASSUME TypeInv, NEW w \in Views, NEW r \in Requests, NEW task \in TasksOf(r)
    PROVE  LET q == Ask(r, w, task) IN
           /\ q \in RequestsOf(r)
           /\ q.scope = Scope(w) /\ q.phase = PhaseFor(r, w) /\ q.task = task
           /\ r \in Dated /\ Content(Scope(w)) \in Contents => q.since = edits[Content(Scope(w))]
<1>1. PhaseFor(r, w) \in PhaseNames
  BY DEF PhaseFor, ChainPhase, Views, PhaseNames
<1>2. \A c \in Contents : edits[c] \in Nat
  BY DEF TypeInv
<1> QED
  BY <1>1, <1>2, ScopeType DEF Ask, RequestsOf

LEMMA FlightType ==
    ASSUME NEW f \in Flights, NEW r \in Requests
    PROVE  f[r] \in Seq(RequestsOf(r))
BY DEF Flights

LEMMA FlightChanged ==
    ASSUME NEW g, g = [r \in Requests |-> g[r]],
           \A r \in Requests : g[r] \in Seq(RequestsOf(r))
    PROVE  g \in Flights
BY DEF Flights

LEMMA SentForFits ==
    ASSUME TypeInv, NEW f \in Flights, NEW asked \in SUBSET Requests, NEW w \in Views, NEW task,
           \A r \in asked : task \in TasksOf(r)
    PROVE  LET g == SentFor(f, asked, w, task) IN
           /\ g \in Flights
           /\ MovesOnly(f, g, asked)
           /\ Keeps(f, g)
           /\ \A r \in asked : Waiting(g, r, task[1])
           /\ \A r \in asked : EndsWith(g[r], Ask(r, w, task))
<1> DEFINE g == SentFor(f, asked, w, task)
<1>1. \A r \in Requests : g[r] = IF r \in asked THEN Append(f[r], Ask(r, w, task)) ELSE f[r]
  BY DEF SentFor
<1>2. ASSUME NEW r \in asked
      PROVE  /\ g[r] \in Seq(RequestsOf(r))
             /\ EndsWith(g[r], Ask(r, w, task))
             /\ \A n \in DOMAIN f[r] : n \in DOMAIN g[r] /\ g[r][n] = f[r][n]
             /\ \E n \in DOMAIN g[r] : g[r][n] = Ask(r, w, task)
  <2>1. f[r] \in Seq(RequestsOf(r)) /\ Ask(r, w, task) \in RequestsOf(r)
    BY FlightType, AskType
  <2>2. g[r] = Append(f[r], Ask(r, w, task))
    BY <1>1
  <2> HIDE DEF g
  <2> QED
    BY <2>1, <2>2, AppendEnds DEF EndsWith
<1>3. g = [r \in Requests |-> g[r]]
  BY DEF SentFor
<1>4. \A r \in asked : Ask(r, w, task).task = task
  BY AskType
<1> HIDE DEF g
<1>5. \A r \in Requests \ asked : g[r] = f[r]
  BY <1>1
<1>6. \A r \in Requests : g[r] \in Seq(RequestsOf(r))
  BY <1>2, <1>5, FlightType
<1>7. g \in Flights
  BY <1>3, <1>6, FlightChanged
<1>8. Keeps(f, g)
  BY <1>2, <1>5 DEF Waiting, Keeps
<1>9. \A r \in asked : Waiting(g, r, task[1])
  BY <1>2, <1>4 DEF Waiting
<1> QED
  BY <1>2, <1>5, <1>7, <1>8, <1>9 DEF g, MovesOnly

\* One request that nothing waits for.
LEMMA SentFits ==
    ASSUME TypeInv, NEW f \in Flights, NEW r \in Requests, NEW w \in Views, NEW g, g = Sent(f, {r}, w)
    PROVE  /\ g \in Flights
           /\ MovesOnly(f, g, {r})
           /\ Keeps(f, g)
           /\ EndsWith(g[r], Ask(r, w, NoTask))
<1>1. {r} \in SUBSET Requests /\ \A q \in {r} : NoTask \in TasksOf(q)
  BY DEF TasksOf, Switches
<1>2. g = SentFor(f, {r}, w, NoTask)
  BY DEF Sent
<1> QED
  BY <1>1, <1>2, SentForFits

LEMMA OverlookedFits ==
    ASSUME NEW f \in Flights
    PROVE  LET g == Overlooked(f) IN
           /\ g \in Flights
           /\ MovesOnly(f, g, {"chain"})
           /\ f["chain"] = <<>> => g["chain"] = <<>>
           /\ \A good, idle : f["chain"] # <<>> => Ending(g["chain"], good, idle)
<1> DEFINE g == Overlooked(f)
<1>1. "chain" \in Requests /\ DOMAIN f = Requests
  BY DEF Requests, Flights
<1>2. g["chain"] = AllLate(f["chain"]) /\ (\A r \in Requests \ {"chain"} : g[r] = f[r]) /\ g = [r \in Requests |-> g[r]]
  BY <1>1 DEF Overlooked
<1> HIDE DEF g
<1>3. \A r \in Requests : g[r] \in Seq(RequestsOf(r))
  BY <1>1, <1>2, AllLateEnds, FlightType
<1>4. g \in Flights
  BY <1>2, <1>3, FlightChanged
<1>5. f["chain"] \in Seq(RequestsOf("chain"))
  BY <1>1, FlightType
<1>6. f["chain"] = <<>> => g["chain"] = <<>>
  BY <1>1, <1>2, <1>5, AllLateEnds
<1>7. \A good, idle : f["chain"] # <<>> => Ending(g["chain"], good, idle)
  BY <1>1, <1>2, <1>5, AllLateEnds
<1> QED
  BY <1>2, <1>4, <1>6, <1>7 DEF g, MovesOnly

LEMMA WithoutFits ==
    ASSUME TypeInv, NEW r \in Requests, NEW n \in DOMAIN flight[r]
    PROVE  LET g == Without(r, n) IN
           /\ flight[r][n] \in RequestsOf(r)
           /\ g \in Flights
           /\ MovesOnly(flight, g, {r})
           /\ \A kind : Waiting(flight, r, kind) => Waiting(g, r, kind) \/ flight[r][n].task[1] = kind
           /\ \A good, idle, after :
                 /\ Ending(flight[r], good, idle)
                 /\ flight[r][n].late \/ flight[r][n] \in good => after
                 => Ending(g[r], good, after)
<1> DEFINE g == Without(r, n)
<1>1. flight \in Flights /\ DOMAIN flight = Requests /\ flight[r] \in Seq(RequestsOf(r))
  BY FlightType DEF TypeInv, Flights
<1>2. g[r] = Answered(flight[r], n) /\ (\A q \in Requests \ {r} : g[q] = flight[q]) /\ g = [q \in Requests |-> g[q]]
  BY <1>1 DEF Without
<1> HIDE DEF g
<1>3. flight[r][n] \in RequestsOf(r) /\ g[r] \in Seq(RequestsOf(r))
  BY <1>1, <1>2, AnsweredEnds
<1>4. \A q \in Requests : g[q] \in Seq(RequestsOf(q))
  BY <1>1, <1>2, <1>3, FlightType
<1>5. g \in Flights
  BY <1>2, <1>4, FlightChanged
<1>6. ASSUME NEW m \in DOMAIN flight[r] \ {n}
      PROVE  \E k \in DOMAIN g[r] : g[r][k].task = flight[r][m].task
  <2>1. \E k \in DOMAIN Answered(flight[r], n) : Answered(flight[r], n)[k].task = flight[r][m].task
    BY <1>1, AnsweredEnds
  <2> QED
    BY <1>2, <2>1
<1>7. \A kind : Waiting(flight, r, kind) => Waiting(g, r, kind) \/ flight[r][n].task[1] = kind
  <2> SUFFICES ASSUME NEW kind, Waiting(flight, r, kind), flight[r][n].task[1] # kind
               PROVE  Waiting(g, r, kind)
    OBVIOUS
  <2>1. PICK m \in DOMAIN flight[r] : flight[r][m].task[1] = kind
    BY DEF Waiting
  <2>2. PICK k \in DOMAIN g[r] : g[r][k].task = flight[r][m].task
    BY <2>1, <1>6
  <2> QED
    BY <2>1, <2>2 DEF Waiting
<1>8. \A good, idle, after :
         /\ Ending(flight[r], good, idle)
         /\ flight[r][n].late \/ flight[r][n] \in good => after
         => Ending(g[r], good, after)
  <2> SUFFICES ASSUME NEW good, NEW idle, NEW after, Ending(flight[r], good, idle),
                      flight[r][n].late \/ flight[r][n] \in good => after
               PROVE  Ending(g[r], good, after)
    OBVIOUS
  <2> QED
    BY <1>1, <1>2, AnsweredEnds
<1> QED
  BY <1>2, <1>3, <1>5, <1>7, <1>8 DEF g, MovesOnly

-----------------------------------------------------------------------------
(***************************************************************************)
(* A panel is well when what it will show last is what the tab looks at:   *)
(* its last request asks for that, or is late, so that its answer counts   *)
(* as lost; or a switch of project under way will ask again.  The chain is *)
(* asked for again by a switch of version, if it is there.                 *)
(***************************************************************************)
Owed(f, x) == Waiting(f, "versions", "project") \/ (x # "summary" /\ Waiting(f, "summary", "project"))
ChainOwed(f, ch) == ch # None /\ \E r \in Panels : Waiting(f, r, "version")

Target(scope, phase, x, w) == Content(scope) = Content(Scope(w)) /\ phase = PhaseFor(x, w)
Wanted(x, w) == {q \in RequestsOf(x) : Target(q.scope, q.phase, x, w)}
Right(answer, x, w) == answer.content = Content(Scope(w)) /\ answer.phase = PhaseFor(x, w)

PanelWell(x, f, w, sh, lo) ==
    Owed(f, x) \/ Ending(f[x], Wanted(x, w), x \in lo \/ Right(sh[x], x, w))
ChainWell(f, w, ch, lo) ==
    ChainOwed(f, ch) \/ Ending(f["chain"], Wanted("chain", w), ch = None \/ "chain" \in lo \/ Right(ch, "chain", w))

\* The lists will be no older than the summary that is shown.
Recent(sh) == {q \in RequestsOf("lists") : q.since >= sh["summary"].edits}
ListsWell(f, sh, lo) ==
    Owed(f, "lists") \/ Ending(f["lists"], Recent(sh), "lists" \in lo \/ sh["lists"].edits >= sh["summary"].edits)

\* Two views with the same content and, for this panel, the same phase.
LEMMA SameTarget ==
    ASSUME NEW x \in Requests, NEW v, NEW w,
           Content(Scope(v)) = Content(Scope(w)), PhaseFor(x, v) = PhaseFor(x, w)
    PROVE  Wanted(x, v) = Wanted(x, w) /\ \A answer : Right(answer, x, v) = Right(answer, x, w)
BY DEF Wanted, Target, Right

LEMMA AskIsWanted ==
    ASSUME TypeInv, NEW w \in Views, NEW r \in Requests, NEW task \in TasksOf(r),
           NEW v, Content(Scope(v)) = Content(Scope(w)), PhaseFor(r, v) = PhaseFor(r, w)
    PROVE  Ask(r, w, task) \in Wanted(r, v)
BY AskType DEF Wanted, Target

LEMMA PanelNames ==
    /\ Panels \subseteq Requests /\ "versions" \in Requests \ Panels /\ "chain" \in Requests \ Panels
    /\ \A r \in Requests : NoTask \in TasksOf(r)
    /\ \A v : PhaseFor("summary", v) = None /\ PhaseFor("lists", v) = None /\ PhaseFor("coverage", v) = v.phase
    /\ \A v : PhaseFor("chain", v) = ChainPhase(v)
BY DEF Panels, Requests, TasksOf, Switches, PhaseFor

\* What is owed, and what is well, stays so while requests are only added.
LEMMA OwedStays ==
    ASSUME NEW f, NEW g, Keeps(f, g)
    PROVE  /\ \A x : Owed(f, x) => Owed(g, x)
           /\ \A ch : ChainOwed(f, ch) => ChainOwed(g, ch)
<1>1. "summary" \in Requests /\ "versions" \in Requests /\ Panels \subseteq Requests
  BY PanelNames DEF Panels
<1> QED
  BY <1>1 DEF Owed, ChainOwed, Keeps

LEMMA WithPhaseFits ==
    ASSUME TypeInv, NEW f \in Flights, NEW v \in Views, NEW w \in Views,
           Content(Scope(v)) = Content(Scope(w)), NEW sh, NEW lo
    PROVE  LET g == WithPhase(f, v, w.phase) IN
           /\ g \in Flights
           /\ MovesOnly(f, g, {"coverage"})
           /\ Keeps(f, g)
           /\ \A x \in Panels : PanelWell(x, f, v, sh, lo) => PanelWell(x, g, w, sh, lo)
<1> DEFINE g == WithPhase(f, v, w.phase)
           a == [v EXCEPT !.phase = w.phase]
<1>1. CASE w.phase = v.phase
  <2>1. g = f
    BY <1>1 DEF WithPhase
  <2>2. \A x \in Panels : PhaseFor(x, v) = PhaseFor(x, w)
    BY <1>1, PanelNames DEF Panels
  <2>3. \A x \in Panels : PanelWell(x, f, v, sh, lo) => PanelWell(x, f, w, sh, lo)
    BY <2>2, SameTarget, PanelNames DEF PanelWell
  <2> QED
    BY <2>1, <2>3 DEF MovesOnly, Keeps
<1>2. CASE w.phase # v.phase
  <2>1. g = Sent(f, {"coverage"}, a)
    BY <1>2 DEF WithPhase
  <2>2. a \in Views /\ Scope(a) = Scope(v) /\ a.phase = w.phase
    BY DEF Views, Scope
  <2> HIDE DEF a
  <2>3. "coverage" \in Requests /\ NoTask \in TasksOf("coverage")
    BY PanelNames DEF Panels
  <2> HIDE DEF g
  <2>4. g \in Flights /\ MovesOnly(f, g, {"coverage"}) /\ Keeps(f, g)
        /\ EndsWith(g["coverage"], Ask("coverage", a, NoTask))
    BY <2>1, <2>2, <2>3, SentFits
  <2>5. Ask("coverage", a, NoTask) \in Wanted("coverage", w)
    BY <2>2, <2>3, PanelNames, AskIsWanted
  <2>6. ASSUME NEW x \in Panels, PanelWell(x, f, v, sh, lo) PROVE PanelWell(x, g, w, sh, lo)
    <3>1. CASE x = "coverage"
      BY <3>1, <2>4, <2>5 DEF PanelWell, EndsWith
    <3>2. CASE x # "coverage"
      <4>1. g[x] = f[x] /\ x \in Requests /\ PhaseFor(x, v) = PhaseFor(x, w)
        BY <3>2, <2>4, PanelNames DEF Panels, MovesOnly
      <4>2. Wanted(x, v) = Wanted(x, w) /\ Right(sh[x], x, v) = Right(sh[x], x, w)
        BY <4>1, SameTarget
      <4> QED
        BY <2>4, <2>6, <4>1, <4>2, OwedStays DEF PanelWell
    <3> QED
      BY <3>1, <3>2
  <2> QED
    BY <2>4, <2>6 DEF g
<1> QED
  BY <1>1, <1>2

\* A panel that nothing was sent for, and whose target is the same, stays well.
LEMMA StaysWell ==
    ASSUME NEW f, NEW g, Keeps(f, g), NEW x \in Panels, g[x] = f[x], NEW v, NEW w,
           Content(Scope(v)) = Content(Scope(w)), PhaseFor(x, v) = PhaseFor(x, w),
           NEW sh, NEW lo, PanelWell(x, f, v, sh, lo)
    PROVE  PanelWell(x, g, w, sh, lo)
<1>1. x \in Requests
  BY PanelNames
<1> QED
  BY <1>1, SameTarget, OwedStays DEF PanelWell

LEMMA ListsStayWell ==
    ASSUME NEW f, NEW g, Keeps(f, g), g["lists"] = f["lists"], NEW sh, NEW lo, ListsWell(f, sh, lo)
    PROVE  ListsWell(g, sh, lo)
BY OwedStays DEF ListsWell

LEMMA WithTraceFits ==
    ASSUME TypeInv, NEW f \in Flights, NEW v \in Views, NEW w \in Views,
           Content(Scope(v)) = Content(Scope(w)), NEW lo
    PROVE  LET g == WithTrace(f, v, w.trace) IN
           /\ g \in Flights
           /\ MovesOnly(f, g, {"chain"})
           /\ Keeps(f, g)
           /\ ChainWell(f, v, chain, lo) => ChainWell(g, w, chain, lo)
<1> DEFINE g == WithTrace(f, v, w.trace)
           a == [v EXCEPT !.trace = w.trace]
<1>1. "chain" \in Requests /\ NoTask \in TasksOf("chain")
  BY PanelNames
<1>2. a \in Views /\ Scope(a) = Scope(v) /\ ChainPhase(a) = ChainPhase(w)
  BY DEF Views, Scope, ChainPhase
<1>3. CASE w.trace = v.trace
  <2>1. g = f
    BY <1>3 DEF WithTrace
  <2>2. PhaseFor("chain", v) = PhaseFor("chain", w)
    BY <1>3, PanelNames DEF ChainPhase
  <2>3. ChainWell(f, v, chain, lo) => ChainWell(f, w, chain, lo)
    BY <1>1, <2>2, SameTarget DEF ChainWell
  <2> QED
    BY <2>1, <2>3 DEF MovesOnly, Keeps
<1>4. CASE w.trace # v.trace /\ chain # None /\ chain.phase # ChainPhase(a)
  <2>1. g = Sent(f, {"chain"}, a)
    BY <1>4 DEF WithTrace
  <2> HIDE DEF a, g
  <2>2. g \in Flights /\ MovesOnly(f, g, {"chain"}) /\ Keeps(f, g) /\ EndsWith(g["chain"], Ask("chain", a, NoTask))
    BY <1>1, <1>2, <2>1, SentFits
  <2>3. Ask("chain", a, NoTask) \in Wanted("chain", w)
    BY <1>1, <1>2, PanelNames, AskIsWanted
  <2>4. ChainWell(g, w, chain, lo)
    BY <2>2, <2>3 DEF ChainWell, EndsWith
  <2> QED
    BY <2>2, <2>4 DEF g
<1>5. CASE w.trace # v.trace /\ ~(chain # None /\ chain.phase # ChainPhase(a))
  <2>1. g = Overlooked(f)
    BY <1>5 DEF WithTrace
  <2> HIDE DEF a, g
  <2>2. /\ g \in Flights /\ MovesOnly(f, g, {"chain"})
        /\ f["chain"] = <<>> => g["chain"] = <<>>
    BY <2>1, OverlookedFits
  <2>3. f["chain"] # <<>> => \A good, idle : Ending(g["chain"], good, idle)
    BY <2>1, OverlookedFits
  <2>4. Keeps(f, g)
    <3> SUFFICES ASSUME NEW r \in Requests, NEW kind, Waiting(f, r, kind) PROVE Waiting(g, r, kind)
      BY DEF Keeps
    <3>1. CASE r # "chain"
      BY <3>1, <2>2 DEF MovesOnly, Waiting
    <3>2. CASE r = "chain"
      <4>1. f["chain"] \in Seq(RequestsOf("chain")) /\ g["chain"] = AllLate(f["chain"])
        BY <1>1, <2>1, FlightType DEF Overlooked, Flights
      <4>2. PICK n \in DOMAIN f["chain"] : f["chain"][n].task[1] = kind
        BY <3>2 DEF Waiting
      <4>3. n \in DOMAIN g["chain"] /\ g["chain"][n].task = f["chain"][n].task
        BY <1>1, <4>1, <4>2, AllLateEnds
      <4> QED
        BY <3>2, <4>2, <4>3 DEF Waiting
    <3> QED
      BY <3>1, <3>2
  <2>5. ASSUME ChainWell(f, v, chain, lo) PROVE ChainWell(g, w, chain, lo)
    <3>1. CASE ChainOwed(f, chain)
      BY <3>1, <2>4, OwedStays DEF ChainWell
    <3>2. CASE f["chain"] # <<>>
      BY <3>2, <2>3 DEF ChainWell
    <3>3. CASE ~ChainOwed(f, chain) /\ f["chain"] = <<>>
      <4>1. chain = None \/ "chain" \in lo \/ Right(chain, "chain", v)
        BY <2>5, <3>3 DEF ChainWell, Ending
      <4>2. Right(chain, "chain", v) /\ chain # None => Right(chain, "chain", w)
        BY <1>2, <1>5, PanelNames DEF Right
      <4> QED
        BY <2>2, <3>3, <4>1, <4>2 DEF ChainWell, Ending
    <3> QED
      BY <3>1, <3>2, <3>3
  <2> QED
    BY <2>2, <2>4, <2>5 DEF g
<1> QED
  BY <1>3, <1>4, <1>5

\* The watchers leave well what was well, for the view they see.
LEMMA WatchedFits ==
    ASSUME TypeInv, NEW f \in Flights, NEW w \in Views, Content(Scope(view)) = Content(Scope(w)),
           NEW sh, NEW lo
    PROVE  LET g == Watched(f, w) IN
           /\ g \in Flights
           /\ MovesOnly(f, g, {"coverage", "chain"})
           /\ Keeps(f, g)
           /\ \A x \in Panels : PanelWell(x, f, view, sh, lo) => PanelWell(x, g, w, sh, lo)
           /\ ChainWell(f, view, chain, lo) => ChainWell(g, w, chain, lo)
<1> DEFINE h == WithPhase(f, view, w.phase)
           g == Watched(f, w)
<1>1. g = WithTrace(h, view, w.trace) /\ view \in Views
  BY DEF Watched, TypeInv
<1>2. h \in Flights /\ MovesOnly(f, h, {"coverage"}) /\ Keeps(f, h)
  BY <1>1, WithPhaseFits
<1>3. \A x \in Panels : PanelWell(x, f, view, sh, lo) => PanelWell(x, h, w, sh, lo)
  BY <1>1, WithPhaseFits
<1> HIDE DEF h, g
<1>4. g \in Flights /\ MovesOnly(h, g, {"chain"}) /\ Keeps(h, g)
  BY <1>1, <1>2, WithTraceFits
<1>5. ChainWell(h, view, chain, lo) => ChainWell(g, w, chain, lo)
  BY <1>1, <1>2, WithTraceFits
<1>6. Keeps(f, g) /\ MovesOnly(f, g, {"coverage", "chain"})
  BY <1>2, <1>4 DEF Keeps, MovesOnly
<1>7. ASSUME NEW x \in Panels, PanelWell(x, f, view, sh, lo) PROVE PanelWell(x, g, w, sh, lo)
  <2>1. PanelWell(x, h, w, sh, lo) /\ g[x] = h[x]
    BY <1>3, <1>4, <1>7, PanelNames DEF MovesOnly
  <2> QED
    BY <1>4, <2>1, StaysWell
<1>8. ASSUME ChainWell(f, view, chain, lo) PROVE ChainWell(h, view, chain, lo)
  <2>1. h["chain"] = f["chain"]
    BY <1>2, PanelNames DEF MovesOnly
  <2> QED
    BY <1>2, <1>8, <2>1, OwedStays DEF ChainWell
<1> QED
  BY <1>4, <1>5, <1>6, <1>7, <1>8 DEF g

-----------------------------------------------------------------------------
(***************************************************************************)
(* What waits for an answer pays what it owes when it goes on.             *)
(***************************************************************************)
Pays(r, task, x) == task[1] = "project" /\ (r = "versions" \/ (r = "summary" /\ x # "summary"))

\* The summary shown is one of what the tab looks at.
SummaryInView(sh, w) ==
    /\ sh["summary"].content = Content(Scope(w)) /\ Content(Scope(w)) \in Contents
    /\ sh["summary"].edits <= edits[Content(Scope(w))]

LEMMA TaskKinds ==
    ASSUME NEW r \in Requests, NEW task \in TasksOf(r)
    PROVE  /\ task = NoTask \/ task[1] = "project" \/ (task[1] = "version" /\ r \in Panels)
           /\ NoTask[1] = "none"
           /\ r = "chain" => task = NoTask
BY DEF Requests, Panels, TasksOf, Switches, NoTask

\* What was well in the flight f is so in g.
AsWell(f, g, w, sh, lo, ch) ==
    /\ \A x \in Panels : PanelWell(x, f, w, sh, lo) => PanelWell(x, g, w, sh, lo)
    /\ ChainWell(f, w, ch, lo) => ChainWell(g, w, ch, lo)

\* Panels that were asked for what the tab looks at are well, and the rest stay so.
LEMMA AskedForFits ==
    ASSUME TypeInv, NEW f \in Flights, NEW asked \in SUBSET Panels, NEW w \in Views, NEW task,
           \A r \in asked : task \in TasksOf(r), NEW sh, NEW lo, NEW ch,
           NEW g, g = SentFor(f, asked, w, task)
    PROVE  /\ g \in Flights /\ Keeps(f, g) /\ \A r \in asked : Waiting(g, r, task[1])
           /\ \A x \in asked : PanelWell(x, g, w, sh, lo)
           /\ AsWell(f, g, w, sh, lo, ch)
           /\ "lists" \notin asked /\ ListsWell(f, sh, lo) => ListsWell(g, sh, lo)
           /\ "lists" \in asked /\ SummaryInView(sh, w) => ListsWell(g, sh, lo)
<1>1. asked \in SUBSET Requests
  BY PanelNames
<1>2. g \in Flights /\ MovesOnly(f, g, asked) /\ Keeps(f, g) /\ \A r \in asked : Waiting(g, r, task[1])
  BY <1>1, SentForFits
<1>3. \A r \in asked : EndsWith(g[r], Ask(r, w, task))
  BY <1>1, SentForFits
<1>4. ASSUME NEW x \in asked PROVE PanelWell(x, g, w, sh, lo)
  <2>1. Ask(x, w, task) \in Wanted(x, w)
    BY <1>1, AskIsWanted
  <2> QED
    BY <1>3, <2>1 DEF PanelWell, EndsWith
<1>5. ASSUME NEW x \in Panels, PanelWell(x, f, w, sh, lo) PROVE PanelWell(x, g, w, sh, lo)
  <2>1. CASE x \in asked
    BY <2>1, <1>4
  <2>2. CASE x \notin asked
    <3>1. g[x] = f[x]
      BY <2>2, <1>2, PanelNames DEF MovesOnly
    <3> QED
      BY <3>1, <1>2, <1>5, StaysWell
  <2> QED
    BY <2>1, <2>2
<1>6. ASSUME ChainWell(f, w, ch, lo) PROVE ChainWell(g, w, ch, lo)
  <2>1. g["chain"] = f["chain"]
    BY <1>2, PanelNames DEF MovesOnly
  <2> QED
    BY <1>2, <1>6, <2>1, OwedStays DEF ChainWell
<1>7. ASSUME "lists" \notin asked, ListsWell(f, sh, lo) PROVE ListsWell(g, sh, lo)
  <2>1. g["lists"] = f["lists"]
    BY <1>2, <1>7, PanelNames DEF MovesOnly, Panels
  <2> QED
    BY <1>2, <1>7, <2>1, ListsStayWell
<1>8. ASSUME "lists" \in asked, SummaryInView(sh, w) PROVE ListsWell(g, sh, lo)
  <2>1. /\ Ask("lists", w, task) \in RequestsOf("lists")
        /\ Ask("lists", w, task).since = edits[Content(Scope(w))]
    BY <1>1, <1>8, AskType DEF SummaryInView, Dated
  <2>2. edits[Content(Scope(w))] \in Nat
    BY <1>8 DEF SummaryInView, TypeInv
  <2>3. Ask("lists", w, task) \in Recent(sh)
    BY <1>8, <2>1, <2>2 DEF Recent, SummaryInView
  <2> QED
    BY <1>3, <1>8, <2>3 DEF ListsWell, EndsWith
<1> QED
  BY <1>2, <1>4, <1>5, <1>6, <1>7, <1>8 DEF AsWell

\* The chain, asked for in the view w.
LEMMA ChainAskedFits ==
    ASSUME TypeInv, NEW f \in Flights, NEW w \in Views, NEW sh, NEW lo, NEW ch,
           NEW g, g = Sent(f, {"chain"}, w)
    PROVE  /\ g \in Flights /\ Keeps(f, g)
           /\ AsWell(f, g, w, sh, lo, ch) /\ ChainWell(g, w, ch, lo)
           /\ ListsWell(f, sh, lo) => ListsWell(g, sh, lo)
<1>1. "chain" \in Requests /\ NoTask \in TasksOf("chain")
  BY PanelNames
<1>2. g \in Flights /\ MovesOnly(f, g, {"chain"}) /\ Keeps(f, g) /\ EndsWith(g["chain"], Ask("chain", w, NoTask))
  BY <1>1, SentFits
<1>3. Ask("chain", w, NoTask) \in Wanted("chain", w)
  BY <1>1, AskIsWanted
<1>4. ChainWell(g, w, ch, lo)
  BY <1>2, <1>3 DEF ChainWell, EndsWith
<1>5. \A x \in Panels : g[x] = f[x]
  BY <1>2, PanelNames DEF MovesOnly
<1>6. \A x \in Panels : PanelWell(x, f, w, sh, lo) => PanelWell(x, g, w, sh, lo)
  BY <1>2, <1>5, StaysWell
<1>7. ListsWell(f, sh, lo) => ListsWell(g, sh, lo)
  BY <1>2, <1>5, ListsStayWell DEF Panels
<1> QED
  BY <1>2, <1>4, <1>6, <1>7 DEF AsWell

LEMMA GoesOnFits ==
    ASSUME TypeInv, NEW f \in Flights, NEW r \in Requests, NEW task \in TasksOf(r), NEW w \in Views,
           NEW sh, NEW lo
    PROVE  LET g == GoesOn(f, r, task, w) IN
           /\ g \in Flights
           /\ \A x \in Panels : PanelWell(x, f, w, sh, lo) \/ Pays(r, task, x) => PanelWell(x, g, w, sh, lo)
           /\ ChainWell(f, w, chain, lo) \/ (task[1] = "version" /\ chain # None) => ChainWell(g, w, chain, lo)
           /\ SummaryInView(sh, w) /\ (ListsWell(f, sh, lo) \/ Pays(r, task, "lists")) => ListsWell(g, sh, lo)
<1> DEFINE g == GoesOn(f, r, task, w)
<1>1. CASE task = NoTask
  <2>1. g = f /\ task[1] = "none"
    BY <1>1, TaskKinds DEF GoesOn
  <2> QED
    BY <2>1 DEF Pays
<1>2. CASE task[1] = "project" /\ r = "versions"
  <2>1. g = SentFor(f, {"summary"}, w, task)
    BY <1>2, TaskKinds DEF GoesOn
  <2>2. {"summary"} \in SUBSET Panels /\ \A q \in {"summary"} : task \in TasksOf(q)
    BY <1>2 DEF Panels, TasksOf, Switches
  <2> HIDE DEF g
  <2>3. /\ g \in Flights /\ \A q \in {"summary"} : Waiting(g, q, task[1])
        /\ \A x \in {"summary"} : PanelWell(x, g, w, sh, lo)
        /\ AsWell(f, g, w, sh, lo, chain)
    BY <2>1, <2>2, AskedForFits
  <2>4. Waiting(g, "summary", "project")
    BY <1>2, <2>3
  <2>5. \A x \in Panels : PanelWell(x, g, w, sh, lo)
    BY <2>3, <2>4 DEF PanelWell, Owed
  <2>6. ListsWell(g, sh, lo)
    BY <2>4 DEF ListsWell, Owed
  <2> QED
    BY <1>2, <2>3, <2>5, <2>6 DEF g, AsWell
<1>3. CASE task[1] = "project" /\ r = "summary"
  <2> DEFINE both == {"lists", "coverage"}
  <2>1. g = SentFor(f, both, w, task)
    BY <1>3, TaskKinds DEF GoesOn
  <2>2. both \in SUBSET Panels /\ (\A q \in both : task \in TasksOf(q)) /\ "lists" \in both
    BY <1>3 DEF Panels, TasksOf, Switches
  <2>3. \A x \in Panels : x \in both \/ x = "summary"
    BY DEF Panels
  <2> HIDE DEF g, both
  <2>4. /\ g \in Flights
        /\ \A x \in both : PanelWell(x, g, w, sh, lo)
        /\ AsWell(f, g, w, sh, lo, chain)
        /\ SummaryInView(sh, w) => ListsWell(g, sh, lo)
    BY <2>1, <2>2, AskedForFits
  <2>5. \A x \in Panels : PanelWell(x, f, w, sh, lo) \/ Pays(r, task, x) => PanelWell(x, g, w, sh, lo)
    BY <1>3, <2>3, <2>4 DEF AsWell, Pays
  <2> QED
    BY <1>3, <2>4, <2>5 DEF g, AsWell
<1>4. CASE task # NoTask /\ r \notin {"versions"} /\ ~(task[1] = "project" /\ r = "summary")
  <2>1. \A x : ~Pays(r, task, x)
    BY <1>4 DEF Pays
  <2>2. r \in Panels /\ task[1] \in {"project", "version"} /\ (task[1] = "project" => r \in {"lists", "coverage"})
    BY <1>4, TaskKinds DEF Panels, Requests
  <2>3. g = f \/ g = Sent(f, {"chain"}, w)
    BY <1>4, <2>2, TaskKinds DEF GoesOn
  <2>4. /\ g \in Flights /\ AsWell(f, g, w, sh, lo, chain)
        /\ ListsWell(f, sh, lo) => ListsWell(g, sh, lo)
    <3>1. CASE g = f
      BY <3>1 DEF AsWell
    <3>2. CASE g = Sent(f, {"chain"}, w)
      <4> HIDE DEF g
      <4> QED
        BY <3>2, ChainAskedFits
    <3> QED
      BY <2>3, <3>1, <3>2
  <2>5. ASSUME task[1] = "version", chain # None PROVE ChainWell(g, w, chain, lo)
    <3>1. CASE Awaited(f, task)
      <4>1. PICK q \in Requests : \E n \in DOMAIN f[q] : f[q][n].task = task
        BY <3>1 DEF Awaited
      <4>2. PICK n \in DOMAIN f[q] : f[q][n].task = task
        BY <4>1
      <4>3. f[q][n] \in RequestsOf(q)
        BY FlightType, LenProperties, ElementOfSeq
      <4>4. q \in Panels
        BY <1>4, <2>5, <4>2, <4>3, TaskKinds DEF RequestsOf
      <4>5. ChainOwed(f, chain)
        BY <2>5, <4>2, <4>4 DEF ChainOwed, Waiting
      <4>6. g = f
        BY <1>4, <2>5, <3>1 DEF GoesOn
      <4> QED
        BY <4>5, <4>6 DEF ChainWell
    <3>2. CASE ~Awaited(f, task)
      <4>1. g = Sent(f, {"chain"}, w)
        BY <1>4, <2>5, <3>2 DEF GoesOn
      <4> HIDE DEF g
      <4> QED
        BY <4>1, ChainAskedFits
    <3> QED
      BY <3>1, <3>2
  <2> QED
    BY <2>1, <2>4, <2>5 DEF AsWell
<1>5. r = "versions" => task = NoTask \/ task[1] = "project"
  BY TaskKinds DEF Panels
<1> QED
  BY <1>1, <1>2, <1>3, <1>4, <1>5

-----------------------------------------------------------------------------
(***************************************************************************)
(* An answer, or the failure of a request: sh and lo are what the panels   *)
(* show and what is lost after it.                                         *)
(***************************************************************************)
Taken(r, req, sh, lo) ==
    /\ \A x \in Panels \ {r} : sh[x] = shown[x]
    /\ lost \ {r} \subseteq lo
    /\ req.late => r \in lo
    /\ r \in Panels => \/ r \in lo
                       \/ /\ sh[r].content = Content(req.scope)
                          /\ sh[r].phase = req.phase
                          /\ r = "lists" => sh[r].edits >= req.since
    /\ r = "chain" => r \in lo

LEMMA TakenFits ==
    ASSUME TypeInv, NEW r \in Requests, NEW n \in DOMAIN flight[r], NEW w, NEW sh, NEW lo,
           Taken(r, flight[r][n], sh, lo), sh["lists"].edits \in Nat, sh["summary"].edits \in Nat
    PROVE  LET g == Without(r, n)
               task == flight[r][n].task
           IN  /\ \A x \in Panels :
                     PanelWell(x, flight, w, shown, lost) => PanelWell(x, g, w, sh, lo) \/ Pays(r, task, x)
               /\ ChainWell(flight, w, chain, lost)
                     => ChainWell(g, w, chain, lo) \/ (task[1] = "version" /\ chain # None)
               /\ ListsWell(flight, shown, lost) /\ sh["summary"] = shown["summary"]
                     => ListsWell(g, sh, lo) \/ Pays(r, task, "lists")
<1> DEFINE g == Without(r, n)
           req == flight[r][n]
<1>1. /\ req \in RequestsOf(r) /\ MovesOnly(flight, g, {r})
      /\ \A kind : Waiting(flight, r, kind) => Waiting(g, r, kind) \/ req.task[1] = kind
  BY WithoutFits
<1>2. \A good, idle, after :
         /\ Ending(flight[r], good, idle)
         /\ req.late \/ req \in good => after
         => Ending(g[r], good, after)
  BY WithoutFits
<1> HIDE DEF g
<1>3. ASSUME NEW q \in Requests, NEW kind, Waiting(flight, q, kind), ~(q = r /\ req.task[1] = kind)
      PROVE  Waiting(g, q, kind)
  BY <1>1, <1>3 DEF MovesOnly, Waiting
<1>4. ASSUME NEW x, Owed(flight, x) PROVE Owed(g, x) \/ Pays(r, req.task, x)
  <2>1. "versions" \in Requests /\ "summary" \in Requests
    BY DEF Requests, Panels
  <2> QED
    BY <1>3, <1>4, <2>1 DEF Owed, Pays
<1>5. ASSUME ChainOwed(flight, chain) PROVE ChainOwed(g, chain) \/ (req.task[1] = "version" /\ chain # None)
  BY <1>3, <1>5, PanelNames DEF ChainOwed
<1>6. ASSUME NEW x \in Panels, PanelWell(x, flight, w, shown, lost), ~Owed(flight, x)
      PROVE  PanelWell(x, g, w, sh, lo)
  <2>1. Ending(flight[x], Wanted(x, w), x \in lost \/ Right(shown[x], x, w))
    BY <1>6 DEF PanelWell
  <2>2. CASE x = r
    <3>1. req.late \/ req \in Wanted(x, w) => x \in lo \/ Right(sh[x], x, w)
      BY <2>2 DEF Taken, Wanted, Target, Right
    <3> QED
      BY <1>2, <2>1, <2>2, <3>1 DEF PanelWell
  <2>3. CASE x # r
    <3>1. g[x] = flight[x] /\ sh[x] = shown[x] /\ (x \in lost => x \in lo)
      BY <1>1, <2>3, PanelNames DEF MovesOnly, Taken
    <3> QED
      BY <2>1, <3>1 DEF PanelWell, Ending
  <2> QED
    BY <2>2, <2>3
<1>7. ASSUME ChainWell(flight, w, chain, lost), ~ChainOwed(flight, chain) PROVE ChainWell(g, w, chain, lo)
  <2>1. Ending(flight["chain"], Wanted("chain", w), chain = None \/ "chain" \in lost \/ Right(chain, "chain", w))
    BY <1>7 DEF ChainWell
  <2>2. CASE r = "chain"
    BY <1>2, <2>1, <2>2 DEF ChainWell, Taken
  <2>3. CASE r # "chain"
    <3>1. g["chain"] = flight["chain"] /\ ("chain" \in lost => "chain" \in lo)
      BY <1>1, <2>3, PanelNames DEF MovesOnly, Taken
    <3> QED
      BY <2>1, <3>1 DEF ChainWell, Ending
  <2> QED
    BY <2>2, <2>3
<1>8. ASSUME ListsWell(flight, shown, lost), sh["summary"] = shown["summary"], ~Owed(flight, "lists")
      PROVE  ListsWell(g, sh, lo)
  <2>1. /\ Ending(flight["lists"], Recent(shown), "lists" \in lost \/ shown["lists"].edits >= shown["summary"].edits)
        /\ Recent(sh) = Recent(shown)
    BY <1>8 DEF ListsWell, Recent
  <2>2. CASE r = "lists"
    <3>1. req \in Recent(sh) => req.since >= sh["summary"].edits /\ req.since \in Nat
      BY DEF Recent, RequestsOf
    <3>2. req.late \/ req \in Recent(sh) => "lists" \in lo \/ sh["lists"].edits >= sh["summary"].edits
      BY <2>2, <3>1 DEF Taken, Panels
    <3> QED
      BY <1>2, <2>1, <2>2, <3>2 DEF ListsWell
  <2>3. CASE r # "lists"
    <3>1. g["lists"] = flight["lists"] /\ sh["lists"] = shown["lists"] /\ ("lists" \in lost => "lists" \in lo)
      BY <1>1, <2>3, PanelNames DEF MovesOnly, Taken, Panels
    <3> QED
      BY <1>8, <2>1, <3>1 DEF ListsWell, Ending
  <2> QED
    BY <2>2, <2>3
<1> QED
  BY <1>4, <1>5, <1>6, <1>7, <1>8 DEF PanelWell, ChainWell, ListsWell, g

LEMMA AnswerPreserves ==
    ASSUME TypeInv, NEW r \in Requests, NEW n \in DOMAIN flight[r], NEW w \in Views,
           Content(Scope(view)) = Content(Scope(w)), NEW sh, NEW lo,
           Taken(r, flight[r][n], sh, lo), sh["lists"].edits \in Nat, sh["summary"].edits \in Nat
    PROVE  LET task == flight[r][n].task
               g == GoesOn(Watched(Without(r, n), w), r, task, w)
           IN  /\ g \in Flights
               /\ \A x \in Panels : PanelWell(x, flight, view, shown, lost) => PanelWell(x, g, w, sh, lo)
               /\ ChainWell(flight, view, chain, lost) => ChainWell(g, w, chain, lo)
               /\ /\ SummaryInView(sh, w)
                  /\ \/ ListsWell(flight, shown, lost) /\ sh["summary"] = shown["summary"]
                     \/ Pays(r, task, "lists")
                  => ListsWell(g, sh, lo)
<1> DEFINE f1 == Without(r, n)
           f2 == Watched(f1, w)
           task == flight[r][n].task
           g == GoesOn(f2, r, task, w)
<1>1. f1 \in Flights /\ task \in TasksOf(r)
  BY WithoutFits DEF RequestsOf
<1>2. \A x \in Panels : PanelWell(x, flight, view, shown, lost) => PanelWell(x, f1, view, sh, lo) \/ Pays(r, task, x)
  BY TakenFits
<1>3. ChainWell(flight, view, chain, lost) => ChainWell(f1, view, chain, lo) \/ (task[1] = "version" /\ chain # None)
  BY TakenFits
<1>4. ListsWell(flight, shown, lost) /\ sh["summary"] = shown["summary"] => ListsWell(f1, sh, lo) \/ Pays(r, task, "lists")
  BY TakenFits
<1> HIDE DEF f1, task
<1>5. f2 \in Flights /\ Keeps(f1, f2) /\ MovesOnly(f1, f2, {"coverage", "chain"})
  BY <1>1, WatchedFits
<1>6. \A x \in Panels : PanelWell(x, f1, view, sh, lo) => PanelWell(x, f2, w, sh, lo)
  BY <1>1, WatchedFits
<1>7. ChainWell(f1, view, chain, lo) => ChainWell(f2, w, chain, lo)
  BY <1>1, WatchedFits
<1> HIDE DEF f2
<1>8. ListsWell(f1, sh, lo) => ListsWell(f2, sh, lo)
  <2>1. f2["lists"] = f1["lists"]
    BY <1>5 DEF MovesOnly, Requests, Panels
  <2> QED
    BY <1>5, <2>1, ListsStayWell
<1>9. g \in Flights
  BY <1>1, <1>5, GoesOnFits
<1>10. \A x \in Panels : PanelWell(x, f2, w, sh, lo) \/ Pays(r, task, x) => PanelWell(x, g, w, sh, lo)
  BY <1>1, <1>5, GoesOnFits
<1>11. ChainWell(f2, w, chain, lo) \/ (task[1] = "version" /\ chain # None) => ChainWell(g, w, chain, lo)
  BY <1>1, <1>5, GoesOnFits
<1>12. SummaryInView(sh, w) /\ (ListsWell(f2, sh, lo) \/ Pays(r, task, "lists")) => ListsWell(g, sh, lo)
  BY <1>1, <1>5, GoesOnFits
<1> HIDE DEF g
<1>13. \A x \in Panels : PanelWell(x, flight, view, shown, lost) => PanelWell(x, g, w, sh, lo)
  BY <1>2, <1>6, <1>10
<1>14. ChainWell(flight, view, chain, lost) => ChainWell(g, w, chain, lo)
  BY <1>3, <1>7, <1>11
<1>15. /\ SummaryInView(sh, w)
       /\ \/ ListsWell(flight, shown, lost) /\ sh["summary"] = shown["summary"]
          \/ Pays(r, task, "lists")
       => ListsWell(g, sh, lo)
  BY <1>4, <1>8, <1>12
<1> QED
  BY <1>9, <1>13, <1>14, <1>15 DEF g, f2, f1, task

-----------------------------------------------------------------------------
(***************************************************************************)
(* The invariant.  While the tab knows the versions of the project it      *)
(* looks at, or none, every panel and the chain are well; while no reload  *)
(* of the summary alone took a change for itself, and the summary is of    *)
(* what the tab looks at, so are the lists.                                *)
(***************************************************************************)
VersionFits(w) ==
    \/ w.versions = {} /\ w.version = None
    \/ w.versions = VersionsOf[w.project] /\ w.version \in VersionsOf[w.project]

PhaseFits(w) ==
    /\ w.phase \in {None} \cup PhasesOf[w.project]
    /\ w.trace \in {None, All} \cup PhasesOf[w.project]

Well(f, w, sh, ch, lo) ==
    /\ VersionFits(w)
    /\ \A x \in Panels : PanelWell(x, f, w, sh, lo)
    /\ ChainWell(f, w, ch, lo)

FollowInv == "versions" \notin crossed => Well(flight, view, shown, chain, lost)
RecentInv ==
    "versions" \notin crossed /\ ~swallowed /\ shown["summary"].content = Content(Scope(view))
        => ListsWell(flight, shown, lost)
PhaseInv == "phase" \notin crossed => PhaseFits(view)

Inv == TypeInv /\ FollowInv /\ RecentInv /\ PhaseInv

LEMMA InvImplies == Inv => PanelsFollow /\ ListsKeepUp
<1> SUFFICES ASSUME Inv, Settled PROVE PanelsFollow /\ (~swallowed => shown["lists"].edits >= shown["summary"].edits)
  BY DEF PanelsFollow, ListsKeepUp
<1>1. Well(flight, view, shown, chain, {}) /\ lost = {} /\ \A r \in Requests : flight[r] = <<>>
  BY DEF Inv, FollowInv, Settled, Quiet
<1>2. \A r \in Requests : \A kind : ~Waiting(flight, r, kind)
  BY <1>1, EmptySeq DEF Waiting
<1>3. \A x \in Panels : Right(shown[x], x, view)
  <2> TAKE x \in Panels
  <2>1. ~Owed(flight, x) /\ flight[x] = <<>>
    BY <1>1, <1>2, PanelNames DEF Owed, Panels
  <2> QED
    BY <1>1, <2>1 DEF Well, PanelWell, Ending
<1>4. chain = None \/ Right(chain, "chain", view)
  <2>1. ~ChainOwed(flight, chain) /\ flight["chain"] = <<>>
    BY <1>1, <1>2, PanelNames DEF ChainOwed
  <2> QED
    BY <1>1, <2>1 DEF Well, ChainWell, Ending
<1>5. \A x \in Panels : shown[x].content = Content(Scope(view))
  BY <1>3 DEF Right
<1>6. PanelsFollow
  BY <1>3, <1>4, <1>5, PanelNames DEF PanelsFollow, Right, Panels, Inv, PhaseInv, PhaseFits
<1>7. ASSUME ~swallowed PROVE shown["lists"].edits >= shown["summary"].edits
  <2>1. ListsWell(flight, shown, lost)
    BY <1>5, <1>7 DEF Inv, RecentInv, Settled, Panels
  <2>2. ~Owed(flight, "lists") /\ flight["lists"] = <<>>
    BY <1>1, <1>2, PanelNames DEF Owed, Panels
  <2> QED
    BY <1>1, <2>1, <2>2 DEF ListsWell, Ending
<1> QED
  BY <1>6, <1>7

LEMMA ProjectNames ==
    ASSUME NEW p \in Projects
    PROVE  /\ Current[p] \in VersionsOf[p] /\ Current[p] \in Versions /\ VersionsOf[p] \subseteq Versions
           /\ ActivePhase[p] \in {None} \cup PhasesOf[p] /\ PhasesOf[p] \subseteq PhaseNames
           /\ ActivePhase[p] \in PhaseNames /\ None \notin PhasesOf[p] /\ None \notin Versions
BY DashboardAssumption DEF Versions, PhaseNames

LEMMA InitInv == Init => Inv
<1> SUFFICES ASSUME Init PROVE Inv
  OBVIOUS
<1>1. /\ First \in Projects /\ view.project = First /\ view.version = Current[First]
      /\ view.versions = VersionsOf[First]
      /\ view.phase = ActivePhase[First] /\ view.trace = ActivePhase[First] /\ view.tab = "other"
      /\ view \in Views
  BY ProjectNames, DashboardAssumption DEF Init, Views
<1>2. Scope(view) \in Projects \X ({None} \cup Versions) /\ Content(Scope(view)) \in Contents
  BY <1>1, ScopeType, ProjectNames DEF Scope, Content, Contents
<1>3. \A x \in Panels : /\ shown[x].content = Content(Scope(view)) /\ shown[x].edits = 0
                        /\ shown[x].phase = IF x = "coverage" THEN view.phase ELSE None
                        /\ shown[x] \in Answers
  <2>1. None \in PhaseNames /\ view.phase \in PhaseNames /\ 0 \in Nat
    BY <1>1, ProjectNames DEF PhaseNames
  <2>2. Content(Scope(view)) \in Projects \X Versions
    BY <1>2, ContentType
  <2>3. \A x \in Panels : shown[x] = Answer(Scope(view), IF x = "coverage" THEN view.phase ELSE None, 0)
    BY DEF Init
  <2>4. ASSUME NEW phase \in PhaseNames PROVE Answer(Scope(view), phase, 0) \in Answers
    BY <2>2, <2>4, 0 \in Nat DEF Answer, Answers
  <2>5. \A x \in Panels : shown[x] \in Answers
    BY <2>1, <2>3, <2>4
  <2>6. \A x \in Panels : /\ shown[x].content = Content(Scope(view)) /\ shown[x].edits = 0
                          /\ shown[x].phase = IF x = "coverage" THEN view.phase ELSE None
    <3>1. \A scope, phase, n : /\ Answer(scope, phase, n).content = Content(scope)
                              /\ Answer(scope, phase, n).phase = phase /\ Answer(scope, phase, n).edits = n
      BY DEF Answer
    <3> QED
      BY <2>3, <3>1
  <2> QED
    BY <2>5, <2>6
<1>4. flight = [r \in Requests |-> <<>>] /\ edits = [c \in Contents |-> 0] /\ chain = None /\ events = 0
      /\ stream = Scope(view)
  BY DEF Init
<1>5. flight \in Flights
  <2>1. \A r \in Requests : flight[r] = <<>> /\ flight[r] \in Seq(RequestsOf(r))
    BY <1>4, EmptySeq
  <2>2. flight = [r \in Requests |-> flight[r]]
    BY <1>4, <2>1
  <2> QED
    BY <2>1, <2>2, FlightChanged
<1>6. TypeInv
  <2>1. shown \in [Panels -> Answers]
    BY <1>3 DEF Init
  <2>2. edits \in [Contents -> Nat] /\ \A c \in Contents : edits[c] = 0
    BY <1>4
  <2>3. \A x \in Panels : Shown(shown[x])
    BY <1>2, <1>3, <2>2 DEF Shown
  <2> QED
    BY <1>1, <1>2, <1>4, <1>5, <2>1, <2>2, <2>3 DEF TypeInv
<1>7. \A x \in Panels : PanelWell(x, flight, view, shown, lost)
  <2> TAKE x \in Panels
  <2>1. flight[x] = <<>>
    BY <1>4, PanelNames
  <2>2. Right(shown[x], x, view)
    BY <1>3, PanelNames DEF Right, Panels
  <2> QED
    BY <2>1, <2>2 DEF PanelWell, Ending
<1>8. ChainWell(flight, view, chain, lost)
  BY <1>4, PanelNames DEF ChainWell, Ending
<1>9. ListsWell(flight, shown, lost)
  <2>1. flight["lists"] = <<>> /\ shown["lists"].edits = 0 /\ shown["summary"].edits = 0
    BY <1>3, <1>4, PanelNames DEF Panels
  <2> QED
    BY <2>1 DEF ListsWell, Ending
<1>10. VersionFits(view) /\ PhaseFits(view)
  BY <1>1, ProjectNames DEF VersionFits, PhaseFits
<1> QED
  BY <1>6, <1>7, <1>8, <1>9, <1>10 DEF Inv, FollowInv, RecentInv, PhaseInv, Well

-----------------------------------------------------------------------------
(***************************************************************************)
(* The user's moves and the writes of others.                              *)
(***************************************************************************)
\* A write: what is shown is no younger than before, compared to what is there.
LEMMA EditsGrow ==
    ASSUME TypeInv, NEW c \in Contents, edits' = [edits EXCEPT ![c] = @ + 1], shown' = shown
    PROVE  /\ edits' \in [Contents -> Nat]
           /\ \A x \in Panels : Shown(shown[x])'
<1>1. edits \in [Contents -> Nat] /\ \A x \in Panels : Shown(shown[x])
  BY DEF TypeInv
<1>2. edits' \in [Contents -> Nat]
  BY <1>1
<1>3. \A d \in Contents : edits[d] <= edits'[d]
  BY <1>1
<1>4. ASSUME NEW x \in Panels PROVE Shown(shown[x])'
  <2>1. shown[x] \in Answers /\ shown[x].content \in Contents /\ shown[x].edits <= edits[shown[x].content]
    BY <1>1 DEF Shown
  <2>2. shown[x].edits \in Nat
    BY <2>1 DEF Answers
  <2>3. edits[shown[x].content] \in Nat /\ edits'[shown[x].content] \in Nat
    BY <1>1, <1>2, <2>1
  <2>4. shown[x].edits <= edits'[shown[x].content]
    BY <1>3, <2>1, <2>2, <2>3
  <2> QED
    BY <2>1, <2>4 DEF Shown
<1> QED
  BY <1>2, <1>4

LEMMA OthersFits ==
    ASSUME Inv, Others
    PROVE  Inv'
<1>1. /\ events' = events + 1
      /\ UNCHANGED <<view, shown, chain, flight, stream, lost, swallowed, crossed>>
  BY DEF Others, Counted
<1>2. PICK c \in Contents : edits' = [edits EXCEPT ![c] = @ + 1]
  BY DEF Others
<1>3. TypeInv'
  <2>1. edits' \in [Contents -> Nat] /\ \A x \in Panels : Shown(shown[x])'
    BY <1>1, <1>2, EditsGrow DEF Inv
  <2>2. events' \in Nat
    BY <1>1 DEF Inv, TypeInv
  <2> QED
    BY <1>1, <2>1, <2>2 DEF Inv, TypeInv
<1> QED
  BY <1>1, <1>3 DEF Inv, FollowInv, RecentInv, PhaseInv

\* The lists asked for after a write of one's own are as recent as that write.
LEMMA OwnAskType ==
    ASSUME TypeInv, NEW r \in Panels, Content(Scope(view)) \in Contents
    PROVE  LET q == [Ask(r, view, NoTask) EXCEPT !.since = IF r \in Dated THEN @ + 1 ELSE @] IN
           /\ q \in RequestsOf(r) /\ q \in Wanted(r, view)
           /\ r = "lists" => q.since = edits[Content(Scope(view))] + 1
<1> DEFINE a == Ask(r, view, NoTask)
           q == [a EXCEPT !.since = IF r \in Dated THEN @ + 1 ELSE @]
<1>1. r \in Requests /\ r # "chain" /\ NoTask \in TasksOf(r) /\ view \in Views
  BY PanelNames DEF TypeInv
<1>2. /\ a \in RequestsOf(r) /\ (r \in Dated => a.since = edits[Content(Scope(view))])
      /\ a \in Wanted(r, view)
  BY <1>1, AskType, AskIsWanted
<1> HIDE DEF a
<1>3. q \in RequestsOf(r) /\ (r \in Dated => q.since = a.since + 1) /\ q.scope = a.scope /\ q.phase = a.phase
  BY <1>2 DEF RequestsOf
<1>4. q \in Wanted(r, view)
  BY <1>2, <1>3 DEF Wanted
<1> QED
  BY <1>2, <1>3, <1>4 DEF a, Dated

LEMMA ActFits ==
    ASSUME Inv, NEW asked \in SUBSET Panels, Act(asked)
    PROVE  Inv'
<1> DEFINE c == Content(Scope(view))
<1>1. /\ events' = events + 1 /\ c \in Contents
      /\ edits' = [edits EXCEPT ![c] = @ + 1]
      /\ UNCHANGED <<view, shown, chain, stream, lost, swallowed, crossed>>
  BY DEF Act, Counted
<1>2. /\ \A r \in Requests :
            flight'[r] = IF r \in asked
                         THEN Append(flight[r], [Ask(r, view, NoTask) EXCEPT !.since = IF r \in Dated THEN @ + 1 ELSE @])
                         ELSE flight[r]
      /\ flight' = [r \in Requests |-> flight'[r]]
  BY DEF Act
<1> HIDE DEF c
<1>3. TypeInv /\ view \in Views /\ flight \in Flights
  BY DEF Inv, TypeInv
<1>4. ASSUME NEW r \in asked
      PROVE  /\ flight'[r] \in Seq(RequestsOf(r))
             /\ \E q \in Wanted(r, view) : (r = "lists" => q.since = edits[c] + 1) /\ EndsWith(flight'[r], q)
             /\ \A n \in DOMAIN flight[r] : n \in DOMAIN flight'[r] /\ flight'[r][n] = flight[r][n]
  <2>1. PICK q : q = [Ask(r, view, NoTask) EXCEPT !.since = IF r \in Dated THEN @ + 1 ELSE @]
    OBVIOUS
  <2>2. r \in Requests /\ flight[r] \in Seq(RequestsOf(r)) /\ flight'[r] = Append(flight[r], q)
    BY <1>2, <1>3, <2>1, PanelNames, FlightType
  <2>3. q \in RequestsOf(r) /\ q \in Wanted(r, view) /\ (r = "lists" => q.since = edits[c] + 1)
    BY <1>1, <1>3, <2>1, OwnAskType DEF c
  <2>4. /\ Append(flight[r], q) \in Seq(RequestsOf(r)) /\ EndsWith(Append(flight[r], q), q)
        /\ \A n \in DOMAIN flight[r] : n \in DOMAIN Append(flight[r], q) /\ Append(flight[r], q)[n] = flight[r][n]
    BY <2>2, <2>3, AppendEnds DEF EndsWith
  <2> QED
    BY <2>2, <2>3, <2>4
<1>5. \A r \in Requests \ asked : flight'[r] = flight[r]
  BY <1>2
<1>6. flight' \in Flights
  <2>1. \A r \in Requests : flight'[r] \in Seq(RequestsOf(r))
    BY <1>3, <1>4, <1>5, FlightType
  <2> QED
    BY <1>2, <2>1, FlightChanged
<1>7. Keeps(flight, flight')
  BY <1>4, <1>5 DEF Keeps, Waiting
<1>8. TypeInv'
  <2>1. edits' \in [Contents -> Nat] /\ \A x \in Panels : Shown(shown[x])'
    BY <1>1, <1>3, EditsGrow
  <2>2. events' \in Nat
    BY <1>1, <1>3 DEF TypeInv
  <2> QED
    BY <1>1, <1>3, <1>6, <2>1, <2>2 DEF TypeInv
<1>9. ASSUME NEW x \in Panels, PanelWell(x, flight, view, shown, lost)
      PROVE  PanelWell(x, flight', view, shown, lost)
  <2>1. CASE x \in asked
    BY <1>4, <2>1 DEF PanelWell, EndsWith
  <2>2. CASE x \notin asked
    BY <1>5, <1>7, <1>9, <2>2, PanelNames, StaysWell
  <2> QED
    BY <2>1, <2>2
<1>10. ASSUME ChainWell(flight, view, chain, lost) PROVE ChainWell(flight', view, chain, lost)
  <2>1. flight'["chain"] = flight["chain"]
    BY <1>5, PanelNames
  <2> QED
    BY <1>7, <1>10, <2>1, OwedStays DEF ChainWell
<1>11. FollowInv'
  BY <1>1, <1>9, <1>10 DEF Inv, FollowInv, Well
<1>12. ASSUME "versions" \notin crossed, ~swallowed', shown["summary"].content = c
       PROVE  ListsWell(flight', shown, lost)
  <2>1. CASE "lists" \in asked
    <3>1. PICK q \in Wanted("lists", view) : q.since = edits[c] + 1 /\ EndsWith(flight'["lists"], q)
      BY <1>4, <2>1
    <3>2. shown["summary"].edits <= edits[c] /\ shown["summary"].edits \in Nat /\ edits[c] \in Nat
      BY <1>1, <1>3, <1>12 DEF TypeInv, Shown, Panels, Answers
    <3>3. q \in Recent(shown)
      BY <3>1, <3>2 DEF Wanted, Recent
    <3> QED
      BY <3>1, <3>3 DEF ListsWell, EndsWith
  <2>2. CASE "lists" \notin asked
    <3>1. ListsWell(flight, shown, lost)
      BY <1>1, <1>12, <2>2 DEF Inv, RecentInv, c
    <3>2. flight'["lists"] = flight["lists"]
      BY <1>5, <2>2, PanelNames DEF Panels
    <3> QED
      BY <1>7, <3>1, <3>2, ListsStayWell
  <2> QED
    BY <2>1, <2>2
<1>13. RecentInv'
  BY <1>1, <1>12 DEF RecentInv, c
<1>14. PhaseInv'
  BY <1>1 DEF Inv, PhaseInv
<1> QED
  BY <1>8, <1>11, <1>13, <1>14 DEF Inv

\* A move of the user changes the view and the flight.
LEMMA MoveType ==
    ASSUME TypeInv, Counted, UNCHANGED <<edits, shown>>, view' \in Views, flight' \in Flights,
           chain' \in {None, chain}, stream' \in {stream, Scope(view')}
    PROVE  TypeInv'
<1>1. events' \in Nat
  BY DEF Counted, TypeInv
<1>2. stream' \in Projects \X ({None} \cup Versions)
  BY ScopeType DEF TypeInv
<1>3. \A x \in Panels : Shown(shown[x])'
  BY DEF TypeInv, Shown
<1> QED
  BY <1>1, <1>2, <1>3 DEF TypeInv

LEMMA Rephased ==
    ASSUME NEW w \in Views, NEW phase, w.phase = None
    PROVE  /\ [w EXCEPT !.phase = phase].phase = phase
           /\ [[w EXCEPT !.phase = phase] EXCEPT !.phase = None] = w
BY DEF Views

LEMMA SwitchProjectFits ==
    ASSUME Inv, NEW p \in Projects, SwitchProject(p)
    PROVE  Inv'
<1> DEFINE o == Overlooked(flight)
           f == WithPhase(o, [view' EXCEPT !.phase = view.phase], None)
           task == <<"project", events>>
<1>1. /\ view' = [project |-> p, version |-> None, versions |-> {}, phase |-> None, trace |-> None, tab |-> view.tab]
      /\ flight' = SentFor(f, {"versions"}, view', task)
      /\ Counted /\ chain' = None /\ UNCHANGED <<edits, shown, stream>>
  BY DEF SwitchProject
<1>2. TypeInv /\ flight \in Flights /\ view \in Views /\ events \in Nat
  BY DEF Inv, TypeInv
<1>3. view' \in Views /\ VersionFits(view') /\ PhaseFits(view')
  BY <1>1, <1>2 DEF Views, PhaseNames, VersionFits, PhaseFits
<1>4. f \in Flights /\ (f["chain"] = <<>> \/ \A good, idle : Ending(f["chain"], good, idle))
  <2>1. o \in Flights /\ (o["chain"] = <<>> \/ \A good, idle : Ending(o["chain"], good, idle))
    BY <1>2, OverlookedFits
  <2>2. CASE view.phase = None
    <3>1. f = o
      BY <1>1, <2>2 DEF WithPhase
    <3> QED
      BY <2>1, <3>1
  <2>3. CASE view.phase # None
    <3>1. [view' EXCEPT !.phase = view.phase].phase = view.phase
          /\ [[view' EXCEPT !.phase = view.phase] EXCEPT !.phase = None] = view'
      BY <1>1, <1>3, Rephased
    <3>2. f = Sent(o, {"coverage"}, view')
      BY <2>3, <3>1 DEF WithPhase
    <3> HIDE DEF o, f
    <3>3. f \in Flights /\ MovesOnly(o, f, {"coverage"})
      BY <1>2, <1>3, <2>1, <3>2, SentFits, PanelNames DEF Panels
    <3>4. f["chain"] = o["chain"]
      BY <3>3, PanelNames DEF MovesOnly
    <3> QED
      BY <2>1, <3>3, <3>4
  <2> QED
    BY <2>2, <2>3
<1>5. {"versions"} \in SUBSET Requests /\ \A r \in {"versions"} : task \in TasksOf(r)
  BY <1>2, PanelNames DEF TasksOf, Switches
<1> HIDE DEF f, task
<1>6. /\ flight' \in Flights /\ MovesOnly(f, flight', {"versions"})
      /\ \A r \in {"versions"} : Waiting(flight', r, task[1])
  BY <1>1, <1>2, <1>3, <1>4, <1>5, SentForFits
<1>7. \A x : Owed(flight', x)
  BY <1>6 DEF Owed, task
<1>8. flight'["chain"] = f["chain"]
  BY <1>6, PanelNames DEF MovesOnly
<1>9. ChainWell(flight', view', chain', lost')
  BY <1>1, <1>4, <1>8 DEF ChainWell, Ending
<1>10. TypeInv'
  BY <1>1, <1>2, <1>3, <1>6, MoveType
<1>11. FollowInv' /\ RecentInv' /\ PhaseInv'
  BY <1>3, <1>7, <1>9 DEF FollowInv, RecentInv, PhaseInv, Well, PanelWell, ListsWell
<1> QED
  BY <1>10, <1>11 DEF Inv

LEMMA SwitchVersionFits ==
    ASSUME Inv, NEW v \in Versions, SwitchVersion(v)
    PROVE  Inv'
<1> DEFINE f == IF chain = None THEN Overlooked(flight) ELSE flight
           task == <<"version", events>>
<1>1. /\ view' = [view EXCEPT !.version = v] /\ v \in view.versions
      /\ flight' = SentFor(f, Panels, view', task)
      /\ Counted /\ stream' = Scope(view') /\ UNCHANGED <<edits, shown, chain, lost, crossed>>
  BY DEF SwitchVersion
<1>2. TypeInv /\ flight \in Flights /\ view \in Views /\ events \in Nat
  BY DEF Inv, TypeInv
<1>3. view' \in Views /\ (VersionFits(view) => VersionFits(view')) /\ (PhaseFits(view) => PhaseFits(view'))
  BY <1>1, <1>2 DEF Views, VersionFits, PhaseFits
<1>4. f \in Flights
  BY <1>2, OverlookedFits
<1>5. chain = None => f["chain"] = <<>> \/ \A good, idle : Ending(f["chain"], good, idle)
  BY <1>2, OverlookedFits
<1>6. Panels \in SUBSET Panels /\ "lists" \in Panels /\ \A r \in Panels : task \in TasksOf(r)
  BY <1>2 DEF TasksOf, Switches, Panels
<1> HIDE DEF f, task
<1>7. /\ flight' \in Flights
      /\ \A r \in Panels : Waiting(flight', r, task[1])
      /\ \A x \in Panels : PanelWell(x, flight', view', shown, lost)
      /\ SummaryInView(shown, view') => ListsWell(flight', shown, lost)
  <2>1. flight' \in Flights /\ \A r \in Panels : Waiting(flight', r, task[1])
    BY <1>1, <1>2, <1>3, <1>4, <1>6, AskedForFits
  <2>2. \A x \in Panels : PanelWell(x, flight', view', shown, lost)
    BY <1>1, <1>2, <1>3, <1>4, <1>6, AskedForFits
  <2>3. SummaryInView(shown, view') => ListsWell(flight', shown, lost)
    BY <1>1, <1>2, <1>3, <1>4, <1>6, AskedForFits
  <2> QED
    BY <2>1, <2>2, <2>3
<1>8. MovesOnly(f, flight', Panels)
  BY <1>1, <1>2, <1>3, <1>4, <1>6, PanelNames, SentForFits
<1>9. ChainWell(flight', view', chain, lost)
  <2>1. CASE chain = None
    BY <1>5, <1>8, <2>1, PanelNames DEF ChainWell, Ending, MovesOnly
  <2>2. CASE chain # None
    BY <1>7, <2>2 DEF ChainWell, ChainOwed, task, Panels
  <2> QED
    BY <2>1, <2>2
<1>10. TypeInv'
  BY <1>1, <1>2, <1>3, <1>7, MoveType
<1>11. FollowInv'
  BY <1>1, <1>3, <1>7, <1>9 DEF Inv, FollowInv, Well
<1>12. RecentInv'
  <2>1. shown["summary"].content = Content(Scope(view')) => SummaryInView(shown, view')
    BY <1>2 DEF SummaryInView, TypeInv, Shown, Panels
  <2> QED
    BY <1>1, <1>7, <2>1 DEF RecentInv
<1>13. PhaseInv'
  BY <1>1, <1>3 DEF Inv, PhaseInv
<1> QED
  BY <1>10, <1>11, <1>12, <1>13 DEF Inv

LEMMA PickPhaseFits ==
    ASSUME Inv, NEW phase \in {None} \cup PhasesOf[view.project], PickPhase(phase)
    PROVE  Inv'
<1>1. /\ view' = [view EXCEPT !.phase = phase] /\ flight' = WithPhase(flight, view, phase)
      /\ Counted /\ UNCHANGED <<edits, shown, chain, stream, lost, swallowed, crossed>>
  BY DEF PickPhase
<1>2. TypeInv /\ flight \in Flights /\ view \in Views /\ view.project \in Projects
  BY DEF Inv, TypeInv, Views
<1>3. phase \in PhaseNames
  BY <1>2, ProjectNames DEF PhaseNames
<1>4. /\ view' \in Views /\ view'.phase = phase /\ Scope(view') = Scope(view) /\ ChainPhase(view') = ChainPhase(view)
      /\ VersionFits(view) => VersionFits(view')
      /\ PhaseFits(view) => PhaseFits(view')
  BY <1>1, <1>2, <1>3 DEF Views, Scope, ChainPhase, VersionFits, PhaseFits
<1>5. /\ flight' \in Flights /\ MovesOnly(flight, flight', {"coverage"}) /\ Keeps(flight, flight')
      /\ \A x \in Panels : PanelWell(x, flight, view, shown, lost) => PanelWell(x, flight', view', shown, lost)
  BY <1>1, <1>2, <1>4, WithPhaseFits
<1>6. flight'["chain"] = flight["chain"] /\ flight'["lists"] = flight["lists"]
  BY <1>5 DEF MovesOnly, Requests, Panels
<1>7. ChainWell(flight, view, chain, lost) => ChainWell(flight', view', chain, lost)
  BY <1>4, <1>5, <1>6, SameTarget, OwedStays, PanelNames DEF ChainWell
<1>8. TypeInv'
  BY <1>1, <1>2, <1>4, <1>5, MoveType
<1>9. FollowInv'
  BY <1>1, <1>4, <1>5, <1>7 DEF Inv, FollowInv, Well
<1>10. RecentInv'
  BY <1>1, <1>4, <1>5, <1>6, ListsStayWell DEF Inv, RecentInv
<1>11. PhaseInv'
  BY <1>1, <1>4 DEF Inv, PhaseInv
<1> QED
  BY <1>8, <1>9, <1>10, <1>11 DEF Inv

LEMMA PickTraceFits ==
    ASSUME Inv, NEW trace \in {All} \cup PhasesOf[view.project], PickTrace(trace)
    PROVE  Inv'
<1>1. /\ view' = [view EXCEPT !.trace = trace] /\ flight' = WithTrace(flight, view, trace)
      /\ Counted /\ UNCHANGED <<edits, shown, chain, stream, lost, swallowed, crossed>>
  BY DEF PickTrace
<1>2. TypeInv /\ flight \in Flights /\ view \in Views /\ view.project \in Projects
  BY DEF Inv, TypeInv, Views
<1>3. trace \in PhaseNames \cup {All}
  BY <1>2, ProjectNames
<1>4. /\ view' \in Views /\ view'.trace = trace /\ Scope(view') = Scope(view) /\ view'.phase = view.phase
      /\ VersionFits(view) => VersionFits(view')
      /\ PhaseFits(view) => PhaseFits(view')
  BY <1>1, <1>2, <1>3 DEF Views, Scope, VersionFits, PhaseFits
<1>5. /\ flight' \in Flights /\ MovesOnly(flight, flight', {"chain"}) /\ Keeps(flight, flight')
      /\ ChainWell(flight, view, chain, lost) => ChainWell(flight', view', chain, lost)
  BY <1>1, <1>2, <1>4, WithTraceFits
<1>6. \A x \in Panels : flight'[x] = flight[x] /\ PhaseFor(x, view) = PhaseFor(x, view')
  BY <1>4, <1>5, PanelNames DEF MovesOnly, Panels
<1>7. \A x \in Panels : PanelWell(x, flight, view, shown, lost) => PanelWell(x, flight', view', shown, lost)
  BY <1>4, <1>5, <1>6, StaysWell
<1>8. TypeInv'
  BY <1>1, <1>2, <1>4, <1>5, MoveType
<1>9. FollowInv'
  BY <1>1, <1>4, <1>5, <1>7 DEF Inv, FollowInv, Well
<1>10. RecentInv'
  BY <1>1, <1>4, <1>5, <1>6, ListsStayWell DEF Inv, RecentInv, Panels
<1>11. PhaseInv'
  BY <1>1, <1>4 DEF Inv, PhaseInv
<1> QED
  BY <1>8, <1>9, <1>10, <1>11 DEF Inv

\* A tab of the screen: the view differs in nothing that the panels depend on.
LEMMA TabFits ==
    ASSUME TypeInv, NEW tab \in {"other", "chain"}
    PROVE  LET w == [view EXCEPT !.tab = tab] IN
           /\ w \in Views
           /\ Scope(w) = Scope(view) /\ \A x \in Requests : PhaseFor(x, w) = PhaseFor(x, view)
           /\ VersionFits(view) => VersionFits(w)
           /\ PhaseFits(view) => PhaseFits(w)
<1> DEFINE w == [view EXCEPT !.tab = tab]
<1>1. /\ w \in Views /\ w.project = view.project /\ w.version = view.version /\ w.versions = view.versions
      /\ w.phase = view.phase /\ w.trace = view.trace
  BY DEF TypeInv, Views
<1> HIDE DEF w
<1>2. Scope(w) = Scope(view)
  BY <1>1 DEF Scope
<1>3. \A x \in Requests : PhaseFor(x, w) = PhaseFor(x, view)
  BY <1>1 DEF PhaseFor, ChainPhase
<1>4. (VersionFits(view) => VersionFits(w)) /\ (PhaseFits(view) => PhaseFits(w))
  BY <1>1 DEF VersionFits, PhaseFits
<1> QED
  BY <1>1, <1>2, <1>3, <1>4 DEF w

LEMMA OpenVersionsFits ==
    ASSUME Inv, OpenVersions
    PROVE  Inv'
<1>1. /\ view' = [view EXCEPT !.tab = "other"] /\ flight' = Sent(flight, {"versions"}, view)
      /\ Counted /\ UNCHANGED <<edits, shown, chain, stream, lost, swallowed, crossed>>
  BY DEF OpenVersions
<1>2. TypeInv /\ flight \in Flights /\ view \in Views
  BY DEF Inv, TypeInv
<1>3. /\ view' \in Views /\ Scope(view') = Scope(view) /\ \A x \in Requests : PhaseFor(x, view') = PhaseFor(x, view)
      /\ VersionFits(view) => VersionFits(view')
      /\ PhaseFits(view) => PhaseFits(view')
  BY <1>1, <1>2, TabFits
<1>4. flight' \in Flights /\ MovesOnly(flight, flight', {"versions"}) /\ Keeps(flight, flight')
  BY <1>1, <1>2, PanelNames, SentFits
<1>5. /\ \A x \in Panels : x \in Requests /\ flight'[x] = flight[x]
      /\ flight'["chain"] = flight["chain"] /\ flight'["lists"] = flight["lists"]
  BY <1>4, PanelNames DEF MovesOnly, Panels
<1>6. \A x \in Panels : PanelWell(x, flight, view, shown, lost) => PanelWell(x, flight', view', shown, lost)
  BY <1>3, <1>4, <1>5, StaysWell
<1>7. ChainWell(flight, view, chain, lost) => ChainWell(flight', view', chain, lost)
  BY <1>3, <1>4, <1>5, SameTarget, OwedStays, PanelNames DEF ChainWell
<1>8. TypeInv'
  BY <1>1, <1>2, <1>3, <1>4, MoveType
<1>9. FollowInv'
  BY <1>1, <1>3, <1>6, <1>7 DEF Inv, FollowInv, Well
<1>10. RecentInv'
  BY <1>1, <1>3, <1>4, <1>5, ListsStayWell DEF Inv, RecentInv
<1>11. PhaseInv'
  BY <1>1, <1>3 DEF Inv, PhaseInv
<1> QED
  BY <1>8, <1>9, <1>10, <1>11 DEF Inv

LEMMA OpenChainFits ==
    ASSUME Inv, OpenChain
    PROVE  Inv'
<1>1. /\ view' = [view EXCEPT !.tab = "chain"]
      /\ flight' = flight \/ flight' = Sent(flight, {"chain"}, view)
      /\ Counted /\ UNCHANGED <<edits, shown, chain, stream, lost, swallowed, crossed>>
  BY DEF OpenChain
<1>2. TypeInv /\ flight \in Flights /\ view \in Views
  BY DEF Inv, TypeInv
<1>3. /\ view' \in Views /\ Scope(view') = Scope(view) /\ \A x \in Requests : PhaseFor(x, view') = PhaseFor(x, view)
      /\ VersionFits(view) => VersionFits(view')
      /\ PhaseFits(view) => PhaseFits(view')
  BY <1>1, <1>2, TabFits
<1>4. /\ flight' \in Flights /\ AsWell(flight, flight', view, shown, lost, chain)
      /\ ListsWell(flight, shown, lost) => ListsWell(flight', shown, lost)
  <2>1. CASE flight' = flight
    BY <1>2, <2>1 DEF AsWell
  <2>2. CASE flight' = Sent(flight, {"chain"}, view)
    BY <1>2, <2>2, ChainAskedFits
  <2> QED
    BY <1>1, <2>1, <2>2
<1>5. \A x \in Panels : PanelWell(x, flight', view, shown, lost) => PanelWell(x, flight', view', shown, lost)
  BY <1>3, PanelNames, SameTarget DEF PanelWell
<1>6. ChainWell(flight', view, chain, lost) => ChainWell(flight', view', chain, lost)
  BY <1>3, PanelNames, SameTarget DEF ChainWell
<1>7. TypeInv'
  BY <1>1, <1>2, <1>3, <1>4, MoveType
<1>8. FollowInv'
  BY <1>1, <1>3, <1>4, <1>5, <1>6 DEF Inv, FollowInv, Well, AsWell
<1>9. RecentInv'
  BY <1>1, <1>3, <1>4 DEF Inv, RecentInv
<1>10. PhaseInv'
  BY <1>1, <1>3 DEF Inv, PhaseInv
<1> QED
  BY <1>7, <1>8, <1>9, <1>10 DEF Inv

-----------------------------------------------------------------------------
(***************************************************************************)
(* The live stream.                                                        *)
(***************************************************************************)
LEMMA SentTwice ==
    ASSUME NEW f, NEW asked, NEW w, asked \subseteq Panels
    PROVE  Sent(f, asked \cup {"chain"}, w) = Sent(Sent(f, asked, w), {"chain"}, w)
BY PanelNames DEF Sent, SentFor

LEMMA TickFits ==
    ASSUME Inv, Tick
    PROVE  Inv'
<1> DEFINE c == Content(stream)
           new == Answer(stream, None, edits[c])
           both == {"lists", "coverage"}
<1>1. TypeInv /\ flight \in Flights /\ view \in Views
  BY DEF Inv, TypeInv
<1>2. CASE stream # Scope(view)
  <2>1. stream' = Scope(view) /\ UNCHANGED <<edits, view, shown, chain, flight, events, lost, swallowed, crossed>>
    BY <1>2 DEF Tick
  <2>2. TypeInv'
    BY <1>1, <2>1, ScopeType DEF TypeInv, Shown
  <2> QED
    BY <2>1, <2>2 DEF Inv, FollowInv, RecentInv, PhaseInv
<1>3. CASE stream = Scope(view)
  <2>1. /\ c \in Contents /\ shown' = [shown EXCEPT !["summary"] = new]
        /\ UNCHANGED <<edits, view, chain, stream, events, lost, crossed>>
    BY <1>3 DEF Tick
  <2>2. new.content = c /\ new.phase = None /\ new.edits = edits[c] /\ new \in Answers /\ c = Content(Scope(view))
    <3>1. c \in Projects \X Versions /\ None \in PhaseNames /\ edits[c] \in Nat
      BY <1>1, <2>1 DEF TypeInv, Contents, PhaseNames
    <3> QED
      BY <1>3, <3>1 DEF Answer, Answers
  <2>3. /\ shown' \in [Panels -> Answers] /\ shown'["summary"] = new
        /\ \A x \in Panels \ {"summary"} : shown'[x] = shown[x]
        /\ "summary" \in Panels /\ "lists" \in Panels
    BY <1>1, <2>1, <2>2 DEF TypeInv, Panels
  <2> HIDE DEF new, c
  <2>4. \A x \in Panels : Shown(shown'[x])
    <3>1. edits[c] \in Nat /\ Shown(new)
      BY <1>1, <2>1, <2>2 DEF Shown, TypeInv
    <3> QED
      BY <1>1, <2>3, <3>1 DEF TypeInv
  <2>5. SummaryInView(shown', view)
    BY <2>1, <2>2, <2>3, <2>4 DEF SummaryInView, Shown
  <2>6. ASSUME NEW x \in Panels, PanelWell(x, flight, view, shown, lost) PROVE PanelWell(x, flight, view, shown', lost)
    <3>1. CASE x = "summary"
      <4>1. Right(shown'[x], x, view)
        BY <2>2, <2>3, <3>1, PanelNames DEF Right
      <4> QED
        BY <2>6, <4>1 DEF PanelWell, Ending
    <3>2. CASE x # "summary"
      BY <2>3, <2>6, <3>2 DEF PanelWell
    <3> QED
      BY <3>1, <3>2
  <2>7. ASSUME Changed(new, shown["summary"])
        PROVE  /\ flight' \in Flights /\ AsWell(flight, flight', view, shown', lost, chain)
               /\ ListsWell(flight', shown', lost)
    <3> DEFINE f == Sent(flight, both, view)
    <3>1. flight' = Sent(flight, both \cup (IF chain = None THEN {} ELSE {"chain"}), view)
      BY <1>3, <2>7 DEF Tick, new, c
    <3>2. flight' = f \/ flight' = Sent(f, {"chain"}, view)
      <4>1. CASE chain = None
        <5>1. both \cup {} = both
          OBVIOUS
        <5> QED
          BY <3>1, <4>1, <5>1
      <4>2. CASE chain # None
        <5>1. both \subseteq Panels
          BY DEF Panels
        <5>2. flight' = Sent(flight, both \cup {"chain"}, view)
          BY <3>1, <4>2
        <5> HIDE DEF both
        <5> QED
          BY <5>1, <5>2, SentTwice
      <4> QED
        BY <4>1, <4>2
    <3>3. both \in SUBSET Panels /\ "lists" \in both /\ \A r \in both : NoTask \in TasksOf(r)
      BY PanelNames DEF Panels
    <3>4. f = SentFor(flight, both, view, NoTask)
      BY DEF Sent
    <3> HIDE DEF f, both
    <3>5. f \in Flights /\ AsWell(flight, f, view, shown', lost, chain)
      BY <1>1, <3>3, <3>4, AskedForFits
    <3>6. ListsWell(f, shown', lost)
      BY <1>1, <2>5, <3>3, <3>4, AskedForFits
    <3>7. /\ flight' \in Flights /\ AsWell(f, flight', view, shown', lost, chain)
          /\ ListsWell(flight', shown', lost)
      <4>1. CASE flight' = f
        BY <3>5, <3>6, <4>1 DEF AsWell
      <4>2. CASE flight' = Sent(f, {"chain"}, view)
        <5>1. flight' \in Flights /\ AsWell(f, flight', view, shown', lost, chain)
          BY <1>1, <3>5, <4>2, ChainAskedFits
        <5>2. ListsWell(flight', shown', lost)
          BY <1>1, <3>5, <3>6, <4>2, ChainAskedFits
        <5> QED
          BY <5>1, <5>2
      <4> QED
        BY <3>2, <4>1, <4>2
    <3> QED
      BY <3>5, <3>7 DEF AsWell
  <2>8. ASSUME ~Changed(new, shown["summary"])
        PROVE  /\ flight' = flight /\ swallowed' = swallowed
               /\ new.content = shown["summary"].content
               /\ ListsWell(flight, shown, lost) => ListsWell(flight, shown', lost)
    <3>1. flight' = flight /\ swallowed' = swallowed
      BY <1>3, <2>8 DEF Tick, new, c
    <3>2. new.content = shown["summary"].content /\ new.edits = shown["summary"].edits
      BY <2>8 DEF Changed
    <3>3. ListsWell(flight, shown, lost) => ListsWell(flight, shown', lost)
      BY <2>3, <3>2 DEF ListsWell, Recent
    <3> QED
      BY <3>1, <3>2, <3>3
  <2>9. flight' \in Flights /\ AsWell(flight, flight', view, shown', lost, chain)
    BY <1>1, <2>7, <2>8 DEF AsWell
  <2>10. TypeInv'
    <3>1. \A x \in Panels : Shown(shown[x])'
      BY <2>1, <2>4 DEF Shown
    <3> QED
      BY <1>1, <2>1, <2>3, <2>9, <3>1 DEF TypeInv
  <2>11. FollowInv'
    BY <2>1, <2>6, <2>9 DEF Inv, FollowInv, Well, AsWell
  <2>12. RecentInv'
    BY <2>1, <2>2, <2>7, <2>8 DEF Inv, RecentInv
  <2> QED
    BY <2>1, <2>10, <2>11, <2>12 DEF Inv, PhaseInv
<1> QED
  BY <1>2, <1>3

-----------------------------------------------------------------------------
(***************************************************************************)
(* The answers.                                                            *)
(***************************************************************************)
LEMMA AnswerType ==
    ASSUME TypeInv, NEW r \in Requests, NEW n \in DOMAIN flight[r], Readable(flight[r][n]),
           NEW k \in 0..edits[Content(flight[r][n].scope)]
    PROVE  LET req == flight[r][n]
               answer == Answer(req.scope, req.phase, k)
           IN  /\ Shown(answer)
               /\ answer.content = Content(req.scope) /\ answer.phase = req.phase /\ answer.edits = k /\ k \in Nat
<1> DEFINE req == flight[r][n]
           answer == Answer(req.scope, req.phase, k)
<1>1. req \in RequestsOf(r) /\ Content(req.scope) \in Contents
  BY WithoutFits DEF Readable
<1>2. req.since \in Nat /\ edits[Content(req.scope)] \in Nat /\ req.phase \in PhaseNames
  BY <1>1 DEF RequestsOf, TypeInv
<1>3. k \in Nat /\ k <= edits[Content(req.scope)]
  BY <1>2
<1>4. Content(req.scope) \in Projects \X Versions
  BY <1>1 DEF Contents
<1>5. answer.content = Content(req.scope) /\ answer.phase = req.phase /\ answer.edits = k /\ answer \in Answers
  BY <1>2, <1>3, <1>4 DEF Answer, Answers
<1> HIDE DEF answer
<1>6. Shown(answer)
  BY <1>1, <1>3, <1>5 DEF Shown
<1> QED
  BY <1>3, <1>5, <1>6 DEF answer

LEMMA AnsweredType ==
    ASSUME TypeInv, events' = events \/ events' = events + 1, edits' = edits,
           view' \in Views, flight' \in Flights, chain' \in {None} \cup Answers,
           stream' \in Projects \X ({None} \cup Versions),
           shown' = shown \/ \E x \in Panels : \E answer : Shown(answer) /\ shown' = [shown EXCEPT ![x] = answer]
    PROVE  TypeInv'
<1>1. shown' \in [Panels -> Answers] /\ \A x \in Panels : Shown(shown'[x])
  <2>1. CASE shown' = shown
    BY <2>1 DEF TypeInv
  <2>2. ASSUME NEW x \in Panels, NEW answer, Shown(answer), shown' = [shown EXCEPT ![x] = answer]
        PROVE  shown' \in [Panels -> Answers] /\ \A y \in Panels : Shown(shown'[y])
    <3>1. answer \in Answers
      BY <2>2 DEF Shown
    <3>2. \A y \in Panels : shown'[y] = IF y = x THEN answer ELSE shown[y]
      BY <2>2 DEF TypeInv
    <3>3. shown' \in [Panels -> Answers]
      BY <2>2, <3>1 DEF TypeInv
    <3> QED
      BY <2>2, <3>2, <3>3 DEF TypeInv
  <2> QED
    BY <2>1, <2>2
<1>2. \A x \in Panels : Shown(shown[x])'
  BY <1>1 DEF Shown
<1>3. events' \in Nat
  BY DEF TypeInv
<1> QED
  BY <1>1, <1>2, <1>3 DEF TypeInv

LEMMA TurnCounts ==
    ASSUME NEW n, InTurn(n)
    PROVE  events' = events \/ events' = events + 1
BY DEF InTurn, Counted

\* Nothing is watched for when neither phase changes.
LEMMA Unwatched ==
    ASSUME NEW f, NEW w, w.phase = view.phase, w.trace = view.trace
    PROVE  Watched(f, w) = f
<1>1. WithPhase(f, view, w.phase) = f
  BY DEF WithPhase
<1>2. WithTrace(f, view, w.trace) = f
  BY DEF WithTrace
<1> QED
  BY <1>1, <1>2 DEF Watched

\* What is well before an answer, or a failure, is so after it.
LEMMA AnswerFits ==
    ASSUME Inv, TypeInv', NEW r \in Requests, NEW n \in DOMAIN flight[r], UNCHANGED <<edits, chain>>,
           flight' = GoesOn(Watched(Without(r, n), view'), r, flight[r][n].task, view'),
           Taken(r, flight[r][n], shown', lost'),
           "versions" \notin crossed' =>
              "versions" \notin crossed /\ Content(Scope(view)) = Content(Scope(view')) /\ VersionFits(view'),
           \/ swallowed'
           \/ ~swallowed /\ shown'["summary"] = shown["summary"]
           \/ Pays(r, flight[r][n].task, "lists")
    PROVE  FollowInv' /\ RecentInv'
<1> DEFINE task == flight[r][n].task
<1>1. TypeInv /\ view' \in Views /\ shown'["lists"].edits \in Nat /\ shown'["summary"].edits \in Nat
  <2>1. "lists" \in Panels /\ "summary" \in Panels
    BY DEF Panels
  <2> QED
    BY <2>1 DEF Inv, TypeInv, Answers
<1> SUFFICES ASSUME "versions" \notin crossed'
             PROVE  /\ Well(flight', view', shown', chain', lost')
                    /\ ~swallowed' /\ shown'["summary"].content = Content(Scope(view')) => ListsWell(flight', shown', lost')
  BY DEF FollowInv, RecentInv
<1>2. /\ "versions" \notin crossed /\ Content(Scope(view)) = Content(Scope(view')) /\ VersionFits(view')
      /\ Well(flight, view, shown, chain, lost)
  BY DEF Inv, FollowInv
<1>3. \A x \in Panels : PanelWell(x, flight, view, shown, lost) => PanelWell(x, flight', view', shown', lost')
  BY <1>1, <1>2, AnswerPreserves
<1>4. ChainWell(flight, view, chain, lost) => ChainWell(flight', view', chain, lost')
  BY <1>1, <1>2, AnswerPreserves
<1>5. /\ SummaryInView(shown', view')
      /\ \/ ListsWell(flight, shown, lost) /\ shown'["summary"] = shown["summary"]
         \/ Pays(r, task, "lists")
      => ListsWell(flight', shown', lost')
  BY <1>1, <1>2, AnswerPreserves
<1>6. Well(flight', view', shown', chain', lost')
  BY <1>2, <1>3, <1>4 DEF Well
<1>7. ASSUME ~swallowed', shown'["summary"].content = Content(Scope(view')) PROVE ListsWell(flight', shown', lost')
  <2>1. Shown(shown["summary"])'
    BY DEF TypeInv, Panels
  <2>2. SummaryInView(shown', view')
    BY <1>7, <2>1 DEF SummaryInView, Shown
  <2>3. CASE ~swallowed /\ shown'["summary"] = shown["summary"]
    <3>1. ListsWell(flight, shown, lost)
      BY <1>2, <1>7, <2>3 DEF Inv, RecentInv
    <3> QED
      BY <1>5, <2>2, <2>3, <3>1
  <2>4. CASE Pays(r, task, "lists")
    BY <1>5, <2>2, <2>4
  <2> QED
    BY <1>7, <2>3, <2>4
<1> QED
  BY <1>6, <1>7

\* The versions of the project in view only tell which of them are known.
LEMMA VersionsLoadedFits ==
    ASSUME Inv, NEW n \in DOMAIN flight["versions"], VersionsLoaded(n)
    PROVE  Inv'
<1> DEFINE req == flight["versions"][n]
           p == req.scope[1]
           f == Without("versions", n)
<1>1. /\ view' = [view EXCEPT !.versions = VersionsOf[p],
                              !.version = IF view.version = None THEN Current[p] ELSE view.version]
      /\ Heard("versions", req)
      /\ crossed' = IF p = view.project THEN crossed ELSE crossed \cup {"versions"}
      /\ stream' = IF req.task = NoTask THEN stream ELSE Scope(view')
      /\ flight' = GoesOn(f, "versions", req.task, view')
      /\ InTurn(n) /\ UNCHANGED <<edits, shown, chain, swallowed>>
  BY DEF VersionsLoaded
<1>2. TypeInv /\ view \in Views /\ "versions" \in Requests
  BY PanelNames DEF Inv, TypeInv
<1>3. req \in RequestsOf("versions") /\ f \in Flights
  BY <1>2, WithoutFits
<1> HIDE DEF req, f
<1>4. p \in Projects /\ req.task \in TasksOf("versions")
  BY <1>3 DEF RequestsOf
<1> HIDE DEF p
<1>5. /\ view'.project = view.project /\ view'.phase = view.phase /\ view'.trace = view.trace
      /\ view'.versions = VersionsOf[p]
      /\ view'.version = IF view.version = None THEN Current[p] ELSE view.version
      /\ view' \in Views
  BY <1>1, <1>2, <1>4, ProjectNames DEF Views
<1>6. flight' \in Flights
  BY <1>1, <1>2, <1>3, <1>4, <1>5, GoesOnFits
<1>7. TypeInv'
  <2>1. stream' \in Projects \X ({None} \cup Versions)
    BY <1>1, <1>2, <1>5, ScopeType DEF TypeInv
  <2>2. chain' \in {None} \cup Answers
    BY <1>1, <1>2 DEF TypeInv
  <2> QED
    BY <1>1, <1>2, <1>5, <1>6, <2>1, <2>2, TurnCounts, AnsweredType
<1>8. Taken("versions", req, shown', lost')
  BY <1>1, PanelNames DEF Taken, Heard
<1>9. ASSUME "versions" \notin crossed' 
      PROVE  "versions" \notin crossed /\ Content(Scope(view)) = Content(Scope(view')) /\ VersionFits(view')
  <2>1. "versions" \notin crossed /\ p = view.project
    BY <1>1, <1>9
  <2>2. VersionFits(view)
    BY <2>1 DEF Inv, FollowInv, Well
  <2>3. Current[p] \in VersionsOf[p] /\ None \notin VersionsOf[p]
    BY <1>4, ProjectNames
  <2>4. CASE view.versions = {} /\ view.version = None
    <3>1. Content(Scope(view)) = <<p, Current[p]>>
      BY <2>1, <2>4 DEF Scope, Content
    <3>2. view'.version = Current[p]
      BY <1>5, <2>4
    <3>3. Content(Scope(view')) = <<p, Current[p]>>
      BY <1>5, <2>1, <3>2 DEF Scope, Content
    <3> QED
      BY <1>5, <2>1, <2>3, <3>1, <3>2, <3>3 DEF VersionFits
  <2>5. CASE view.versions = VersionsOf[p] /\ view.version \in VersionsOf[p]
    <3>1. view'.version = view.version /\ view'.versions = view.versions
      BY <1>5, <2>3, <2>5
    <3>2. Scope(view') = Scope(view)
      BY <1>5, <3>1 DEF Scope
    <3> QED
      BY <1>5, <2>1, <2>5, <3>1, <3>2 DEF VersionFits
  <2> QED
    BY <2>1, <2>2, <2>4, <2>5 DEF VersionFits
<1>10. flight' = GoesOn(Watched(f, view'), "versions", req.task, view')
  BY <1>1, <1>5, Unwatched
<1>11. swallowed' \/ (~swallowed /\ shown'["summary"] = shown["summary"])
  BY <1>1
<1>12. FollowInv' /\ RecentInv'
  BY <1>1, <1>2, <1>7, <1>8, <1>9, <1>10, <1>11, AnswerFits DEF req, f
<1>13. PhaseInv'
  BY <1>1, <1>5 DEF Inv, PhaseInv, PhaseFits
<1> QED
  BY <1>7, <1>12, <1>13 DEF Inv

\* An answer of the panels leaves the project and the version in view alone.
LEMMA PhasesOnly ==
    ASSUME TypeInv, NEW phase \in PhaseNames, NEW trace \in PhaseNames \cup {All},
           NEW w, w = [view EXCEPT !.phase = phase, !.trace = trace]
    PROVE  /\ w \in Views
           /\ w.project = view.project /\ w.phase = phase /\ w.trace = trace
           /\ Scope(w) = Scope(view)
           /\ VersionFits(view) => VersionFits(w)
<1>1. /\ w \in Views /\ w.project = view.project /\ w.version = view.version /\ w.versions = view.versions
      /\ w.phase = phase /\ w.trace = trace
  BY DEF TypeInv, Views
<1> QED
  BY <1>1 DEF Scope, VersionFits

\* An answer of a panel, or a failure, that may change the phases in view.
LEMMA PhasesFit ==
    ASSUME Inv, NEW r \in Requests, NEW n \in DOMAIN flight[r],
           NEW phase \in PhaseNames, NEW trace \in PhaseNames \cup {All},
           view' = [view EXCEPT !.phase = phase, !.trace = trace],
           flight' = GoesOn(Watched(Without(r, n), view'), r, flight[r][n].task, view'),
           UNCHANGED <<edits, chain>>, events' = events \/ events' = events + 1,
           stream' \in {stream, Scope(view)},
           shown' = shown \/ \E x \in Panels : \E answer : Shown(answer) /\ shown' = [shown EXCEPT ![x] = answer],
           Taken(r, flight[r][n], shown', lost'),
           "versions" \in crossed => "versions" \in crossed',
           \/ swallowed'
           \/ ~swallowed /\ shown'["summary"] = shown["summary"]
           \/ Pays(r, flight[r][n].task, "lists"),
           PhaseInv'
    PROVE  Inv'
<1>1. TypeInv /\ view \in Views
  BY DEF Inv, TypeInv
<1>2. /\ view' \in Views /\ Content(Scope(view)) = Content(Scope(view'))
      /\ VersionFits(view) => VersionFits(view')
  BY <1>1, PhasesOnly
<1>3. Without(r, n) \in Flights /\ flight[r][n].task \in TasksOf(r)
  BY <1>1, WithoutFits DEF RequestsOf
<1>4. Watched(Without(r, n), view') \in Flights
  BY <1>1, <1>2, <1>3, WatchedFits
<1>5. flight' \in Flights
  BY <1>1, <1>2, <1>3, <1>4, GoesOnFits
<1>6. TypeInv'
  <2>1. stream' \in Projects \X ({None} \cup Versions) /\ chain' \in {None} \cup Answers
    BY <1>1, ScopeType DEF TypeInv
  <2> QED
    BY <1>1, <1>2, <1>5, <2>1, AnsweredType
<1>7. "versions" \notin crossed' =>
         "versions" \notin crossed /\ Content(Scope(view)) = Content(Scope(view')) /\ VersionFits(view')
  BY <1>2 DEF Inv, FollowInv, Well
<1>8. FollowInv' /\ RecentInv'
  BY <1>1, <1>6, <1>7, AnswerFits
<1> QED
  BY <1>6, <1>8 DEF Inv

LEMMA SummaryLoadedFits ==
    ASSUME Inv, NEW n \in DOMAIN flight["summary"], SummaryLoaded(n)
    PROVE  Inv'
<1> DEFINE req == flight["summary"][n]
           p == req.scope[1]
           phase == IF view.phase = None THEN ActivePhase[p] ELSE view.phase
           trace == IF view.trace = None THEN ActivePhase[p] ELSE view.trace
<1>1. /\ Readable(req)
      /\ view' = [view EXCEPT !.phase = phase, !.trace = trace]
      /\ Heard("summary", req)
      /\ crossed' = IF p = view.project \/ view' = view THEN crossed ELSE crossed \cup {"phase"}
      /\ flight' = GoesOn(Watched(Without("summary", n), view'), "summary", req.task, view')
      /\ InTurn(n) /\ UNCHANGED <<edits, chain, stream>>
  BY DEF SummaryLoaded
<1>2. PICK k \in req.since..edits[Content(req.scope)] :
         /\ shown' = [shown EXCEPT !["summary"] = Answer(req.scope, req.phase, k)]
         /\ swallowed' = (req.task[1] # "project"
                          /\ (swallowed \/ shown["summary"] # Answer(req.scope, req.phase, k)))
  BY DEF SummaryLoaded, Shows
<1>3. TypeInv /\ view \in Views /\ "summary" \in Requests /\ "summary" \in Panels
  BY PanelNames DEF Inv, TypeInv, Panels
<1>4. PICK answer : answer = Answer(req.scope, req.phase, k)
  OBVIOUS
<1>5. /\ Shown(answer)
      /\ answer.content = Content(req.scope) /\ answer.phase = req.phase /\ answer.edits >= req.since
  <2>1. req.since \in Nat /\ edits[Content(req.scope)] \in Nat
    BY <1>1, <1>3, WithoutFits DEF RequestsOf, Readable, TypeInv
  <2>2. k \in 0..edits[Content(req.scope)] /\ k >= req.since
    BY <2>1
  <2> QED
    BY <1>1, <1>3, <1>4, <2>2, AnswerType
<1>6. shown' = [shown EXCEPT !["summary"] = answer] /\ shown'["summary"] = answer
      /\ \A x \in Panels \ {"summary"} : shown'[x] = shown[x]
  BY <1>2, <1>3, <1>4 DEF TypeInv
<1>7. req \in RequestsOf("summary")
  BY <1>3, WithoutFits
<1> HIDE DEF req
<1>8. Taken("summary", req, shown', lost')
  BY <1>1, <1>5, <1>6 DEF Taken, Heard
<1>9. swallowed' \/ (~swallowed /\ shown'["summary"] = shown["summary"]) \/ Pays("summary", req.task, "lists")
  BY <1>2, <1>4, <1>6 DEF Pays
<1>10. p \in Projects
  BY <1>7 DEF RequestsOf
<1> HIDE DEF p
<1>11. phase \in PhaseNames /\ trace \in PhaseNames \cup {All}
  BY <1>3, <1>10, ProjectNames DEF Views
<1>12. PhaseInv'
  <2>1. view'.project = view.project /\ view'.phase = phase /\ view'.trace = trace
    BY <1>1, <1>3 DEF Views
  <2>2. ASSUME "phase" \notin crossed' PROVE PhaseFits(view')
    <3>1. PhaseFits(view) /\ (p = view.project \/ view' = view)
      BY <1>1, <2>2 DEF Inv, PhaseInv
    <3>2. CASE p = view.project
      <4>1. ActivePhase[p] \in {None} \cup PhasesOf[view.project]
        BY <1>10, <3>2, ProjectNames
      <4> QED
        BY <2>1, <3>1, <4>1 DEF PhaseFits
    <3>3. CASE view' = view
      BY <3>1, <3>3
    <3> QED
      BY <3>1, <3>2, <3>3
  <2> QED
    BY <2>2 DEF PhaseInv
<1> HIDE DEF phase, trace
<1>13. shown' = shown \/ \E x \in Panels : \E a : Shown(a) /\ shown' = [shown EXCEPT ![x] = a]
  BY <1>3, <1>5, <1>6
<1>14. (events' = events \/ events' = events + 1) /\ stream' \in {stream, Scope(view)}
       /\ ("versions" \in crossed => "versions" \in crossed')
  BY <1>1, TurnCounts
<1> QED
  BY <1>1, <1>3, <1>8, <1>9, <1>11, <1>12, <1>13, <1>14, PhasesFit DEF req

\* The phases that are kept are phases.
LEMMA SyncedFits ==
    ASSUME TypeInv, NEW p \in Projects
    PROVE  \E phase \in PhaseNames, trace \in PhaseNames \cup {All} :
              /\ Synced(p) = [view EXCEPT !.phase = phase, !.trace = trace]
              /\ phase \in {None, view.phase} /\ trace \in {None, view.trace}
              /\ phase \in {None} \cup PhasesOf[p] /\ trace \in {None, All} \cup PhasesOf[p]
<1> DEFINE phase == IF view.phase \in PhasesOf[p] \cup {All} THEN view.phase ELSE None
           trace == IF view.trace \in PhasesOf[p] \cup {All} THEN view.trace ELSE None
<1>1. Synced(p) = [view EXCEPT !.phase = phase, !.trace = trace]
  BY DEF Synced
<1>2. view.phase \in PhaseNames /\ view.trace \in PhaseNames \cup {All} /\ None \in PhaseNames
  BY DEF TypeInv, Views, PhaseNames
<1>3. view.phase # All
  BY <1>2, DashboardAssumption
<1>4. /\ phase \in PhaseNames /\ trace \in PhaseNames \cup {All}
      /\ phase \in {None, view.phase} /\ trace \in {None, view.trace}
      /\ phase \in {None} \cup PhasesOf[p] /\ trace \in {None, All} \cup PhasesOf[p]
  BY <1>2, <1>3
<1> HIDE DEF phase, trace
<1> QED
  BY <1>1, <1>4

LEMMA ListsLoadedFits ==
    ASSUME Inv, NEW n \in DOMAIN flight["lists"], ListsLoaded(n)
    PROVE  Inv'
<1> DEFINE req == flight["lists"][n]
           p == req.scope[1]
<1>1. /\ Readable(req)
      /\ view' = Synced(p)
      /\ Heard("lists", req)
      /\ crossed' = IF p = view.project THEN crossed \ {"phase"} ELSE crossed
      /\ flight' = GoesOn(Watched(Without("lists", n), view'), "lists", req.task, view')
      /\ InTurn(n) /\ UNCHANGED <<edits, chain, stream, swallowed>>
  BY DEF ListsLoaded
<1>2. PICK k \in req.since..edits[Content(req.scope)] :
         shown' = [shown EXCEPT !["lists"] = Answer(req.scope, req.phase, k)]
  BY DEF ListsLoaded, Shows
<1>3. TypeInv /\ view \in Views /\ "lists" \in Requests /\ "lists" \in Panels /\ "summary" \in Panels \ {"lists"}
  BY PanelNames DEF Inv, TypeInv, Panels
<1>4. PICK answer : answer = Answer(req.scope, req.phase, k)
  OBVIOUS
<1>5. /\ Shown(answer)
      /\ answer.content = Content(req.scope) /\ answer.phase = req.phase /\ answer.edits >= req.since
  <2>1. req.since \in Nat /\ edits[Content(req.scope)] \in Nat
    BY <1>1, <1>3, WithoutFits DEF RequestsOf, Readable, TypeInv
  <2>2. k \in 0..edits[Content(req.scope)] /\ k >= req.since
    BY <2>1
  <2> QED
    BY <1>1, <1>3, <1>4, <2>2, AnswerType
<1>6. shown' = [shown EXCEPT !["lists"] = answer] /\ shown'["lists"] = answer
      /\ \A x \in Panels \ {"lists"} : shown'[x] = shown[x]
  BY <1>2, <1>3, <1>4 DEF TypeInv
<1>7. req \in RequestsOf("lists")
  BY <1>3, WithoutFits
<1> HIDE DEF req
<1>8. Taken("lists", req, shown', lost')
  BY <1>1, <1>5, <1>6 DEF Taken, Heard
<1>9. swallowed' \/ (~swallowed /\ shown'["summary"] = shown["summary"])
  BY <1>1, <1>3, <1>6
<1>10. p \in Projects
  BY <1>7 DEF RequestsOf
<1> HIDE DEF p
<1>11. PICK phase \in PhaseNames, trace \in PhaseNames \cup {All} :
          /\ view' = [view EXCEPT !.phase = phase, !.trace = trace]
          /\ phase \in {None, view.phase} /\ trace \in {None, view.trace}
          /\ phase \in {None} \cup PhasesOf[p] /\ trace \in {None, All} \cup PhasesOf[p]
  BY <1>1, <1>3, <1>10, SyncedFits
<1>12. PhaseInv'
  <2>1. view'.project = view.project /\ view'.phase = phase /\ view'.trace = trace
    BY <1>3, <1>11 DEF Views
  <2>2. ASSUME "phase" \notin crossed' PROVE PhaseFits(view')
    <3>1. CASE p = view.project
      BY <1>11, <2>1, <3>1 DEF PhaseFits
    <3>2. CASE p # view.project
      <4>1. PhaseFits(view)
        BY <1>1, <2>2, <3>2 DEF Inv, PhaseInv
      <4> QED
        BY <1>11, <2>1, <4>1 DEF PhaseFits
    <3> QED
      BY <3>1, <3>2
  <2> QED
    BY <2>2 DEF PhaseInv
<1>13. shown' = shown \/ \E x \in Panels : \E a : Shown(a) /\ shown' = [shown EXCEPT ![x] = a]
  BY <1>3, <1>5, <1>6
<1>14. (events' = events \/ events' = events + 1) /\ stream' \in {stream, Scope(view)}
       /\ ("versions" \in crossed => "versions" \in crossed')
  BY <1>1, TurnCounts
<1> QED
  BY <1>1, <1>3, <1>8, <1>9, <1>11, <1>12, <1>13, <1>14, PhasesFit DEF req

\* The view as it is, seen as one with its phases.
LEMMA SamePhases ==
    ASSUME TypeInv
    PROVE  /\ view = [view EXCEPT !.phase = view.phase, !.trace = view.trace]
           /\ view.phase \in PhaseNames /\ view.trace \in PhaseNames \cup {All}
BY DEF TypeInv, Views

LEMMA CoverageLoadedFits ==
    ASSUME Inv, NEW n \in DOMAIN flight["coverage"], CoverageLoaded(n)
    PROVE  Inv'
<1> DEFINE req == flight["coverage"][n]
           f == Without("coverage", n)
<1>1. /\ Readable(req) /\ Heard("coverage", req)
      /\ flight' = GoesOn(f, "coverage", req.task, view)
      /\ InTurn(n) /\ UNCHANGED <<edits, view, chain, stream, swallowed, crossed>>
  BY DEF CoverageLoaded
<1>2. shown' = [shown EXCEPT !["coverage"] = Answer(req.scope, req.phase, 0)]
  BY DEF CoverageLoaded, Shows
<1>3. TypeInv /\ "coverage" \in Requests /\ "coverage" \in Panels /\ "summary" \in Panels \ {"coverage"}
  BY PanelNames DEF Inv, Panels
<1>4. PICK answer : answer = Answer(req.scope, req.phase, 0)
  OBVIOUS
<1>5. /\ Shown(answer)
      /\ answer.content = Content(req.scope) /\ answer.phase = req.phase
  <2>1. 0 \in 0..edits[Content(req.scope)]
    BY <1>1, <1>3 DEF Readable, TypeInv
  <2> QED
    BY <1>1, <1>3, <1>4, <2>1, AnswerType
<1>6. shown' = [shown EXCEPT !["coverage"] = answer] /\ shown'["coverage"] = answer
      /\ \A x \in Panels \ {"coverage"} : shown'[x] = shown[x]
  BY <1>2, <1>3, <1>4 DEF TypeInv
<1> HIDE DEF req, f
<1>7. Taken("coverage", req, shown', lost')
  BY <1>1, <1>5, <1>6 DEF Taken, Heard
<1>8. swallowed' \/ (~swallowed /\ shown'["summary"] = shown["summary"])
  BY <1>1, <1>3, <1>6
<1>9. flight' = GoesOn(Watched(f, view'), "coverage", req.task, view')
  BY <1>1, Unwatched
<1>10. /\ view' = [view EXCEPT !.phase = view.phase, !.trace = view.trace]
       /\ view.phase \in PhaseNames /\ view.trace \in PhaseNames \cup {All}
  BY <1>1, <1>3, SamePhases
<1>11. PhaseInv'
  BY <1>1 DEF Inv, PhaseInv
<1>12. shown' = shown \/ \E x \in Panels : \E a : Shown(a) /\ shown' = [shown EXCEPT ![x] = a]
  BY <1>3, <1>5, <1>6
<1>13. (events' = events \/ events' = events + 1) /\ stream' \in {stream, Scope(view)}
       /\ ("versions" \in crossed => "versions" \in crossed')
  BY <1>1, TurnCounts
<1> QED
  BY <1>1, <1>3, <1>7, <1>8, <1>9, <1>10, <1>11, <1>12, <1>13, PhasesFit DEF req, f

LEMMA FailsFits ==
    ASSUME Inv, NEW r \in Requests, NEW n \in DOMAIN flight[r], Fails(r, n)
    PROVE  Inv'
<1> DEFINE req == flight[r][n]
<1>1. /\ view' = IF r = "lists" THEN Synced(shown["lists"].content[1]) ELSE view
      /\ events' = events + 1
      /\ lost' = lost \cup {r}
      /\ stream' \in {stream, Scope(view)}
      /\ flight' = GoesOn(Watched(Without(r, n), view'), r, req.task, view')
      /\ UNCHANGED <<edits, shown, chain, swallowed, crossed>>
  BY DEF Fails, Counted
<1>2. TypeInv /\ view \in Views
  BY DEF Inv, TypeInv
<1> HIDE DEF req
<1>3. PICK phase \in PhaseNames, trace \in PhaseNames \cup {All} :
         /\ view' = [view EXCEPT !.phase = phase, !.trace = trace]
         /\ phase \in {None, view.phase} /\ trace \in {None, view.trace}
  <2>1. CASE r = "lists"
    <3>1. shown["lists"].content[1] \in Projects
      BY <1>2 DEF TypeInv, Panels, Answers
    <3> QED
      BY <1>1, <1>2, <2>1, <3>1, SyncedFits
  <2>2. CASE r # "lists"
    BY <1>1, <1>2, <2>2, SamePhases
  <2> QED
    BY <2>1, <2>2
<1>4. PhaseInv'
  <2>1. view'.project = view.project /\ view'.phase = phase /\ view'.trace = trace
    BY <1>2, <1>3 DEF Views
  <2> QED
    BY <1>1, <1>3, <2>1 DEF Inv, PhaseInv, PhaseFits
<1>5. Taken(r, req, shown', lost')
  BY <1>1 DEF Taken
<1>6. swallowed' \/ (~swallowed /\ shown'["summary"] = shown["summary"])
  BY <1>1
<1>7. ("versions" \in crossed => "versions" \in crossed') /\ shown' = shown
  BY <1>1
<1> QED
  BY <1>1, <1>2, <1>3, <1>4, <1>5, <1>6, <1>7, PhasesFit DEF req

LEMMA ChainLoadedFits ==
    ASSUME Inv, NEW n \in DOMAIN flight["chain"], ChainLoaded(n)
    PROVE  Inv'
<1> DEFINE req == flight["chain"][n]
<1>1. /\ chain' = Answer(req.scope, req.phase, 0)
      /\ Heard("chain", req)
      /\ flight' = Without("chain", n)
      /\ InTurn(n) /\ UNCHANGED <<edits, view, shown, stream, swallowed, crossed>>
  BY DEF ChainLoaded
<1>2. TypeInv /\ view \in Views /\ "chain" \in Requests
  BY PanelNames DEF Inv, TypeInv
<1>3. /\ req \in RequestsOf("chain") /\ flight' \in Flights /\ MovesOnly(flight, flight', {"chain"})
      /\ \A kind : Waiting(flight, "chain", kind) => Waiting(flight', "chain", kind) \/ req.task[1] = kind
  BY <1>1, <1>2, WithoutFits
<1>4. \A good, idle, after :
         /\ Ending(flight["chain"], good, idle)
         /\ req.late \/ req \in good => after
         => Ending(flight'["chain"], good, after)
  BY <1>1, <1>2, WithoutFits
<1> HIDE DEF req
<1>5. /\ chain' \in Answers /\ chain' # None
      /\ chain'.content = Content(req.scope) /\ chain'.phase = req.phase
  <2>1. Content(req.scope) \in Projects \X Versions /\ req.phase \in PhaseNames /\ 0 \in Nat
    BY <1>3, ContentType DEF RequestsOf
  <2>2. chain' \in Answers /\ chain'.content = Content(req.scope) /\ chain'.phase = req.phase
    BY <1>1, <2>1 DEF Answer, Answers
  <2> QED
    BY <2>2, DashboardAssumption
<1>6. \A x \in Panels : flight'[x] = flight[x]
  BY <1>3, PanelNames DEF MovesOnly
<1>7. TypeInv'
  <2>1. stream' \in Projects \X ({None} \cup Versions)
    BY <1>1, <1>2 DEF TypeInv
  <2> QED
    BY <1>1, <1>2, <1>3, <1>5, <2>1, TurnCounts, AnsweredType
<1>8. lost \subseteq lost' \cup {"chain"} /\ (req.late => "chain" \in lost')
  BY <1>1 DEF Heard
<1>9. \A x : Owed(flight, x) => Owed(flight', x)
  <2>1. flight'["versions"] = flight["versions"] /\ flight'["summary"] = flight["summary"]
    BY <1>3, PanelNames DEF MovesOnly, Panels
  <2> QED
    BY <2>1 DEF Owed, Waiting
<1>10. ASSUME NEW x \in Panels, PanelWell(x, flight, view, shown, lost)
       PROVE  PanelWell(x, flight', view, shown, lost')
  BY <1>6, <1>8, <1>9, <1>10, PanelNames DEF PanelWell, Ending
<1>11. ASSUME ChainWell(flight, view, chain, lost) PROVE ChainWell(flight', view, chain', lost')
  <2>1. CASE ChainOwed(flight, chain)
    BY <1>5, <1>6, <2>1 DEF ChainOwed, Waiting, ChainWell
  <2>2. CASE ~ChainOwed(flight, chain)
    <3>1. Ending(flight["chain"], Wanted("chain", view), chain = None \/ "chain" \in lost \/ Right(chain, "chain", view))
      BY <1>11, <2>2 DEF ChainWell
    <3>2. req.late \/ req \in Wanted("chain", view)
          => (chain' = None \/ "chain" \in lost' \/ Right(chain', "chain", view))
      BY <1>5, <1>8 DEF Wanted, Target, Right
    <3> QED
      BY <1>4, <3>1, <3>2 DEF ChainWell
  <2> QED
    BY <2>1, <2>2
<1>12. ASSUME ListsWell(flight, shown, lost) PROVE ListsWell(flight', shown, lost')
  <2>1. flight'["lists"] = flight["lists"] /\ ("lists" \in lost => "lists" \in lost')
    BY <1>6, <1>8 DEF Panels
  <2> QED
    BY <1>9, <1>12, <2>1 DEF ListsWell, Ending
<1>13. FollowInv' /\ RecentInv' /\ PhaseInv'
  BY <1>1, <1>10, <1>11, <1>12 DEF Inv, FollowInv, RecentInv, PhaseInv, Well
<1> QED
  BY <1>7, <1>13 DEF Inv

-----------------------------------------------------------------------------
(***************************************************************************)
(* Every step, and what follows for the tab.                               *)
(***************************************************************************)
LEMMA NextInv == Inv /\ [Next]_vars => Inv'
<1> SUFFICES ASSUME Inv, [Next]_vars PROVE Inv'
  OBVIOUS
<1>1. CASE UNCHANGED vars
  BY <1>1 DEF vars, Inv, TypeInv, Shown, FollowInv, RecentInv, PhaseInv
<1>2. CASE Others
  BY <1>2, OthersFits
<1>3. CASE \E p \in Projects : SwitchProject(p)
  BY <1>3, SwitchProjectFits
<1>4. CASE \E v \in Versions : SwitchVersion(v)
  BY <1>4, SwitchVersionFits
<1>5. CASE \E phase \in {None} \cup PhasesOf[view.project] : PickPhase(phase)
  BY <1>5, PickPhaseFits
<1>6. CASE \E trace \in {All} \cup PhasesOf[view.project] : PickTrace(trace)
  BY <1>6, PickTraceFits
<1>7. CASE OpenVersions
  BY <1>7, OpenVersionsFits
<1>8. CASE OpenChain
  BY <1>8, OpenChainFits
<1>9. CASE Act({"lists", "coverage", "summary"}) \/ Act({"summary"})
  <2>1. {"lists", "coverage", "summary"} \in SUBSET Panels /\ {"summary"} \in SUBSET Panels
    BY DEF Panels
  <2> QED
    BY <1>9, <2>1, ActFits
<1>10. CASE \E n \in DOMAIN flight["versions"] : VersionsLoaded(n)
  BY <1>10, VersionsLoadedFits
<1>11. CASE \E n \in DOMAIN flight["summary"] : SummaryLoaded(n)
  BY <1>11, SummaryLoadedFits
<1>12. CASE \E n \in DOMAIN flight["lists"] : ListsLoaded(n)
  BY <1>12, ListsLoadedFits
<1>13. CASE \E n \in DOMAIN flight["coverage"] : CoverageLoaded(n)
  BY <1>13, CoverageLoadedFits
<1>14. CASE \E n \in DOMAIN flight["chain"] : ChainLoaded(n)
  BY <1>14, ChainLoadedFits
<1>15. CASE \E r \in Requests : \E n \in DOMAIN flight[r] : Fails(r, n)
  BY <1>15, FailsFits
<1>16. CASE Tick
  BY <1>16, TickFits
<1> QED
  BY <1>1, <1>2, <1>3, <1>4, <1>5, <1>6, <1>7, <1>8, <1>9, <1>10, <1>11, <1>12, <1>13, <1>14, <1>15, <1>16 DEF Next

\* The invariant holds of a tab in every state.
THEOREM InvAlways == Spec => []Inv
BY InitInv, NextInv, PTL DEF Spec

\* Once all answers are in, and none was lost, came late or was meant for a project
\* that was left, every panel shows the project, version and phase in view, however
\* the user's moves, the answers and the ticks of the stream interleave
\* (switchProject, switchVersion, the watchers and the onmessage of app.js).
THEOREM PanelsAlwaysFollow == Spec => []PanelsFollow
<1>1. Inv => PanelsFollow
  BY InvImplies
<1> QED
  BY <1>1, InvAlways, PTL

\* And the lists are then no older than the summary beside them, unless a reload of
\* the summary alone took a change for itself (the stream's onmessage).
THEOREM ListsAlwaysKeepUp == Spec => []ListsKeepUp
<1>1. Inv => ListsKeepUp
  BY InvImplies
<1> QED
  BY <1>1, InvAlways, PTL
===============================================================================
