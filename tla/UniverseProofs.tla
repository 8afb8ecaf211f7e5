------------------------------- MODULE UniverseProofs -------------------------------
(***************************************************************************)
(* No statement of a refresh trips over a foreign key, a client that pages *)
(* through a universe misses nobody, and targeting names constituents      *)
(* only: for any universes, files, sectors and pages.                      *)
(***************************************************************************)
EXTENDS Targeting, FiniteSetTheorems, SequenceTheorems, TLAPS

USE UniverseAssumption

-----------------------------------------------------------------------------
(* The rows of the tables; their first component names the table.          *)
SectorRow == {"sector"} \X (SectorName \cup {"unknown"})
IndustryRow == {"industry"} \X DOMAIN SectorOf
UniverseRow == {"universe"} \X UniverseId
SecurityRow == {"security"} \X Symbol
MemberRow == {"member"} \X UniverseId \X Symbol \X Nat
Row == SectorRow \cup IndustryRow \cup UniverseRow \cup SecurityRow \cup MemberRow

Files == [UniverseId -> SUBSET Symbol]
Refreshing == [phase : 1..6, files : Files, eff : Nat, left : SUBSET Row]
ClientState == [cursor : Nat, universe : UniverseId \cup {"none"}, got : SUBSET Symbol,
                first : SUBSET Symbol, done : BOOLEAN]

(* The tables: nothing dangles, and no membership begins after today.      *)
TableInv ==
  /\ day \in Nat /\ files \in Files
  /\ rows \subseteq Row /\ IsFiniteSet(rows)
  /\ \A row \in rows : row[1] = "member" => row[4] <= day
  /\ NoDanglingRow

(* A refresh has written the phases behind it and what it has done of its  *)
(* own, but for industries it had no table for; a membership it still has  *)
(* to write begins today or before.                                        *)
Progress(r, table, today) ==
  r # Off =>
    /\ r.left \subseteq Phase(r.phase, r.files, r.eff)
    /\ Phase(r.phase, r.files, r.eff) \ r.left \subseteq table
    /\ r.phase > 1 => <<"sector", "unknown">> \in table
    /\ r.phase > 2 => SectorRows \subseteq table
    /\ r.phase > 4 => UniverseRows \subseteq table
    /\ r.phase > 5 => SecurityRows(r.files) \subseteq table
    /\ r.eff <= today

RefreshInv ==
  /\ refresh \in [Writer -> {Off} \cup Refreshing]
  /\ \A w \in Writer : Progress(refresh[w], rows, day)

(* A constituent the client has not been shown has a row that lies behind  *)
(* its cursor: rows that are inserted before it push it further on.        *)
Ahead(c, s) ==
  \E m \in InForce(client[c].universe) :
    m[3] = s /\ Rank(InForce(client[c].universe), m) > client[c].cursor

ReaderInv ==
  /\ client \in [Client -> ClientState]
  /\ \A c \in Client :
       /\ client[c].universe = "none" => client[c].cursor = 0 /\ client[c].first = {} /\ ~client[c].done
       /\ \A s \in client[c].first : s \in client[c].got \/ (~client[c].done /\ Ahead(c, s))

TargetState ==
  [pc : {"start", "chosen", "model", "rules", "done", "failed"}, story : Story \cup {"none"},
   universes : SUBSET UniverseId, valid : SUBSET Symbol, impact : Impact \cup {"none"},
   tickers : SUBSET Symbol]

(* Whoever is on the whitelist of a request, or in its answer, is a        *)
(* constituent of one of its universes, and stays one.                     *)
Backed(q) == \A s \in q.valid \cup q.tickers : \E u \in q.universes : s \in ConstituentsOf(u)

TargetInv ==
  /\ impact \in [Story -> Impact]
  /\ target \in [Target -> TargetState]
  /\ \A t \in Target : /\ Backed(target[t])
                       /\ target[t].pc \in {"start", "chosen"} => target[t].tickers = {}
                       /\ target[t].pc = "chosen" => target[t].story \in Story

IInv == TableInv /\ RefreshInv /\ ReaderInv /\ TargetInv

-----------------------------------------------------------------------------
LEMMA Tables ==
  ASSUME NEW row \in Row
  PROVE  /\ row[1] \in {"sector", "industry", "universe", "security", "member"}
         /\ row[1] = "member" => row \in MemberRow
BY DEF Row, SectorRow, IndustryRow, UniverseRow, SecurityRow, MemberRow

LEMMA Phases ==
  ASSUME NEW f, NEW d
  PROVE  /\ Phase(1, f, d) = {<<"sector", "unknown">>} /\ Phase(2, f, d) = SectorRows
         /\ Phase(3, f, d) = IndustryRows /\ Phase(4, f, d) = UniverseRows
         /\ Phase(5, f, d) = SecurityRows(f) /\ Phase(6, f, d) = MemberRows(f, d)
BY DEF Phase

(* What a statement of each phase needs and what it writes.                *)
LEMMA PhaseRows ==
  ASSUME NEW f \in Files, NEW d \in Nat, NEW n \in 1..6, NEW row \in Phase(n, f, d)
  PROVE  /\ row \in Row
         /\ row[1] = "member" => n = 6 /\ row[4] = d
         /\ n \in {1, 2, 4} => References(row) = {}
         /\ n = 3 => References(row) \subseteq SectorRows \cup {<<"sector", "unknown">>}
         /\ n = 5 => References(row) \subseteq {<<"sector", "unknown">>}
         /\ n = 6 => References(row) \subseteq UniverseRows \cup SecurityRows(f)
<1>1. CASE n = 1
  <2>1. row = <<"sector", "unknown">>
    BY <1>1, Phases
  <2> QED
    BY <1>1, <2>1 DEF Row, SectorRow, References
<1>2. CASE n = 2
  <2>1. PICK s \in SectorName : row = <<"sector", s>>
    BY <1>2, Phases DEF SectorRows
  <2> QED
    BY <1>2, <2>1 DEF Row, SectorRow, References
<1>3. CASE n = 3
  <2>1. PICK i \in DOMAIN SectorOf : row = <<"industry", i>>
    BY <1>3, Phases DEF IndustryRows
  <2>2. References(row) = {<<"sector", SectorOf[i]>>}
    BY <2>1 DEF References
  <2> QED
    BY <1>3, <2>1, <2>2 DEF Row, IndustryRow, SectorRows
<1>4. CASE n = 4
  <2>1. PICK u \in UniverseId : row = <<"universe", u>>
    BY <1>4, Phases DEF UniverseRows
  <2> QED
    BY <1>4, <2>1 DEF Row, UniverseRow, References
<1>5. CASE n = 5
  <2>1. PICK s \in Listed(f) : row = <<"security", s>>
    BY <1>5, Phases DEF SecurityRows
  <2>2. s \in Symbol
    BY DEF Listed, Files
  <2> QED
    BY <1>5, <2>1, <2>2 DEF Row, SecurityRow, References
<1>6. CASE n = 6
  <2>1. PICK p \in Pairs(f) : row = <<"member", p[1], p[2], d>>
    BY <1>6, Phases DEF MemberRows, Member
  <2>2. p[1] \in UniverseId /\ p[2] \in Symbol /\ p[2] \in f[p[1]]
    BY DEF Pairs
  <2>3. p[2] \in Listed(f)
    BY <2>2 DEF Listed
  <2>4. References(row) = {<<"universe", p[1]>>, <<"security", p[2]>>}
    BY <2>1 DEF References
  <2>5. row \in MemberRow /\ row[1] = "member" /\ row[4] = d
    BY <2>1, <2>2 DEF MemberRow
  <2> QED
    BY <1>6, <2>2, <2>3, <2>4, <2>5 DEF Row, UniverseRows, SecurityRows
<1> QED
  BY <1>1, <1>2, <1>3, <1>4, <1>5, <1>6

(* So a statement finds what it refers to.                                 *)
LEMMA NewRow ==
  ASSUME TableInv, NEW r \in Refreshing, Progress(r, rows, day), NEW row \in r.left
  PROVE  /\ row \in Row /\ References(row) \subseteq rows
         /\ row[1] = "member" => row[4] <= day
<1>0. r # Off
  BY DEF Off, Refreshing
<1>2. r.files \in Files /\ r.eff \in Nat /\ r.phase \in 1..6
  BY DEF Refreshing
<1>3. row \in Phase(r.phase, r.files, r.eff)
  BY <1>0 DEF Progress
<1> DEFINE n == r.phase
           f == r.files
           d == r.eff
<1>4. /\ n > 1 => <<"sector", "unknown">> \in rows
      /\ n > 2 => SectorRows \subseteq rows
      /\ n > 4 => UniverseRows \subseteq rows
      /\ n > 5 => SecurityRows(f) \subseteq rows
      /\ d <= day
  BY <1>0 DEF Progress
<1>5. /\ row \in Row
      /\ row[1] = "member" => row[4] = d
      /\ n \in {1, 2, 4} => References(row) = {}
      /\ n = 3 => References(row) \subseteq SectorRows \cup {<<"sector", "unknown">>}
      /\ n = 5 => References(row) \subseteq {<<"sector", "unknown">>}
      /\ n = 6 => References(row) \subseteq UniverseRows \cup SecurityRows(f)
  BY <1>2, <1>3, PhaseRows
<1>6. n \in 1..6
  BY <1>2
<1> HIDE DEF n, f, d
<1> QED
  BY <1>4, <1>5, <1>6
-----------------------------------------------------------------------------
(* The refresh.                                                            *)
LEMMA PhaseIsRows ==
  ASSUME NEW f \in Files, NEW d \in Nat, NEW n \in 1..6
  PROVE  Phase(n, f, d) \in SUBSET Row
BY PhaseRows

(* Time and the statements of others spoil no refresh.                     *)
LEMMA ProgressKept ==
  ASSUME NEW r \in {Off} \cup Refreshing, Progress(r, rows, day),
         rows \subseteq rows', day \in Nat, day' \in Nat, day <= day'
  PROVE  Progress(r, rows', day')
<1>1. r # Off => r.eff \in Nat
  BY DEF Refreshing
<1> QED
  BY <1>1 DEF Progress

(* A step of one of them.                                                  *)
LEMMA OneRefresh ==
  ASSUME TableInv, RefreshInv, NEW w \in Writer, NEW n \in {Off} \cup Refreshing, Update(w, n),
         Progress(n, rows', day'), rows \subseteq rows', day' = day
  PROVE  RefreshInv'
<1>1. refresh' = [refresh EXCEPT ![w] = n] /\ refresh \in [Writer -> {Off} \cup Refreshing]
  BY DEF Update, RefreshInv
<1>2. refresh' \in [Writer -> {Off} \cup Refreshing]
  BY <1>1
<1>3. \A x \in Writer : refresh'[x] = IF x = w THEN n ELSE refresh[x]
  BY <1>1
<1>4. ASSUME NEW x \in Writer PROVE Progress(refresh'[x], rows', day')
  <2>1. CASE x = w
    BY <1>3, <2>1
  <2>2. CASE x # w
    <3>1. refresh'[x] = refresh[x] /\ refresh[x] \in {Off} \cup Refreshing
      BY <1>1, <1>3, <2>2
    <3>2. Progress(refresh[x], rows, day) /\ day \in Nat
      BY DEF RefreshInv, TableInv
    <3>3. Progress(refresh[x], rows', day')
      BY <3>1, <3>2, ProgressKept
    <3> QED
      BY <3>1, <3>3
  <2> QED
    BY <2>1, <2>2
<1> QED
  BY <1>2, <1>4 DEF RefreshInv

LEMMA StartKeeps ==
  ASSUME TableInv, RefreshInv, NEW w \in Writer, StartRefresh(w)
  PROVE  TableInv' /\ RefreshInv'
<1> DEFINE f == FilesRead(w)
           n == [phase |-> 1, files |-> f, eff |-> 0, left |-> Phase(1, f, 0)]
<1>1. Update(w, n) /\ UNCHANGED <<day, files, rows>>
  BY DEF StartRefresh
<1>2. f \in Files /\ day \in Nat
  BY DEF TableInv, FilesRead, Files
<1> HIDE DEF f
<1>3. Phase(1, f, 0) \in SUBSET Row
  BY <1>2, PhaseIsRows
<1>4. n \in Refreshing
  BY <1>2, <1>3 DEF Refreshing
<1>5. n.phase = 1 /\ n.files = f /\ n.eff = 0 /\ n.left = Phase(1, f, 0)
  OBVIOUS
<1> HIDE DEF n
<1>6. Progress(n, rows', day')
  BY <1>1, <1>2, <1>5 DEF Progress
<1>7. TableInv'
  BY <1>1 DEF TableInv, NoDanglingRow
<1> QED
  BY <1>1, <1>4, <1>6, <1>7, OneRefresh

LEMMA WriteKeeps ==
  ASSUME TableInv, RefreshInv, NEW w \in Writer, WriteRow(w)
  PROVE  TableInv' /\ RefreshInv'
<1> DEFINE r == refresh[w]
<1>1. r # Off /\ r \in Refreshing /\ Progress(r, rows, day) /\ UNCHANGED <<day, files>>
  BY DEF WriteRow, RefreshInv, Running
<1>2. PICK row \in r.left : rows' = rows \cup {row} /\ Update(w, [r EXCEPT !.left = @ \ {row}])
  BY DEF WriteRow
<1> HIDE DEF r
<1>3. row \in Row /\ References(row) \subseteq rows /\ (row[1] = "member" => row[4] <= day)
  BY <1>1, NewRow
<1>4. TableInv'
  <2>1. rows' \subseteq Row /\ IsFiniteSet(rows')
    BY <1>2, <1>3, FS_AddElement DEF TableInv
  <2>2. \A x \in rows' : x[1] = "member" => x[4] <= day
    BY <1>2, <1>3 DEF TableInv
  <2>3. \A x \in rows' : References(x) \subseteq rows'
    BY <1>2, <1>3 DEF TableInv, NoDanglingRow
  <2> QED
    BY <1>1, <2>1, <2>2, <2>3 DEF TableInv, NoDanglingRow
<1> DEFINE n == [r EXCEPT !.left = @ \ {row}]
<1>5. n \in Refreshing /\ n.phase = r.phase /\ n.files = r.files /\ n.eff = r.eff
      /\ n.left = r.left \ {row}
  BY <1>1 DEF Refreshing
<1>6. Update(w, n)
  BY <1>2
<1> HIDE DEF n
<1>7. Progress(n, rows', day')
  <2> DEFINE P == Phase(r.phase, r.files, r.eff)
  <2>1. r.left \subseteq P /\ P \ r.left \subseteq rows
    BY <1>1 DEF Progress
  <2>2. n.left \subseteq P /\ P \ n.left \subseteq rows'
    BY <1>2, <1>5, <2>1
  <2>3. Phase(n.phase, n.files, n.eff) = P
    BY <1>5
  <2>4. /\ r.phase > 1 => <<"sector", "unknown">> \in rows
        /\ r.phase > 2 => SectorRows \subseteq rows
        /\ r.phase > 4 => UniverseRows \subseteq rows
        /\ r.phase > 5 => SecurityRows(r.files) \subseteq rows
        /\ r.eff <= day
    BY <1>1 DEF Progress
  <2>5. SecurityRows(n.files) = SecurityRows(r.files)
    BY <1>5
  <2> HIDE DEF P
  <2>6. rows \subseteq rows'
    BY <1>2
  <2> QED
    BY <1>1, <1>5, <2>2, <2>3, <2>4, <2>5, <2>6 DEF Progress
<1> QED
  BY <1>1, <1>2, <1>4, <1>5, <1>6, <1>7, OneRefresh

(* To the next phase, with the rows of this one written or, if they are    *)
(* those of the industries, not.                                           *)
LEMMA GoOnKeeps ==
  ASSUME TableInv, RefreshInv, NEW w \in Writer, Running(w), refresh[w].phase < 6,
         refresh[w].left = {} \/ refresh[w].phase = 3, GoOn(w), UNCHANGED <<day, files, rows>>
  PROVE  TableInv' /\ RefreshInv'
<1> DEFINE r == refresh[w]
           e == Eff(w)
           k == r.phase
           f == r.files
           n == [r EXCEPT !.phase = @ + 1, !.eff = e, !.left = Phase(k + 1, f, e)]
<1>1. r # Off /\ k < 6 /\ (r.left = {} \/ k = 3) /\ Update(w, n)
  BY DEF GoOn, Running
<1>2. r \in Refreshing /\ Progress(r, rows, day)
  BY <1>1 DEF RefreshInv
<1>3. k \in 1..5 /\ k + 1 \in 1..6 /\ f \in Files /\ e \in Nat /\ e <= day /\ day \in Nat
  BY <1>1, <1>2 DEF Refreshing, Progress, TableInv, Eff
<1>4. /\ k # 3 => Phase(k, f, r.eff) \subseteq rows
      /\ k > 1 => <<"sector", "unknown">> \in rows
      /\ k > 2 => SectorRows \subseteq rows
      /\ k > 4 => UniverseRows \subseteq rows
  BY <1>1, <1>2 DEF Progress
<1>5. Phase(k + 1, f, e) \in SUBSET Row
  BY <1>3, PhaseIsRows
<1> HIDE DEF r, k, f, e
<1>6. /\ n \in Refreshing /\ n.phase = k + 1 /\ n.files = f /\ n.eff = e
      /\ n.left = Phase(k + 1, f, e)
  BY <1>2, <1>3, <1>5 DEF Refreshing, k, f
<1> HIDE DEF n
<1>7. /\ k + 1 > 1 => <<"sector", "unknown">> \in rows
      /\ k + 1 > 2 => SectorRows \subseteq rows
      /\ k + 1 > 4 => UniverseRows \subseteq rows
      /\ k + 1 > 5 => SecurityRows(f) \subseteq rows
  <2>1. CASE k = 1
    BY <1>4, <2>1, Phases
  <2>2. CASE k = 2
    BY <1>4, <2>2, Phases
  <2>3. CASE k = 3
    BY <1>4, <2>3
  <2>4. CASE k = 4
    BY <1>4, <2>4, Phases
  <2>5. CASE k = 5
    BY <1>4, <2>5, Phases
  <2> QED
    BY <1>3, <2>1, <2>2, <2>3, <2>4, <2>5
<1>8. Progress(n, rows', day')
  BY <1>3, <1>6, <1>7 DEF Progress
<1>9. TableInv'
  BY DEF TableInv, NoDanglingRow
<1> QED
  BY <1>1, <1>6, <1>8, <1>9, OneRefresh

LEMMA StopKeeps ==
  ASSUME TableInv, RefreshInv, NEW w \in Writer, Update(w, Off), UNCHANGED <<day, files, rows>>
  PROVE  TableInv' /\ RefreshInv'
<1>1. Progress(Off, rows', day')
  BY DEF Progress
<1>2. TableInv'
  BY DEF TableInv, NoDanglingRow
<1> QED
  BY <1>1, <1>2, OneRefresh

LEMMA RestKeeps ==
  ASSUME TableInv, RefreshInv, UNCHANGED <<rows, refresh>>,
         day' \in Nat, day <= day', files' \in Files
  PROVE  TableInv' /\ RefreshInv'
<1>1. TableInv'
  <2>1. \A row \in rows : row[1] = "member" => row[4] \in Nat
    BY Tables DEF TableInv, MemberRow
  <2>2. \A row \in rows : row[1] = "member" => row[4] <= day'
    BY <2>1 DEF TableInv
  <2> QED
    BY <2>2 DEF TableInv, NoDanglingRow
<1>2. RefreshInv'
  <2>1. ASSUME NEW w \in Writer PROVE Progress(refresh'[w], rows', day')
    <3>1. /\ refresh[w] \in {Off} \cup Refreshing /\ Progress(refresh[w], rows, day)
          /\ day \in Nat /\ refresh'[w] = refresh[w]
      BY DEF RefreshInv, TableInv
    <3>2. Progress(refresh[w], rows', day')
      BY <3>1, ProgressKept
    <3> QED
      BY <3>1, <3>2
  <2> QED
    BY <2>1 DEF RefreshInv
<1> QED
  BY <1>1, <1>2

LEMMA TablesKept ==
  ASSUME TableInv, RefreshInv, [Next]_vars
  PROVE  /\ TableInv' /\ RefreshInv'
         /\ rows \subseteq rows' /\ day' \in Nat /\ day <= day'
<1>1. ASSUME NEW w \in Writer, Refreshes(w)
      PROVE  TableInv' /\ RefreshInv' /\ rows \subseteq rows' /\ day' = day /\ day \in Nat
  <2>1. CASE StartRefresh(w) \/ WriteRow(w)
    BY <2>1, StartKeeps, WriteKeeps DEF StartRefresh, WriteRow, TableInv
  <2>2. CASE NextPhase(w) \/ SkipIndustries(w)
    <3>1. /\ Running(w) /\ refresh[w].phase < 6 /\ GoOn(w) /\ UNCHANGED <<day, files, rows>>
          /\ refresh[w].left = {} \/ refresh[w].phase = 3
      <4>1. CASE NextPhase(w)
        <5>1. refresh[w] \in Refreshing
          BY <4>1 DEF NextPhase, Running, RefreshInv
        <5>2. refresh[w].phase < LastPhase(w) /\ refresh[w].phase \in 1..6 /\ LastPhase(w) \in {4, 6}
          BY <4>1, <5>1 DEF NextPhase, Refreshing, LastPhase
        <5> QED
          BY <4>1, <5>2 DEF NextPhase
      <4>2. CASE SkipIndustries(w)
        BY <4>2 DEF SkipIndustries
      <4> QED
        BY <2>2, <4>1, <4>2
    <3> QED
      BY <3>1, GoOnKeeps DEF TableInv
  <2>3. CASE EndRefresh(w) \/ AbortRefresh(w)
    BY <2>3, StopKeeps DEF EndRefresh, AbortRefresh, TableInv
  <2> QED
    BY <1>1, <2>1, <2>2, <2>3 DEF Refreshes
<1>2. ASSUME UNCHANGED <<rows, refresh>>, day' \in {day, day + 1}, files' \in Files
      PROVE  TableInv' /\ RefreshInv' /\ rows \subseteq rows' /\ day' \in Nat /\ day <= day'
  <2>1. day' \in Nat /\ day <= day'
    BY <1>2 DEF TableInv
  <2> QED
    BY <1>2, <2>1, RestKeeps
<1>3. CASE NextDay
  BY <1>2, <1>3 DEF NextDay, TableInv
<1>4. ASSUME NEW u \in UniverseId, NEW s \in Symbol, EditFile(u, s)
      PROVE  files' \in Files /\ UNCHANGED <<rows, refresh, day>>
  BY <1>4 DEF EditFile, TableInv, Files
<1>6. ASSUME NEW c \in Client, NEW u \in UniverseId, ReadPage(c, u)
      PROVE  UNCHANGED <<rows, refresh, day, files>>
  BY <1>6 DEF ReadPage
<1>7. CASE TNext
  <2>1. UNCHANGED uvars
    BY <1>7 DEF TNext, ChangeImpact, TargetStory, MissStory, TargetRaises, ChooseLatest, ReadLatest,
                AskModel, ApplyRules
  <2> QED
    BY <1>2, <2>1 DEF uvars, TableInv
<1>8. CASE UNCHANGED vars
  BY <1>2, <1>8 DEF vars, uvars, TableInv
<1>9. files \in Files
  BY DEF TableInv
<1> QED
  BY <1>1, <1>2, <1>3, <1>4, <1>6, <1>7, <1>8, <1>9 DEF Next, UNext
-----------------------------------------------------------------------------
(* The listing of a universe.  Its rows are ordered by their symbol and    *)
(* their first day, so that each has a place of its own.                   *)
LEMMA RowsAreOrdered ==
  ASSUME NEW u, NEW S \in SUBSET {m \in MemberRow : m[2] = u}, NEW m \in S, NEW n \in S
  PROVE  /\ UpTo(m, m) /\ (UpTo(m, n) \/ UpTo(n, m))
         /\ UpTo(m, n) /\ UpTo(n, m) => m = n
         /\ \A x \in S : UpTo(x, m) /\ UpTo(m, n) => UpTo(x, n)
<1>1. \A x \in S : x \in MemberRow /\ x[2] = u
  OBVIOUS
<1>2. \A x \in S : x = <<"member", u, x[3], x[4]>> /\ x[3] \in Nat /\ x[4] \in Nat
  <2>1. ASSUME NEW x \in MemberRow
        PROVE  x = <<"member", x[2], x[3], x[4]>> /\ x[3] \in Nat /\ x[4] \in Nat
    <3>1. x = <<x[1], x[2], x[3], x[4]>>
      BY DEF MemberRow
    <3>2. x[1] = "member" /\ x[3] \in Symbol /\ x[4] \in Nat
      BY DEF MemberRow
    <3> QED
      BY <3>1, <3>2
  <2> QED
    BY <1>1, <2>1
<1>3. m[3] = n[3] /\ m[4] = n[4] => m = n
  BY <1>2
<1> QED
  BY <1>2, <1>3 DEF UpTo

LEMMA RanksDiffer ==
  ASSUME NEW u, NEW S \in SUBSET {m \in MemberRow : m[2] = u}, IsFiniteSet(S),
         NEW m \in S, NEW n \in S, Rank(S, m) = Rank(S, n)
  PROVE  m = n
<1>1. ASSUME NEW a \in S, NEW b \in S, Rank(S, a) = Rank(S, b), UpTo(a, b)
      PROVE  a = b
  <2> DEFINE A == {x \in S : UpTo(x, a)}
             B == {x \in S : UpTo(x, b)}
  <2>1. A \in SUBSET B /\ b \in B
    BY <1>1, RowsAreOrdered
  <2>2. IsFiniteSet(B)
    BY FS_Subset
  <2>3. Cardinality(A) = Cardinality(B)
    BY <1>1 DEF Rank
  <2>4. A = B
    BY <2>1, <2>2, <2>3, FS_Subset
  <2>5. UpTo(b, a)
    BY <2>1, <2>4
  <2> QED
    BY <1>1, <2>5, RowsAreOrdered
<1> QED
  BY <1>1, RowsAreOrdered

LEMMA RankRange ==
  ASSUME NEW u, NEW S \in SUBSET {m \in MemberRow : m[2] = u}, IsFiniteSet(S), NEW m \in S
  PROVE  Rank(S, m) \in 1..Cardinality(S)
<1> DEFINE A == {x \in S : UpTo(x, m)}
<1>1. m \in A /\ A \in SUBSET S
  BY RowsAreOrdered
<1>2. IsFiniteSet(A) /\ Cardinality(A) <= Cardinality(S)
  BY <1>1, FS_Subset
<1>3. Cardinality(A) \in Nat /\ Cardinality(S) \in Nat
  BY <1>2, FS_CardinalityType
<1>4. Cardinality(A) # 0
  BY <1>1, <1>2, FS_EmptySet
<1> QED
  BY <1>2, <1>3, <1>4 DEF Rank

(* Rows that are inserted push a row further on.                           *)
LEMMA RanksGrow ==
  ASSUME NEW S, NEW T, S \subseteq T, IsFiniteSet(T), NEW m
  PROVE  Rank(S, m) \in Nat /\ Rank(T, m) \in Nat /\ Rank(S, m) <= Rank(T, m)
<1> DEFINE A == {x \in S : UpTo(x, m)}
           B == {x \in T : UpTo(x, m)}
<1>1. A \in SUBSET B /\ B \in SUBSET T
  OBVIOUS
<1>2. IsFiniteSet(B)
  BY <1>1, FS_Subset
<1>3. IsFiniteSet(A) /\ Cardinality(A) <= Cardinality(B)
  BY <1>1, <1>2, FS_Subset
<1> QED
  BY <1>2, <1>3, FS_CardinalityType DEF Rank

(* Every place of a listing has its row, every row its place.              *)
LEMMA Places ==
  ASSUME TableInv, NEW u
  PROVE  LET S == InForce(u)
             list == Listing(u)
         IN  /\ IsFiniteSet(S) /\ S \in SUBSET {m \in MemberRow : m[2] = u}
             /\ list \in Seq(S) /\ Len(list) = Cardinality(S)
             /\ \A m \in S : Rank(S, m) \in 1..Len(list) /\ list[Rank(S, m)] = m
<1> DEFINE S == InForce(u)
           c == Cardinality(S)
           list == Listing(u)
<1>1. S \in SUBSET rows /\ S \in SUBSET {m \in MemberRow : m[2] = u}
  <2>1. \A m \in S : m \in rows /\ m[1] = "member" /\ m[2] = u
    BY DEF InForce, Members
  <2>2. \A m \in S : m \in MemberRow
    BY <2>1, Tables DEF TableInv
  <2> HIDE DEF S
  <2> QED
    BY <2>1, <2>2
<1>2. IsFiniteSet(S)
  BY <1>1, FS_Subset DEF TableInv
<1>3. list = [i \in 1..c |-> CHOOSE m \in S : Rank(S, m) = i]
  BY DEF Listing
<1> HIDE DEF S, list
<1>4. \A m \in S : Rank(S, m) \in 1..c
  BY <1>1, <1>2, RankRange
<1>5. \A m, n \in S : Rank(S, m) = Rank(S, n) => m = n
  BY <1>1, <1>2, RanksDiffer
<1>6. c \in Nat
  BY <1>2, FS_CardinalityType
<1>7. \A i \in 1..c : \E m \in S : Rank(S, m) = i
  <2> DEFINE g == [m \in S |-> Rank(S, m)]
  <2>1. g \in Injection(S, 1..c)
    BY <1>4, <1>5 DEF Injection, IsInjective
  <2>2. IsFiniteSet(1..c) /\ Cardinality(1..c) = c
    BY <1>6, FS_Interval
  <2>3. g \in Surjection(S, 1..c)
    BY <2>1, <2>2, FS_Injection
  <2> QED
    BY <2>3 DEF Surjection
<1>8. \A i \in 1..c : list[i] \in S /\ Rank(S, list[i]) = i
  BY <1>3, <1>7
<1>9. list \in [1..c -> S]
  BY <1>3, <1>8
<1>10. list \in Seq(S) /\ Len(list) = c
  BY <1>6, <1>9
<1>11. \A m \in S : list[Rank(S, m)] = m
  BY <1>4, <1>5, <1>8
<1> QED
  BY <1>1, <1>2, <1>4, <1>10, <1>11 DEF S, list

LEMMA MinOfTwo ==
  ASSUME NEW a \in Nat, NEW b \in Nat
  PROVE  Min({a, b}) = IF a <= b THEN a ELSE b
<1> DEFINE c == IF a <= b THEN a ELSE b
<1>1. c \in {a, b} /\ \A y \in {a, b} : c <= y
  OBVIOUS
<1>2. \A x \in {a, b} : (\A y \in {a, b} : x <= y) => x = c
  OBVIOUS
<1> HIDE DEF c
<1>3. Min({a, b}) = c
  BY <1>1, <1>2 DEF Min
<1> QED
  BY <1>3 DEF c

(* A page shows the rows behind the cursor, and leaves those it does not   *)
(* show behind the next one: that is what the row too many is read for.    *)
LEMMA PageShows ==
  ASSUME TableInv, NEW u, NEW k \in Nat
  PROVE  LET S == InForce(u)
             page == Page(u, k)
         IN  /\ page.symbols \in SUBSET Symbol /\ page.next \in Nat
             /\ \A m \in S : Rank(S, m) > k =>
                  m[3] \in page.symbols \/ (page.next # 0 /\ Rank(S, m) > page.next)
<1> DEFINE S == InForce(u)
           list == Listing(u)
           n == Len(list)
           found == Slice(list, k, Limit + 1)
           l == Len(found)
           e == IF k + (Limit + 1) <= n THEN k + (Limit + 1) ELSE n
<1>1. /\ IsFiniteSet(S) /\ S \in SUBSET {m \in MemberRow : m[2] = u}
      /\ list \in Seq(S) /\ n = Cardinality(S)
      /\ \A m \in S : Rank(S, m) \in 1..n /\ list[Rank(S, m)] = m
  BY Places
<1>2. /\ Page(u, k).symbols = {found[i][3] : i \in DOMAIN found \cap 1..Limit}
      /\ Page(u, k).next = IF Len(found) > Limit THEN k + Limit ELSE 0
  BY DEF Page
<1>3. n \in Nat /\ \A i \in 1..n : list[i] \in S
  BY <1>1
<1>4. found = SubSeq(list, k + 1, e)
  <2>1. k + (Limit + 1) \in Nat
    OBVIOUS
  <2>2. Min({k + (Limit + 1), n}) = e
    BY <1>3, <2>1, MinOfTwo
  <2> HIDE DEF e, n
  <2>3. Slice(list, k, Limit + 1) = SubSeq(list, k + 1, Min({k + (Limit + 1), n}))
    BY DEF Slice, n
  <2> QED
    BY <2>2, <2>3
<1>5. e \in Nat /\ e <= n /\ (e < n => e = k + (Limit + 1)) /\ e <= k + (Limit + 1)
  BY <1>3
<1> HIDE DEF e, n
<1>6. \A i \in (k + 1)..e : list[i] \in S
  BY <1>3, <1>5
<1>7. /\ found \in Seq(S)
      /\ l = IF k + 1 <= e THEN e - (k + 1) + 1 ELSE 0
      /\ \A i \in 1..(e - (k + 1) + 1) : found[i] = list[(k + 1) + i - 1]
  <2>1. k + 1 \in Int /\ e \in Int
    BY <1>5
  <2> HIDE DEF S, list
  <2>2. /\ SubSeq(list, k + 1, e) \in Seq(S)
        /\ Len(SubSeq(list, k + 1, e)) = IF k + 1 <= e THEN e - (k + 1) + 1 ELSE 0
        /\ \A i \in 1..(e - (k + 1) + 1) : SubSeq(list, k + 1, e)[i] = list[(k + 1) + i - 1]
    BY <1>6, <2>1, SubSeqProperties
  <2> QED
    BY <1>4, <2>2
<1>8. DOMAIN found = 1..l /\ l \in Nat
  BY <1>7
<1> HIDE DEF found, l
<1>9. Page(u, k).symbols \in SUBSET Symbol
  <2>1. \A i \in 1..l : found[i] \in S
    BY <1>7, <1>8 DEF l
  <2>2. \A m \in MemberRow : m[3] \in Symbol
    BY DEF MemberRow
  <2>3. \A m \in S : m[3] \in Symbol
    BY <1>1, <2>2
  <2> QED
    BY <1>2, <1>8, <2>1, <2>3
<1>10. Page(u, k).next \in Nat
  BY <1>2
<1>11. ASSUME NEW m \in S, Rank(S, m) > k, m[3] \notin Page(u, k).symbols
       PROVE  Page(u, k).next # 0 /\ Rank(S, m) > Page(u, k).next
  <2> DEFINE i == Rank(S, m)
  <2>1. i \in 1..n /\ list[i] = m /\ i > k
    BY <1>1, <1>11
  <2> HIDE DEF i
  <2>2. i > k + Limit
    <3> SUFFICES ASSUME i <= k + Limit PROVE FALSE
      BY <2>1
    <3>1. i <= e /\ k + 1 <= e
      BY <1>3, <1>5, <2>1
    <3>2. i - k \in 1..l /\ i - k \in 1..Limit /\ i - k \in 1..(e - (k + 1) + 1)
      BY <1>3, <1>5, <1>7, <2>1, <3>1
    <3>3. found[i - k] = list[(k + 1) + (i - k) - 1] /\ (k + 1) + (i - k) - 1 = i
      BY <1>7, <2>1, <3>2
    <3>4. found[i - k] = m
      BY <2>1, <3>3
    <3>5. m[3] \in Page(u, k).symbols
      BY <1>2, <1>8, <3>2, <3>4
    <3> QED
      BY <1>11, <3>5
  <2>3. e = k + (Limit + 1)
    BY <1>3, <1>5, <2>1, <2>2
  <2>4. l = Limit + 1
    BY <1>7, <2>3
  <2>5. Page(u, k).next = k + Limit
    BY <1>2, <2>4 DEF l
  <2> QED
    BY <2>2, <2>5 DEF i
<1> QED
  BY <1>9, <1>10, <1>11
-----------------------------------------------------------------------------
(* Clients.                                                                *)
LEMMA StillInForce ==
  ASSUME TableInv, TableInv', rows \subseteq rows', day' \in Nat, day <= day', NEW u
  PROVE  /\ InForce(u) \subseteq InForce(u)' /\ IsFiniteSet(InForce(u)')
         /\ ConstituentsOf(u) \subseteq ConstituentsOf(u)' /\ ConstituentsOf(u) \in SUBSET Symbol
<1>1. ASSUME NEW m \in InForce(u)
      PROVE  m \in InForce(u)' /\ m[3] \in Symbol
  <2>1. m \in rows /\ m[1] = "member" /\ m[2] = u /\ m[4] <= day
    BY DEF InForce, Members
  <2>2. m \in MemberRow
    BY <2>1, Tables DEF TableInv
  <2>3. m[3] \in Symbol /\ m[4] \in Nat
    BY <2>2 DEF MemberRow
  <2>4. m[4] <= day'
    BY <2>1, <2>3 DEF TableInv
  <2> QED
    BY <2>1, <2>3, <2>4 DEF InForce, Members
<1>2. InForce(u)' \in SUBSET rows' /\ IsFiniteSet(rows')
  BY DEF InForce, Members, TableInv
<1>3. IsFiniteSet(InForce(u)')
  BY <1>2, FS_Subset
<1> QED
  BY <1>1, <1>3 DEF ConstituentsOf

LEMMA ReadersRest ==
  ASSUME TableInv, TableInv', ReaderInv, rows \subseteq rows', day' \in Nat, day <= day',
         UNCHANGED client
  PROVE  ReaderInv'
<1>1. ASSUME NEW c \in Client, NEW s \in client[c].first, s \notin client[c].got
      PROVE  ~client[c].done /\ Ahead(c, s)'
  <2> DEFINE u == client[c].universe
             S == InForce(u)
             T == InForce(u)'
  <2>1. ~client[c].done /\ Ahead(c, s)
    BY <1>1 DEF ReaderInv
  <2>2. PICK m \in S : m[3] = s /\ Rank(S, m) > client[c].cursor
    BY <2>1 DEF Ahead
  <2>3. S \subseteq T /\ IsFiniteSet(T)
    BY StillInForce
  <2> HIDE DEF S, T
  <2>4. Rank(S, m) \in Nat /\ Rank(T, m) \in Nat /\ Rank(S, m) <= Rank(T, m)
    BY <2>3, RanksGrow
  <2>5. client[c].cursor \in Nat
    BY DEF ReaderInv, ClientState
  <2>6. m \in T /\ m[3] = s /\ Rank(T, m) > client[c].cursor
    BY <2>2, <2>3, <2>4, <2>5
  <2>7. client' = client
    OBVIOUS
  <2> QED
    BY <2>1, <2>6, <2>7 DEF Ahead, T
<1> QED
  BY <1>1 DEF ReaderInv

LEMMA ReadKeeps ==
  ASSUME TableInv, ReaderInv, NEW c \in Client, NEW u \in UniverseId, ReadPage(c, u)
  PROVE  ReaderInv'
<1> DEFINE k == client[c].cursor
           S == InForce(u)
           page == Page(u, k)
           begins == client[c].universe = "none"
           n == [universe |-> u, cursor |-> page.next, got |-> client[c].got \cup page.symbols,
                 first |-> IF begins THEN ConstituentsOf(u) ELSE client[c].first,
                 done |-> page.next = 0]
<1>1. client' = [client EXCEPT ![c] = n] /\ UNCHANGED <<rows, day>>
      /\ client[c].universe \in {"none", u} /\ ~client[c].done
  BY DEF ReadPage
<1>2. client[c] \in ClientState /\ client \in [Client -> ClientState]
  BY DEF ReaderInv
<1>3. k \in Nat
  BY <1>2 DEF ClientState
<1>4. /\ page.symbols \in SUBSET Symbol /\ page.next \in Nat
      /\ \A m \in S : Rank(S, m) > k =>
           m[3] \in page.symbols \/ (page.next # 0 /\ Rank(S, m) > page.next)
  BY <1>3, PageShows
<1>5. ConstituentsOf(u) \in SUBSET Symbol /\ ConstituentsOf(u) = {m[3] : m \in S}
  <2>1. \A m \in S : m \in MemberRow
    BY Places
  <2>2. \A m \in MemberRow : m[3] \in Symbol
    BY DEF MemberRow
  <2> QED
    BY <2>1, <2>2 DEF ConstituentsOf
<1>6. \A m \in S : Rank(S, m) > 0
  BY Places
<1>7. InForce(u)' = S
  BY <1>1 DEF InForce, Members
<1>8. \A s \in client[c].first : s \in client[c].got \/ \E m \in S : m[3] = s /\ Rank(S, m) > k
  BY <1>1 DEF ReaderInv, Ahead
<1>9. begins => k = 0
  BY DEF ReaderInv
<1> HIDE DEF page, S, k
<1>10. /\ n \in ClientState /\ n.universe = u /\ n.cursor = page.next
       /\ n.got = client[c].got \cup page.symbols /\ n.done = (page.next = 0)
       /\ n.first = IF begins THEN ConstituentsOf(u) ELSE client[c].first
  <2> DEFINE d == page.next = 0
             f == IF begins THEN ConstituentsOf(u) ELSE client[c].first
             g == client[c].got \cup page.symbols
  <2>1. d \in BOOLEAN /\ f \in SUBSET Symbol /\ g \in SUBSET Symbol
    BY <1>2, <1>4, <1>5 DEF ClientState
  <2>2. n = [universe |-> u, cursor |-> page.next, got |-> g, first |-> f, done |-> d]
    OBVIOUS
  <2> HIDE DEF d, f, g, n
  <2>3. n \in ClientState /\ n.universe = u /\ n.cursor = page.next /\ n.got = g /\ n.done = d /\ n.first = f
    BY <1>4, <2>1, <2>2 DEF ClientState
  <2> QED
    BY <2>3 DEF d, f, g
<1> HIDE DEF n
<1>11. client'[c] = n /\ \A v \in Client : v # c => client'[v] = client[v]
  BY <1>1, <1>2
<1>12. \A s \in n.first : s \in n.got \/ (~n.done /\ \E m \in S : m[3] = s /\ Rank(S, m) > n.cursor)
  <2>1. ASSUME NEW s \in n.first
        PROVE  s \in client[c].got \/ \E m \in S : m[3] = s /\ Rank(S, m) > k
    <3>1. CASE begins
      BY <1>5, <1>6, <1>9, <1>10, <2>1, <3>1
    <3>2. CASE ~begins
      BY <1>8, <1>10, <2>1, <3>2
    <3> QED
      BY <3>1, <3>2
  <2> QED
    BY <1>4, <1>10, <2>1
<1>13. u # "none"
  BY UniverseAssumption
<1>14. ASSUME NEW v \in Client
       PROVE  /\ client'[v].universe = "none" =>
                   client'[v].cursor = 0 /\ client'[v].first = {} /\ ~client'[v].done
              /\ \A s \in client'[v].first : s \in client'[v].got \/ (~client'[v].done /\ Ahead(v, s)')
  <2>1. CASE v = c
    BY <1>7, <1>10, <1>11, <1>12, <1>13, <2>1 DEF Ahead
  <2>2. CASE v # c
    <3>1. \A w : InForce(w)' = InForce(w)
      BY <1>1 DEF InForce, Members
    <3>2. client'[v] = client[v]
      BY <1>11, <2>2
    <3>3. \A s : Ahead(v, s) => Ahead(v, s)'
      BY <3>1, <3>2 DEF Ahead
    <3> QED
      BY <3>2, <3>3 DEF ReaderInv
  <2> QED
    BY <2>1, <2>2
<1>15. client' \in [Client -> ClientState]
  BY <1>1, <1>2, <1>10
<1> QED
  BY <1>14, <1>15 DEF ReaderInv
-----------------------------------------------------------------------------
(* Requests for asset impacts.                                             *)
LEMMA Whitelist ==
  ASSUME TableInv, NEW U \in SUBSET UniverseId
  PROVE  /\ ValidSymbols(U) \in SUBSET Symbol
         /\ \A s \in ValidSymbols(U) : \E u \in U : s \in ConstituentsOf(u)
<1>1. ASSUME NEW m \in rows, m[1] = "member", m[2] \in U
      PROVE  m[3] \in Symbol /\ m[3] \in ConstituentsOf(m[2])
  <2>1. m \in MemberRow /\ m[4] <= day
    BY <1>1, Tables DEF TableInv
  <2>2. m \in InForce(m[2])
    BY <1>1, <2>1 DEF InForce, Members
  <2> QED
    BY <2>1, <2>2 DEF MemberRow, ConstituentsOf
<1> QED
  BY <1>1 DEF ValidSymbols

LEMMA TargetSet ==
  ASSUME TargetInv, NEW t \in Target, NEW q \in TargetState, Set(t, q),
         Backed(q), q.pc \in {"start", "chosen"} => q.tickers = {},
         q.pc = "chosen" => q.story \in Story, UNCHANGED <<uvars, impact>>
  PROVE  TargetInv'
<1>1. target' = [target EXCEPT ![t] = q] /\ target \in [Target -> TargetState]
  BY DEF Set, TargetInv
<1>3. \A u : ConstituentsOf(u)' = ConstituentsOf(u)
  BY DEF uvars, ConstituentsOf, InForce, Members
<1>4. target'[t] = q /\ \A v \in Target : v # t => target'[v] = target[v]
  BY <1>1
<1>5. ASSUME NEW v \in Target
      PROVE  /\ \A s \in target'[v].valid \cup target'[v].tickers :
                  \E u \in target'[v].universes : s \in ConstituentsOf(u)'
             /\ target'[v].pc \in {"start", "chosen"} => target'[v].tickers = {}
             /\ target'[v].pc = "chosen" => target'[v].story \in Story
  <2>1. CASE v = t
    BY <1>3, <1>4, <2>1 DEF Backed
  <2>2. CASE v # t
    BY <1>3, <1>4, <2>2 DEF TargetInv, Backed
  <2> QED
    BY <2>1, <2>2
<1> QED
  BY <1>1, <1>5 DEF TargetInv, Backed

LEMMA ReadStoryKeeps ==
  ASSUME TableInv, TargetInv, NEW t \in Target, target[t].pc \in {"start", "chosen"},
         NEW c \in Story, NEW U \in SUBSET UniverseId, Set(t, ReadStory(t, c, U)),
         UNCHANGED <<uvars, impact>>
  PROVE  TargetInv'
<1> DEFINE q == ReadStory(t, c, U)
           l == IF impact[c] = "L0" THEN "done" ELSE "model"
           V == ValidSymbols(U)
<1>1. target[t] \in TargetState /\ target[t].tickers = {} /\ impact[c] \in Impact
  BY DEF TargetInv
<1>2. V \in SUBSET Symbol /\ \A s \in V : \E u \in U : s \in ConstituentsOf(u)
  BY Whitelist
<1>3. l \in {"done", "model"}
  OBVIOUS
<1>4. q = [target[t] EXCEPT !.pc = l, !.story = c, !.universes = U, !.valid = V, !.impact = impact[c]]
  BY DEF ReadStory
<1>5. Set(t, q)
  OBVIOUS
<1> HIDE DEF q, l, V
<1>6. /\ q \in TargetState /\ q.pc = l /\ q.universes = U /\ q.valid = V /\ q.tickers = {}
  BY <1>1, <1>2, <1>3, <1>4 DEF TargetState
<1>7. Backed(q)
  BY <1>2, <1>6 DEF Backed
<1> QED
  BY <1>3, <1>5, <1>6, <1>7, TargetSet

LEMMA SettleKeeps ==
  ASSUME TargetInv, NEW t \in Target, NEW T, Settle(t, T), UNCHANGED <<uvars, impact>>
  PROVE  TargetInv'
<1> DEFINE w == FilterToWhitelist(T, target[t].valid)
           q == [Fresh EXCEPT !.pc = "done", !.universes = target[t].universes, !.tickers = w]
<1>1. target[t] \in TargetState /\ Backed(target[t])
  BY DEF TargetInv
<1>2. w \subseteq target[t].valid /\ w \in SUBSET Symbol
  BY <1>1 DEF FilterToWhitelist, TargetState
<1>3. Set(t, q)
  BY DEF Settle
<1> HIDE DEF w
<1>4. /\ q \in TargetState /\ q.pc = "done" /\ q.universes = target[t].universes
      /\ q.valid = {} /\ q.tickers = w
  BY <1>1, <1>2 DEF TargetState, Fresh
<1> HIDE DEF q
<1>5. Backed(q)
  BY <1>1, <1>2, <1>4 DEF Backed
<1> QED
  BY <1>3, <1>4, <1>5, TargetSet

(* The other steps of a request change its label, or begin it anew.        *)
LEMMA RelabelKeeps ==
  ASSUME TargetInv, NEW t \in Target, UNCHANGED <<uvars, impact>>,
         \/ target[t].pc = "start" /\ Set(t, [target[t] EXCEPT !.pc = "done"])
         \/ target[t].pc = "model" /\ Set(t, [target[t] EXCEPT !.pc = "rules"])
         \/ Set(t, [Fresh EXCEPT !.pc = "failed"])
         \/ \E c \in Story : target[t].pc = "start" /\ Set(t, [target[t] EXCEPT !.pc = "chosen", !.story = c])
  PROVE  TargetInv'
<1>1. target[t] \in TargetState /\ Backed(target[t])
      /\ (target[t].pc \in {"start", "chosen"} => target[t].tickers = {})
  BY DEF TargetInv
<1>2. ASSUME NEW l \in {"done", "rules"}, Set(t, [target[t] EXCEPT !.pc = l])
      PROVE  TargetInv'
  <2> DEFINE q == [target[t] EXCEPT !.pc = l]
  <2>1. /\ q \in TargetState /\ q.pc = l /\ q.universes = target[t].universes
        /\ q.valid = target[t].valid /\ q.tickers = target[t].tickers
    BY <1>1 DEF TargetState
  <2>2. Set(t, q)
    BY <1>2
  <2> HIDE DEF q
  <2>3. Backed(q)
    BY <1>1, <2>1 DEF Backed
  <2> QED
    BY <2>1, <2>2, <2>3, TargetSet
<1>3. CASE Set(t, [Fresh EXCEPT !.pc = "failed"])
  <2> DEFINE q == [Fresh EXCEPT !.pc = "failed"]
  <2>1. q \in TargetState /\ q.pc = "failed" /\ q.valid = {} /\ q.tickers = {}
    BY DEF TargetState, Fresh
  <2>2. Set(t, q)
    BY <1>3
  <2> HIDE DEF q
  <2>3. Backed(q)
    BY <2>1 DEF Backed
  <2> QED
    BY <2>1, <2>2, <2>3, TargetSet
<1>4. ASSUME NEW c \in Story, target[t].pc = "start",
             Set(t, [target[t] EXCEPT !.pc = "chosen", !.story = c])
      PROVE  TargetInv'
  <2> DEFINE q == [target[t] EXCEPT !.pc = "chosen", !.story = c]
  <2>1. /\ q \in TargetState /\ q.pc = "chosen" /\ q.universes = target[t].universes
        /\ q.valid = target[t].valid /\ q.tickers = target[t].tickers /\ q.story = c
    BY <1>1 DEF TargetState
  <2>2. Set(t, q)
    BY <1>4
  <2> HIDE DEF q
  <2>3. Backed(q) /\ q.tickers = {}
    BY <1>1, <1>4, <2>1 DEF Backed
  <2> QED
    BY <2>1, <2>2, <2>3, TargetSet
<1> QED
  BY <1>2, <1>3, <1>4

LEMMA TargetingStep ==
  ASSUME TableInv, TargetInv, TNext
  PROVE  TargetInv'
<1>1. ASSUME NEW c \in Story, NEW i \in Impact, ChangeImpact(c, i)
      PROVE  TargetInv'
  <2>1. \A u : ConstituentsOf(u)' = ConstituentsOf(u)
    BY <1>1 DEF ChangeImpact, uvars, ConstituentsOf, InForce, Members
  <2>2. target' = target /\ impact' \in [Story -> Impact]
    BY <1>1 DEF ChangeImpact, TargetInv
  <2> QED
    BY <2>1, <2>2 DEF TargetInv, Backed
<1>2. ASSUME NEW t \in Target, NEW c \in Story, TargetStory(t, c)
      PROVE  TargetInv'
  <2>1. PICK U \in SUBSET UniverseId : Set(t, ReadStory(t, c, U))
    BY <1>2 DEF TargetStory
  <2>2. target[t].pc \in {"start", "chosen"} /\ UNCHANGED <<uvars, impact>>
    BY <1>2 DEF TargetStory, At
  <2> QED
    BY <2>1, <2>2, ReadStoryKeeps
<1>3. ASSUME NEW t \in Target, ReadLatest(t)
      PROVE  TargetInv'
  <2>1. PICK U \in SUBSET UniverseId : Set(t, ReadStory(t, target[t].story, U))
    BY <1>3 DEF ReadLatest
  <2>2. target[t].pc = "chosen" /\ UNCHANGED <<uvars, impact>>
    BY <1>3 DEF ReadLatest, At
  <2>3. target[t].story \in Story
    BY <2>2 DEF TargetInv
  <2> QED
    BY <2>1, <2>2, <2>3, ReadStoryKeeps
<1>4. ASSUME NEW t \in Target, MissStory(t) \/ TargetRaises(t) \/ ChooseLatest(t)
      PROVE  TargetInv'
  <2>1. Qualifying \subseteq Story
    BY DEF Qualifying
  <2> QED
    BY <1>4, <2>1, RelabelKeeps DEF MissStory, TargetRaises, ChooseLatest, At
<1>5. ASSUME NEW t \in Target, AskModel(t)
      PROVE  TargetInv'
  <2>1. UNCHANGED <<uvars, impact>> /\ target[t].pc = "model"
    BY <1>5 DEF AskModel, At
  <2>2. (\E T : Settle(t, T)) \/ Set(t, [target[t] EXCEPT !.pc = "rules"])
    BY <1>5 DEF AskModel
  <2> QED
    BY <2>1, <2>2, SettleKeeps, RelabelKeeps
<1>6. ASSUME NEW t \in Target, ApplyRules(t)
      PROVE  TargetInv'
  <2>1. UNCHANGED <<uvars, impact>> /\ \E T : Settle(t, T)
    BY <1>6 DEF ApplyRules
  <2> QED
    BY <2>1, SettleKeeps
<1> QED
  BY <1>1, <1>2, <1>3, <1>4, <1>5, <1>6 DEF TNext

LEMMA TargetsRest ==
  ASSUME TableInv, TableInv', TargetInv, rows \subseteq rows', day' \in Nat, day <= day', UNCHANGED tvars
  PROVE  TargetInv'
<1>1. \A u : ConstituentsOf(u) \subseteq ConstituentsOf(u)'
  BY StillInForce
<1>2. target' = target /\ impact' = impact
  BY DEF tvars
<1>3. ASSUME NEW t \in Target
      PROVE  \A s \in target[t].valid \cup target[t].tickers :
               \E u \in target[t].universes : s \in ConstituentsOf(u)'
  BY <1>1 DEF TargetInv, Backed
<1> QED
  BY <1>2, <1>3 DEF TargetInv, Backed
-----------------------------------------------------------------------------
LEMMA InitIInv == Init => IInv
<1> SUFFICES ASSUME Init PROVE IInv
  OBVIOUS
<1>1. TableInv
  BY FS_EmptySet DEF Init, UInit, TableInv, NoDanglingRow, Files
<1>2. RefreshInv
  BY DEF Init, UInit, RefreshInv, Progress
<1>3. ReaderInv
  <2>1. Waiting \in ClientState /\ Waiting.cursor = 0 /\ Waiting.first = {} /\ ~Waiting.done
    BY DEF Waiting, ClientState
  <2> QED
    BY <2>1 DEF Init, UInit, ReaderInv
<1>4. TargetInv
  <2>1. Fresh \in TargetState /\ Fresh.pc = "start" /\ Fresh.valid = {} /\ Fresh.tickers = {}
    BY DEF Fresh, TargetState
  <2> QED
    BY <2>1, TargetingAssumption DEF Init, TInit, TargetInv, Backed
<1> QED
  BY <1>1, <1>2, <1>3, <1>4 DEF IInv

LEMMA NextIInv == IInv /\ [Next]_vars => IInv'
<1> SUFFICES ASSUME IInv, [Next]_vars PROVE IInv'
  OBVIOUS
<1> USE DEF IInv
<1>1. /\ TableInv' /\ RefreshInv'
      /\ rows \subseteq rows' /\ day' \in Nat /\ day <= day'
  BY TablesKept
<1>2. ReaderInv'
  <2>1. CASE \E c \in Client, u \in UniverseId : ReadPage(c, u)
    BY <2>1, ReadKeeps
  <2>2. CASE UNCHANGED client
    BY <1>1, <2>2, ReadersRest
  <2>3. CASE TNext
    <3>1. UNCHANGED uvars
      BY <2>3 DEF TNext, ChangeImpact, TargetStory, MissStory, TargetRaises, ChooseLatest, ReadLatest,
                  AskModel, ApplyRules
    <3> QED
      BY <2>2, <3>1 DEF uvars
  <2>4. CASE UNCHANGED vars
    BY <2>2, <2>4 DEF vars, uvars
  <2>5. NextDay \/ (\E u \in UniverseId, s \in Symbol : EditFile(u, s))
        \/ (\E w \in Writer : Refreshes(w)) => UNCHANGED client
    BY DEF NextDay, EditFile, Refreshes, StartRefresh, WriteRow, NextPhase, SkipIndustries,
           EndRefresh, AbortRefresh
  <2> QED
    BY <2>1, <2>2, <2>3, <2>4, <2>5 DEF Next, UNext
<1>3. TargetInv'
  <2>1. CASE TNext
    BY <2>1, TargetingStep
  <2>2. CASE UNCHANGED tvars
    BY <1>1, <2>2, TargetsRest
  <2> QED
    BY <2>1, <2>2 DEF Next, vars
<1> QED
  BY <1>1, <1>2, <1>3

LEMMA InvariantOfTargeting == Spec => []IInv
BY InitIInv, NextIInv, PTL DEF Spec

(* The phases of refresh_universes are written in the order of the foreign *)
(* keys: wherever a refresh is cut short and whatever is edited meanwhile, *)
(* no row refers to one that is not there.                                 *)
THEOREM NoDanglingRowCorrect == Spec => []NoDanglingRow
<1>1. IInv => NoDanglingRow
  BY DEF IInv, TableInv
<1> QED
  BY <1>1, InvariantOfTargeting, PTL

(* list_universe_constituents reads one row more than a page holds, and    *)
(* its offset is safe against a refresh because rows are only inserted:    *)
(* a client that reads to the end has seen everyone who was there when it  *)
(* began.                                                                  *)
THEOREM PagingMissesNobodyCorrect == Spec => []PagingMissesNobody
<1>1. IInv => PagingMissesNobody
  BY DEF IInv, ReaderInv, PagingMissesNobody
<1> QED
  BY <1>1, InvariantOfTargeting, PTL

(* _get_valid_symbols looks at no first day and list_universes does, yet a *)
(* ticker that asset targeting answers with is a constituent today of a    *)
(* universe it was asked for, whatever the model invents.                  *)
THEOREM TickersAreConstituentsCorrect == Spec => []TickersAreConstituents
<1>1. IInv => TickersAreConstituents
  BY DEF IInv, TargetInv, Backed, TickersAreConstituents, At
<1> QED
  BY <1>1, InvariantOfTargeting, PTL

-----------------------------------------------------------------------------
(* The bounds of the model.                                                *)
Bounded ==
  /\ day \in 1..MaxDay
  /\ edits \in 0..MaxEdit /\ aborts \in 0..MaxAbort
  /\ changes \in 0..MaxImpact

LEMMA BoundedStep == Bounded /\ [Next]_vars => Bounded'
<1> SUFFICES ASSUME Bounded, [Next]_vars PROVE Bounded'
  OBVIOUS
<1> USE TargetingAssumption
<1>1. CASE UNext /\ UNCHANGED tvars
  <2>1. UNCHANGED changes
    BY <1>1 DEF tvars
  <2>2. CASE NextDay
    BY <2>1, <2>2 DEF NextDay, Bounded
  <2>3. CASE \E u \in UniverseId, s \in Symbol : EditFile(u, s)
    BY <2>1, <2>3 DEF EditFile, Bounded
  <2>4. ASSUME NEW w \in Writer, Refreshes(w) PROVE Bounded'
    <3>1. CASE AbortRefresh(w)
      BY <2>1, <3>1 DEF AbortRefresh, Bounded
    <3>2. CASE StartRefresh(w) \/ WriteRow(w) \/ NextPhase(w) \/ SkipIndustries(w) \/ EndRefresh(w)
      BY <2>1, <3>2 DEF StartRefresh, WriteRow, NextPhase, SkipIndustries, EndRefresh, Bounded
    <3> QED
      BY <2>4, <3>1, <3>2 DEF Refreshes
  <2>5. CASE \E c \in Client, u \in UniverseId : ReadPage(c, u)
    BY <2>1, <2>5 DEF ReadPage, Bounded
  <2> QED
    BY <1>1, <2>2, <2>3, <2>4, <2>5 DEF UNext
<1>2. CASE TNext
  <2>1. UNCHANGED uvars
    BY <1>2 DEF TNext, ChangeImpact, TargetStory, MissStory, TargetRaises, ChooseLatest, ReadLatest,
                AskModel, ApplyRules
  <2>2. CASE \E c \in Story, i \in Impact : ChangeImpact(c, i)
    BY <2>1, <2>2 DEF ChangeImpact, uvars, Bounded
  <2>3. CASE ~\E c \in Story, i \in Impact : ChangeImpact(c, i)
    <3>1. UNCHANGED changes
      BY <1>2, <2>3 DEF TNext, TargetStory, MissStory, TargetRaises, ChooseLatest, ReadLatest,
                        AskModel, ApplyRules
    <3> QED
      BY <2>1, <3>1 DEF uvars, Bounded
  <2> QED
    BY <2>2, <2>3
<1>3. CASE UNCHANGED vars
  BY <1>3 DEF vars, uvars, tvars, Bounded
<1> QED
  BY <1>1, <1>2, <1>3 DEF Next

LEMMA InvariantOfBounds == Spec => []Bounded
<1>1. Init => Bounded
  BY TargetingAssumption DEF Init, UInit, TInit, Bounded
<1> QED
  BY <1>1, BoundedStep, PTL DEF Spec

(* The types of a refresh, its readers and its targeting requests: rows    *)
(* are of the five tables, and no ticker that a model invented is kept.    *)
THEOREM TypeCorrect == Spec => []TypeOK
<1>1. ASSUME IInv, Bounded
      PROVE  TypeOK
  <2>1. \A row \in rows : row[1] \in {"sector", "industry", "universe", "security", "member"}
    BY <1>1, Tables DEF IInv, TableInv
  <2>2. \A w \in Writer : refresh[w] = Off \/ refresh[w].phase \in 1..6
    BY <1>1 DEF IInv, RefreshInv, Refreshing
  <2>3. \A c \in Client : client[c].cursor \in Nat /\ client[c].got \subseteq Symbol
    BY <1>1 DEF IInv, ReaderInv, ClientState
  <2>4. \A t \in Target : /\ target[t].pc \in {"start", "chosen", "model", "rules", "done", "failed"}
                         /\ target[t].tickers \subseteq Symbol
    BY <1>1 DEF IInv, TargetInv, TargetState
  <2>5. files \in [UniverseId -> SUBSET Symbol] /\ impact \in [Story -> Impact]
    BY <1>1 DEF IInv, TableInv, TargetInv, Files
  <2> QED
    BY <1>1, <2>1, <2>2, <2>3, <2>4, <2>5 DEF Bounded, UTypeOK, TypeOK
<1> QED
  BY <1>1, InvariantOfTargeting, InvariantOfBounds, PTL
=============================================================================
