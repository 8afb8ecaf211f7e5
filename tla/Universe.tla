--------------------------------- MODULE Universe ---------------------------------
(***************************************************************************)
(* The security master: universe/refresh.py writes the constituents of the *)
(* index files to the tables of db/universe_repo.py, one autocommitted     *)
(* statement per row, while clients page through them.  The command line,  *)
(* the script and every start of the API run it side by side; the API      *)
(* stops short of the securities.                                          *)
(*                                                                         *)
(* A row of any table is a tuple that begins with the table's name; names, *)
(* descriptions and exchanges are left out.  Symbols are numbers, in the   *)
(* order ORDER BY puts them; a day is a number, and today is the same day   *)
(* for every process and for Postgres, which run in UTC.                   *)
(***************************************************************************)
EXTENDS Naturals, FiniteSets, Sequences, SequencesExt

CONSTANTS
  UniverseId,   \* sp500, nasdaq100
  Symbol,       \* symbols the files can list
  SectorName,   \* rows of sectors.csv (or GICS_11), by the id they map to
  FilesAtFirst, \* the symbols each index file lists at first
  SectorOf,     \* the sector of each row of industries.csv
  Refresher,    \* runs of refresh_universes, which may overlap
  Seeder,       \* starts of the API, whose lifespan seeds the tables
  Limit,        \* page size of a client
  Client,       \* clients that page through a universe
  MaxDay,       \* bound: days a behaviour lasts
  MaxEdit,      \* bound: edits of the files
  MaxAbort      \* bound: refreshes that end half-way

ASSUME UniverseAssumption ==
  /\ FilesAtFirst \in [UniverseId -> SUBSET Symbol]
  /\ Symbol \subseteq Nat /\ IsFiniteSet(Symbol) /\ IsFiniteSet(UniverseId)
  /\ "none" \notin UniverseId /\ Refresher \cap Seeder = {}
  /\ \A i \in DOMAIN SectorOf : SectorOf[i] \in SectorName \cup {"unknown"}
  /\ Limit \in Nat \ {0} /\ MaxDay \in Nat \ {0} /\ MaxEdit \in Nat /\ MaxAbort \in Nat

VARIABLES
  day,          \* current_date
  files,        \* the symbols each index file lists
  rows,         \* rows of the tables
  refresh,      \* what each run of the refresh is doing, or Off
  client,       \* what each client is reading
  edits, aborts

uvars == <<day, files, rows, refresh, client, edits, aborts>>

Writer == Refresher \cup Seeder
Off == [phase |-> 0]
Waiting == [cursor |-> 0, universe |-> "none", got |-> {}, first |-> {}, done |-> FALSE]

(* industry -> sector, security -> sector, membership -> both its ends. *)
References(row) ==
  CASE row[1] = "industry" -> {<<"sector", SectorOf[row[2]]>>}
    [] row[1] = "security" -> {<<"sector", "unknown">>}
    [] row[1] = "member" -> {<<"universe", row[2]>>, <<"security", row[3]>>}
    [] OTHER -> {}

Member(u, s, d) == <<"member", u, s, d>>
Members(u) == {row \in rows : row[1] = "member" /\ row[2] = u}

UInit ==
  /\ day = 1
  /\ files = FilesAtFirst
  /\ rows = {}
  /\ refresh = [w \in Writer |-> Off]
  /\ client = [c \in Client |-> Waiting]
  /\ edits = 0 /\ aborts = 0
-----------------------------------------------------------------------------
NextDay ==
  /\ day < MaxDay
  /\ day' = day + 1
  /\ UNCHANGED <<files, rows, refresh, client, edits, aborts>>

(* An operator edits an index file: a symbol joins it or leaves it.        *)
EditFile(u, s) ==
  /\ edits < MaxEdit
  /\ files' = [files EXCEPT ![u] = IF s \in @ THEN @ \ {s} ELSE @ \cup {s}]
  /\ edits' = edits + 1
  /\ UNCHANGED <<day, rows, refresh, client, aborts>>

-----------------------------------------------------------------------------
(***************************************************************************)
(* refresh_universes.                                                      *)
(***************************************************************************)

(* _load_sp500, _load_nasdaq100 and symbol_to_name: every symbol once,     *)
(* whatever file lists it.                                                 *)
Listed(f) == UNION {f[u] : u \in UniverseId}

(* seed_sectors: 'unknown' before the rows of the file.                    *)
SectorRows == {<<"sector", n>> : n \in SectorName}
IndustryRows == {<<"industry", i>> : i \in DOMAIN SectorOf}
UniverseRows == {<<"universe", u>> : u \in UniverseId}
SecurityRows(f) == {<<"security", s>> : s \in Listed(f)}
Pairs(f) == {p \in UniverseId \X Symbol : p[2] \in f[p[1]]}
MemberRows(f, d) == {Member(p[1], p[2], d) : p \in Pairs(f)}
(* Mutant: the memberships are written before the securities. *)
PhaseMembersFirst(n, f, d) ==
  <<{<<"sector", "unknown">>}, SectorRows, IndustryRows, UniverseRows,
    MemberRows(f, d), SecurityRows(f)>>[n]

(* The rows of each phase, in the order the phases follow each other.      *)
Phase(n, f, d) ==
  <<{<<"sector", "unknown">>}, SectorRows, IndustryRows, UniverseRows,
    SecurityRows(f), MemberRows(f, d)>>[n]

(* The lifespan of the API ends with the universes.                        *)
LastPhase(w) == IF w \in Seeder THEN 4 ELSE 6

Running(w) == refresh[w] # Off
Update(w, n) == refresh' = [refresh EXCEPT ![w] = n]

(* The files are read before the first statement; the API reads none of    *)
(* the index files.                                                        *)
FilesRead(w) == IF w \in Seeder THEN [u \in UniverseId |-> {}] ELSE files

StartRefresh(w) ==
  /\ ~Running(w)
  /\ LET f == FilesRead(w) IN
     Update(w, [phase |-> 1, files |-> f, eff |-> 0, left |-> Phase(1, f, 0)])
  /\ UNCHANGED <<day, files, rows, client, edits, aborts>>

(* One upsert.  A membership's key holds its first day, and nothing ever   *)
(* sets its last one: the refresh of another day adds another row.         *)
WriteRow(w) ==
  /\ Running(w)
  /\ \E row \in refresh[w].left :
       /\ rows' = rows \cup {row}
       /\ Update(w, [refresh[w] EXCEPT !.left = @ \ {row}])
  /\ UNCHANGED <<day, files, client, edits, aborts>>

(* Mutant: every membership is dated from tomorrow. *)
EffTomorrow(w) == IF refresh[w].phase = 4 THEN day + 1 ELSE refresh[w].eff

(* date.today() is called once, before the securities.                     *)
Eff(w) == IF refresh[w].phase = 4 THEN day ELSE refresh[w].eff

GoOn(w) ==
  Update(w, [refresh[w] EXCEPT !.phase = @ + 1, !.eff = Eff(w),
                            !.left = Phase(refresh[w].phase + 1, refresh[w].files, Eff(w))])

NextPhase(w) ==
  /\ Running(w) /\ refresh[w].left = {} /\ refresh[w].phase < LastPhase(w)
  /\ GoOn(w)
  /\ UNCHANGED <<day, files, rows, client, edits, aborts>>

(* Before its migration there is no table of industries: the first upsert  *)
(* raises, and the exception is swallowed.                                 *)
SkipIndustries(w) ==
  /\ Running(w) /\ refresh[w].phase = 3
  /\ \A row \in rows : row[1] # "industry"
  /\ GoOn(w)
  /\ UNCHANGED <<day, files, rows, client, edits, aborts>>

EndRefresh(w) ==
  /\ Running(w) /\ refresh[w].left = {} /\ refresh[w].phase = LastPhase(w)
  /\ Update(w, Off)
  /\ UNCHANGED <<day, files, rows, client, edits, aborts>>

(* A statement raises, or the process dies: what is committed stays.       *)
AbortRefresh(w) ==
  /\ Running(w)
  /\ aborts < MaxAbort
  /\ aborts' = aborts + 1
  /\ Update(w, Off)
  /\ UNCHANGED <<day, files, rows, client, edits>>
-----------------------------------------------------------------------------
(***************************************************************************)
(* Reading.                                                                *)
(***************************************************************************)

(* ORDER BY the symbol.  The query leaves the order of one symbol's rows   *)
(* open; here it is that of their first days, and a page shows the same    *)
(* symbols whichever it is.                                                *)
UpTo(m, n) == m[3] < n[3] \/ (m[3] = n[3] /\ m[4] <= n[4])
Rank(S, m) == Cardinality({n \in S : UpTo(n, m)})

(* The memberships in force, one row per interval, in the order of the     *)
(* symbols: no DISTINCT.                                                   *)
InForce(u) == {m \in Members(u) : m[4] <= day}
Listing(u) ==
  LET found == InForce(u)
  IN  [i \in 1..Cardinality(found) |-> CHOOSE m \in found : Rank(found, m) = i]

(* The DISTINCT symbols, which list_universes counts.                      *)
ConstituentsOf(u) == {m[3] : m \in InForce(u)}

(* LIMIT n OFFSET offset. *)
Slice(list, offset, n) == SubSeq(list, offset + 1, Min({offset + n, Len(list)}))

(* Mutant: the query reads no row beyond the page. *)
PageShort(u, cursor) ==
  LET found == Slice(Listing(u), cursor, Limit)
  IN  [symbols |-> {found[i][3] : i \in DOMAIN found},
       next |-> IF Len(found) > Limit THEN cursor + Limit ELSE 0]

(* list_universe_constituents: LIMIT limit + 1 OFFSET cursor; the row too  *)
(* many says that there is a next page.                                    *)
Page(u, cursor) ==
  LET found == Slice(Listing(u), cursor, Limit + 1)
  IN  [symbols |-> {found[i][3] : i \in DOMAIN found \cap 1..Limit},
       next |-> IF Len(found) > Limit THEN cursor + Limit ELSE 0]

(* GET /v1/universes/{id}/constituents, called again while there is a      *)
(* cursor.                                                                 *)
ReadPage(c, u) ==
  /\ client[c].universe \in {"none", u} /\ ~client[c].done
  /\ LET begins == client[c].universe = "none"
         page == Page(u, client[c].cursor)
     IN client' = [client EXCEPT ![c] =
          [universe |-> u, cursor |-> page.next, got |-> @.got \cup page.symbols,
           first |-> IF begins THEN ConstituentsOf(u) ELSE @.first, done |-> page.next = 0]]
  /\ UNCHANGED <<day, files, rows, refresh, edits, aborts>>

Refreshes(w) ==
  \/ StartRefresh(w) \/ WriteRow(w) \/ NextPhase(w) \/ SkipIndustries(w)
  \/ EndRefresh(w) \/ AbortRefresh(w)

UNext ==
  \/ NextDay \/ \E u \in UniverseId, s \in Symbol : EditFile(u, s)
  \/ \E w \in Writer : Refreshes(w)
  \/ \E c \in Client, u \in UniverseId : ReadPage(c, u)
-----------------------------------------------------------------------------
UTypeOK ==
  /\ day \in 1..MaxDay
  /\ files \in [UniverseId -> SUBSET Symbol]
  /\ \A row \in rows : row[1] \in {"sector", "industry", "universe", "security", "member"}
  /\ \A w \in Writer : refresh[w] = Off \/ refresh[w].phase \in 1..6
  /\ \A c \in Client : client[c].cursor \in Nat /\ client[c].got \subseteq Symbol
  /\ edits \in 0..MaxEdit /\ aborts \in 0..MaxAbort

(* Every row has the rows it refers to, wherever a refresh stopped and     *)
(* whatever the files listed before: no statement of a refresh can trip    *)
(* over a foreign key.                                                     *)
NoDanglingRow == \A row \in rows : References(row) \subseteq rows

(* A client that has read to the last page was shown everyone who was a    *)
(* constituent when it began, though a refresh inserts rows meanwhile and  *)
(* the cursor is an offset.                                                *)
PagingMissesNobody == \A c \in Client : client[c].done => client[c].first \subseteq client[c].got

=============================================================================
