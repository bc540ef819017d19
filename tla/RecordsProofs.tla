--------------------------- MODULE RecordsProofs ----------------------------
(***************************************************************************)
(* Proofs about four parts of MCRecords: what the research scripts and     *)
(* the social data script leave in the database and in their files, for    *)
(* any number of series, documents, users, trades and runs; what the       *)
(* history pulls store, for any number of records, runs and repetitions    *)
(* and pages of any length; and what the migrations make of a database,    *)
(* for any number of runs and faults.                                      *)
(***************************************************************************)
EXTENDS MCRecords, FiniteSetTheorems, SequenceTheorems, WellFoundedInduction, TLAPS

-----------------------------------------------------------------------------
(* The research scripts                                                    *)

\* A row, committed or not, describes the file its URL is kept in; the registry
\* being written and the one on disk name committed candidates.
ResearchInv ==
    /\ version \in [Url -> 1..MaxVersion]
    /\ file \in [Collect!File -> Collect!Described]
    /\ rows \in [Url -> Collect!Described] /\ terms \in [Url -> Collect!Described]
    /\ \A u \in Url : rows[u] # Collect!Nothing => rows[u] = file[Collect!PathOf(u)]
    /\ \A u \in Url : terms[u] # Collect!Nothing => terms[u] = file[Collect!PathOf(u)]
    /\ memory \subseteq candidates /\ registry \subseteq candidates
    /\ candidates \subseteq series

\* The path of a URL is one of the local files.
LEMMA PathIsFile ==
    ASSUME SameName \subseteq Url, NEW u \in Url
    PROVE  Collect!PathOf(u) \in Collect!File
BY DEF Collect!PathOf, Collect!File

\* Writing the row of one URL, committed with those before it or not, keeps the
\* rows those of the files, if it describes the file of its URL.
LEMMA UpsertKeeps ==
    ASSUME NEW u \in Url, NEW contents \in Collect!Described, Collect!Upsert(u, contents),
           rows \in [Url -> Collect!Described], terms \in [Url -> Collect!Described],
           contents = file'[Collect!PathOf(u)],
           \A w \in Url : rows[w] # Collect!Nothing => rows[w] = file'[Collect!PathOf(w)],
           \A w \in Url : terms[w] # Collect!Nothing => terms[w] = file'[Collect!PathOf(w)]
    PROVE  /\ rows' \in [Url -> Collect!Described] /\ terms' \in [Url -> Collect!Described]
           /\ \A w \in Url : rows'[w] # Collect!Nothing => rows'[w] = file'[Collect!PathOf(w)]
           /\ \A w \in Url : terms'[w] # Collect!Nothing => terms'[w] = file'[Collect!PathOf(w)]
<1> DEFINE batch == [rows EXCEPT ![u] = contents]
<1>1. /\ batch \in [Url -> Collect!Described]
      /\ \A w \in Url : batch[w] # Collect!Nothing => batch[w] = file'[Collect!PathOf(w)]
  OBVIOUS
<1>2. Collect!Nothing \in Collect!Described
  BY DEF Collect!Described
<1>3. CASE count = 0
  <2>1. /\ terms' = [w \in Url |-> IF batch[w] # Collect!Nothing THEN batch[w] ELSE terms[w]]
        /\ rows' = [w \in Url |-> Collect!Nothing]
    BY <1>3 DEF Collect!Upsert, Collect!NoRows
  <2> HIDE DEF batch
  <2> QED
    BY <1>1, <1>2, <2>1
<1>4. CASE count # 0
  BY <1>1, <1>4 DEF Collect!Upsert
<1> QED
  BY <1>3, <1>4

\* A file that is not there has no row, so what is batch to it changes none.
LEMMA NewFileKeeps ==
    ASSUME SameName \subseteq Url, NEW u \in Url, ResearchInv, ~Collect!Keeps(u),
           NEW contents, file' = [file EXCEPT ![Collect!PathOf(u)] = contents]
    PROVE  /\ file'[Collect!PathOf(u)] = contents
           /\ \A w \in Url : rows[w] # Collect!Nothing => rows[w] = file'[Collect!PathOf(w)]
           /\ \A w \in Url : terms[w] # Collect!Nothing => terms[w] = file'[Collect!PathOf(w)]
BY PathIsFile DEF ResearchInv, Collect!Keeps

\* Every step of the scripts keeps the invariant.
LEMMA CollectStep ==
    ASSUME SameName \subseteq Url, MaxVersion \in Nat
    PROVE  ResearchInv /\ (Collect!Next \/ UNCHANGED collectVars) => ResearchInv'
<1> SUFFICES ASSUME ResearchInv, Collect!Next \/ UNCHANGED collectVars PROVE ResearchInv'
  OBVIOUS
<1> USE DEF Collect!exchange, Collect!tables, Collect!rcRun
<1>1. ASSUME Collect!Relist
      PROVE  ResearchInv'
  BY <1>1 DEF Collect!Relist, ResearchInv
<1>2. ASSUME NEW u \in Url, Collect!Revise(u)
      PROVE  ResearchInv'
  BY <1>2 DEF Collect!Revise, ResearchInv
<1>3. ASSUME Collect!Start
      PROVE  ResearchInv'
  BY <1>3 DEF Collect!Start, ResearchInv
<1>4. ASSUME Collect!SeriesPage
      PROVE  ResearchInv'
  BY <1>4 DEF Collect!SeriesPage, ResearchInv
<1>5. ASSUME Collect!CommitSeries
      PROVE  ResearchInv'
  BY <1>5 DEF Collect!CommitSeries, ResearchInv
<1>6. ASSUME NEW u \in Url, Collect!ReadTerm(u)
      PROVE  ResearchInv'
  <2>1. /\ Collect!Upsert(u, file[Collect!PathOf(u)])
        /\ UNCHANGED <<version, file, candidates, series, memory, registry>>
    BY <1>6 DEF Collect!ReadTerm
  <2>2. file[Collect!PathOf(u)] \in Collect!Described
    BY PathIsFile DEF ResearchInv
  <2> QED
    BY <2>1, <2>2, UpsertKeeps DEF ResearchInv
<1>7. ASSUME NEW u \in Url, Collect!Download(u)
      PROVE  ResearchInv'
  <2> DEFINE contents == [of |-> u, version |-> version[u], whole |-> TRUE]
  <2>1. /\ Collect!Upsert(u, contents) /\ ~Collect!Keeps(u)
        /\ file' = [file EXCEPT ![Collect!PathOf(u)] = contents]
        /\ UNCHANGED <<version, candidates, series, memory, registry>>
    BY <1>7 DEF Collect!Download
  <2>2. contents \in Collect!Described
    BY DEF ResearchInv, Collect!Described, Collect!Contents
  <2> HIDE DEF contents
  <2>3. file' \in [Collect!File -> Collect!Described]
    BY <2>1, <2>2, PathIsFile DEF ResearchInv
  <2>4. /\ file'[Collect!PathOf(u)] = contents
        /\ \A w \in Url : rows[w] # Collect!Nothing => rows[w] = file'[Collect!PathOf(w)]
        /\ \A w \in Url : terms[w] # Collect!Nothing => terms[w] = file'[Collect!PathOf(w)]
    BY <2>1, NewFileKeeps
  <2> QED
    BY <2>1, <2>2, <2>3, <2>4, UpsertKeeps DEF ResearchInv
<1>8. ASSUME NEW u \in Url, Collect!SkipTerm(u)
      PROVE  ResearchInv'
  BY <1>8 DEF Collect!SkipTerm, ResearchInv
<1>9. ASSUME Collect!CommitTerms
      PROVE  ResearchInv'
  BY <1>9 DEF Collect!CommitTerms, Collect!NoRows, Collect!Described, ResearchInv
<1>10. ASSUME Collect!BuildRegistry
       PROVE  ResearchInv'
  BY <1>10 DEF Collect!BuildRegistry, Collect!StoreCandidates, Collect!Registries, ResearchInv
<1>11. ASSUME Collect!WriteRegistry
       PROVE  ResearchInv'
  BY <1>11 DEF Collect!WriteRegistry, ResearchInv
<1>12. ASSUME Collect!Analyse
       PROVE  ResearchInv'
  BY <1>12 DEF Collect!Analyse, ResearchInv
<1>13. ASSUME Collect!Fail
       PROVE  ResearchInv'
  BY <1>13 DEF Collect!Fail, Collect!Fails, Collect!NoRows, Collect!Described, ResearchInv
<1>14. ASSUME NEW u \in Url, Collect!TearFile(u)
       PROVE  ResearchInv'
  <2> DEFINE contents == [of |-> u, version |-> version[u], whole |-> FALSE]
  <2>1. /\ ~Collect!Keeps(u) /\ rows' = [w \in Url |-> Collect!Nothing]
        /\ file' = [file EXCEPT ![Collect!PathOf(u)] = contents]
        /\ memory' = {} /\ UNCHANGED <<version, terms, candidates, series, registry>>
    BY <1>14 DEF Collect!TearFile, Collect!Fails, Collect!NoRows
  <2>2. contents \in Collect!Described /\ Collect!Nothing \in Collect!Described
    BY DEF ResearchInv, Collect!Described, Collect!Contents
  <2> HIDE DEF contents
  <2>3. file' \in [Collect!File -> Collect!Described]
    BY <2>1, <2>2, PathIsFile DEF ResearchInv
  <2>4. \A w \in Url : terms[w] # Collect!Nothing => terms[w] = file'[Collect!PathOf(w)]
    BY <2>1, NewFileKeeps
  <2> QED
    BY <2>1, <2>2, <2>3, <2>4 DEF ResearchInv
<1>15. CASE UNCHANGED collectVars
  BY <1>15 DEF collectVars, ResearchInv
<1>16. QED
  BY <1>1, <1>2, <1>3, <1>4, <1>5, <1>6, <1>7, <1>8, <1>9, <1>10, <1>11, <1>12, <1>13, <1>14,
     <1>15 DEF Collect!Next

\* Size and hash of a committed row of contract terms are those of the file it
\* names, and the registry names stored candidates, whatever documents are
\* revised, share a file name, tear or are skipped, and wherever a run dies.
THEOREM ResearchStored ==
    ASSUME SameName \subseteq Url, MaxVersion \in Nat \ {0}
    PROVE  Spec => []ResearchIsStored
<1>1. Init => ResearchInv
  BY DEF Init, Collect!Init, Collect!NoRows, Collect!Described, ResearchInv
<1>2. ResearchInv /\ [Next]_allVars => ResearchInv'
  <2>1. [Next]_allVars => Collect!Next \/ UNCHANGED collectVars
    BY DEF Next, allVars
  <2> QED
    BY <2>1, CollectStep
<1>3. ResearchInv => ResearchIsStored
  BY DEF ResearchInv, ResearchIsStored, Collect!ResearchIsStored
<1>4. QED
  BY <1>1, <1>2, <1>3, PTL DEF Spec

-----------------------------------------------------------------------------
(* The social data script                                                  *)

\* All that lead to a profile have trades with a source.
Sourced(p) == \A s \in Slug : Ideas!ProfileOf(s) = p => s \in sourced

\* The types of the social data.
IdeasTypes ==
    /\ profiles \in [Slug -> Nat] /\ traded \in [Slug -> Nat]
    /\ trades \in [Trade -> SUBSET Slug] /\ nick \in [Slug -> Slug]
    /\ walk \in [Run -> {"idle", "boards", "users", "pages", "ended", "failed"}]
    /\ number \in [Run -> Nat] /\ walks \in Nat
    /\ user \in [Run -> SUBSET Slug] /\ pending \in [Run -> SUBSET Slug]
    /\ todo \in [Run -> SUBSET Slug] /\ seen \in [Run -> SUBSET Slug]

\* A run that fetches pages does so for one user, whose profile is pending;
\* its other pending profiles are led to by somebody without a source.
PendingOf(r) ==
    /\ walk[r] = "pages" => \E s \in Slug : user[r] = {s} /\ Ideas!ProfileOf(s) \in pending[r]
    /\ \A p \in pending[r] : Sourced(p) =>
           walk[r] = "pages" /\ \A s \in user[r] : Ideas!ProfileOf(s) = p
    /\ walk[r] \in {"boards", "users", "pages"} => number[r] # 0
    /\ walk[r] \notin {"users", "pages"} => pending[r] = {}

\* A sourced profile is of the user its trades are of; every trade has the profile
\* of its user, and a named one is of one user.
RowsWhole ==
    /\ \A p \in Slug : Sourced(p) => profiles[p] = traded[p]
    /\ \A t \in Trade : \A s \in trades[t] : profiles[s] # 0
    /\ \A t \in Trade \cap Named : \A s, q \in trades[t] : s = q

\* The inductive invariant of the social data script.
IdeasInv == IdeasTypes /\ (\A r \in Run : PendingOf(r)) /\ RowsWhole

\* Rows are whole in a state that has the tables of another.
LEMMA RowsKept ==
    ASSUME RowsWhole, UNCHANGED <<profiles, trades, traded, nick, sourced>>
    PROVE  RowsWhole'
BY DEF RowsWhole, Sourced, Ideas!ProfileOf

\* A run of which nothing changes keeps its part of the invariant.
LEMMA OthersKept ==
    ASSUME NEW r \in Run, PendingOf(r), UNCHANGED <<nick, sourced>>,
           walk'[r] = walk[r], number'[r] = number[r], user'[r] = user[r],
           pending'[r] = pending[r]
    PROVE  PendingOf(r)'
BY DEF PendingOf, Sourced, Ideas!ProfileOf

\* Every step of the script keeps the invariant.
LEMMA IdeasStep == IdeasInv /\ (Ideas!Next \/ UNCHANGED ideasVars) => IdeasInv'
<1> SUFFICES ASSUME IdeasInv, Ideas!Next \/ UNCHANGED ideasVars PROVE IdeasInv'
  OBVIOUS
<1> USE DEF Ideas!tables, Ideas!ipWorld
<1>1. ASSUME NEW r \in Run, Ideas!Start(r)
      PROVE  IdeasInv'
  <2>1. IdeasTypes'
    BY <1>1 DEF Ideas!Start, IdeasInv, IdeasTypes
  <2>2. RowsWhole'
    BY <1>1, RowsKept DEF Ideas!Start, IdeasInv
  <2>3. PendingOf(r)'
    BY <1>1 DEF Ideas!Start, IdeasInv, IdeasTypes, PendingOf
  <2>4. \A q \in Run \ {r} : PendingOf(q)'
    BY <1>1, OthersKept DEF Ideas!Start, IdeasInv, IdeasTypes
  <2> QED
    BY <2>1, <2>2, <2>3, <2>4 DEF IdeasInv
<1>2. ASSUME NEW r \in Run, Ideas!ReadBoard(r)
      PROVE  IdeasInv'
  <2>1. IdeasTypes'
    BY <1>2 DEF Ideas!ReadBoard, Ideas!Discover, Ideas!EntriesOf, IdeasInv, IdeasTypes
  <2>2. RowsWhole'
    BY <1>2, RowsKept DEF Ideas!ReadBoard, IdeasInv
  <2>3. \A q \in Run : PendingOf(q)'
    BY <1>2, OthersKept DEF Ideas!ReadBoard, IdeasInv
  <2> QED
    BY <2>1, <2>2, <2>3 DEF IdeasInv
<1>3. ASSUME NEW r \in Run, Ideas!AddUsers(r)
      PROVE  IdeasInv'
  <2>1. IdeasTypes'
    BY <1>3 DEF Ideas!AddUsers, Ideas!Discover, IdeasInv, IdeasTypes
  <2>2. RowsWhole'
    BY <1>3, RowsKept DEF Ideas!AddUsers, IdeasInv
  <2>3. PendingOf(r)'
    BY <1>3 DEF Ideas!AddUsers, IdeasInv, IdeasTypes, PendingOf
  <2>4. \A q \in Run \ {r} : PendingOf(q)'
    BY <1>3, OthersKept DEF Ideas!AddUsers, IdeasInv, IdeasTypes
  <2> QED
    BY <2>1, <2>2, <2>3, <2>4 DEF IdeasInv
<1>4. ASSUME NEW r \in Run, Ideas!PullProfile(r)
      PROVE  IdeasInv'
  <2>1. PICK s \in todo[r] :
           /\ todo' = [todo EXCEPT ![r] = @ \ {s}]
           /\ pending' = [pending EXCEPT ![r] = @ \cup {nick[s]}]
           /\ IF s \in sourced
              THEN walk' = [walk EXCEPT ![r] = "pages"] /\ user' = [user EXCEPT ![r] = {s}]
              ELSE UNCHANGED <<walk, user>>
    BY <1>4 DEF Ideas!PullProfile, Ideas!UpsertProfile, Ideas!ProfileOf
  <2>2. /\ walk[r] = "users"
        /\ UNCHANGED <<profiles, trades, traded, nick, sourced, number, seen, walks>>
    BY <1>4 DEF Ideas!PullProfile
  <2>3. s \in Slug /\ nick[s] \in Slug
    BY DEF IdeasInv, IdeasTypes
  <2>4. IdeasTypes'
    BY <2>1, <2>2, <2>3 DEF IdeasInv, IdeasTypes
  <2>5. RowsWhole'
    BY <2>2, RowsKept DEF IdeasInv
  <2>6. \A q \in Run \ {r} : PendingOf(q)'
    BY <2>1, <2>2, OthersKept DEF IdeasInv, IdeasTypes
  <2>7. PendingOf(r)'
    <3>1. /\ pending'[r] = pending[r] \cup {nick[s]} /\ number'[r] = number[r]
          /\ s \in sourced => walk'[r] = "pages" /\ user'[r] = {s}
          /\ s \notin sourced => walk'[r] = "users"
      BY <2>1, <2>2 DEF IdeasInv, IdeasTypes
    <3>2. number[r] # 0 /\ \A p \in pending[r] : ~Sourced(p)
      BY <2>2 DEF IdeasInv, PendingOf
    <3>3. \A p : Sourced(p)' <=> Sourced(p)
      BY <2>2 DEF Sourced, Ideas!ProfileOf
    <3>4. s \notin sourced => ~Sourced(nick[s])
      BY <2>3 DEF Sourced, Ideas!ProfileOf
    <3> QED
      BY <2>2, <2>3, <3>1, <3>2, <3>3, <3>4 DEF PendingOf, Ideas!ProfileOf
  <2> QED
    BY <2>4, <2>5, <2>6, <2>7 DEF IdeasInv
<1>5. ASSUME NEW r \in Run, Ideas!ReadPage(r)
      PROVE  IdeasInv'
  <2>1. UNCHANGED <<profiles, trades, traded, nick, sourced, walk, number, user, pending,
                    todo, seen, walks>>
    BY <1>5 DEF Ideas!ReadPage
  <2>2. RowsWhole' /\ \A q \in Run : PendingOf(q)'
    BY <2>1, RowsKept, OthersKept DEF IdeasInv
  <2> QED
    BY <2>1, <2>2 DEF IdeasInv, IdeasTypes
<1>6. ASSUME NEW r \in Run, Ideas!StoreTrades(r)
      PROVE  IdeasInv'
  <2>1. PICK s \in user[r] :
           /\ Ideas!UpsertTrades(r, nick[s])
           /\ traded' = [traded EXCEPT ![nick[s]] = number[r]]
    BY <1>6 DEF Ideas!StoreTrades, Ideas!ProfileOf
  <2>2. /\ walk[r] = "pages" /\ walk' = [walk EXCEPT ![r] = "users"]
        /\ user' = [user EXCEPT ![r] = {}] /\ pending' = [pending EXCEPT ![r] = {}]
        /\ profiles' = [p \in Slug |-> IF p \in pending[r] THEN number[r] ELSE profiles[p]]
        /\ UNCHANGED <<number, seen, todo, nick, sourced, walks>>
    BY <1>6 DEF Ideas!StoreTrades, Ideas!CommitProfiles
  <2>3. /\ user[r] = {s} /\ s \in Slug /\ nick[s] \in Slug
        /\ nick[s] \in pending[r] /\ number[r] # 0 /\ number[r] \in Nat
    BY <2>1, <2>2 DEF IdeasInv, IdeasTypes, PendingOf, Ideas!ProfileOf
  <2>4. trades' = [t \in Trade |->
            IF t \in pages[r] THEN (IF t \in Named THEN {nick[s]} ELSE trades[t] \cup {nick[s]})
                              ELSE trades[t]]
    BY <2>1 DEF Ideas!UpsertTrades, Ideas!Rows
  <2>5. IdeasTypes'
    BY <2>1, <2>2, <2>3, <2>4 DEF IdeasInv, IdeasTypes
  <2>6. \A q \in Run \ {r} : PendingOf(q)'
    BY <2>2, OthersKept DEF IdeasInv, IdeasTypes
  <2>7. PendingOf(r)'
    BY <2>2, <2>3 DEF IdeasInv, IdeasTypes, PendingOf
  <2>8. \A p \in Slug : Sourced(p)' => profiles'[p] = traded'[p]
    <3> SUFFICES ASSUME NEW p \in Slug, Sourced(p) PROVE profiles'[p] = traded'[p]
      BY <2>2 DEF Sourced, Ideas!ProfileOf
    <3>1. p \in pending[r] => p = nick[s]
      BY <2>3 DEF IdeasInv, PendingOf, Ideas!ProfileOf
    <3>2. profiles[p] = traded[p]
      BY DEF IdeasInv, RowsWhole
    <3> QED
      BY <2>1, <2>2, <2>3, <3>1, <3>2 DEF IdeasInv, IdeasTypes
  <2>9. \A t \in Trade : \A q \in trades'[t] : profiles'[q] # 0
    BY <2>2, <2>3, <2>4 DEF IdeasInv, IdeasTypes, RowsWhole
  <2>10. \A t \in Trade \cap Named : \A p, q \in trades'[t] : p = q
    BY <2>4 DEF IdeasInv, RowsWhole
  <2> QED
    BY <2>5, <2>6, <2>7, <2>8, <2>9, <2>10 DEF IdeasInv, RowsWhole
<1>7. ASSUME NEW r \in Run, Ideas!Finish(r)
      PROVE  IdeasInv'
  <2>1. /\ walk[r] = "users" /\ walk' = [walk EXCEPT ![r] = "ended"]
        /\ pending' = [pending EXCEPT ![r] = {}]
        /\ profiles' = [p \in Slug |-> IF p \in pending[r] THEN number[r] ELSE profiles[p]]
        /\ UNCHANGED <<number, trades, traded, user, seen, todo, nick, sourced, walks>>
    BY <1>7 DEF Ideas!Finish, Ideas!CommitProfiles
  <2>2. number[r] # 0 /\ number[r] \in Nat /\ \A p \in pending[r] : ~Sourced(p)
    BY <2>1 DEF IdeasInv, IdeasTypes, PendingOf
  <2>3. IdeasTypes'
    BY <2>1, <2>2 DEF IdeasInv, IdeasTypes
  <2>4. \A q \in Run \ {r} : PendingOf(q)'
    BY <2>1, OthersKept DEF IdeasInv, IdeasTypes
  <2>5. PendingOf(r)'
    BY <2>1 DEF IdeasInv, IdeasTypes, PendingOf
  <2>6. RowsWhole'
    BY <2>1, <2>2 DEF IdeasInv, IdeasTypes, RowsWhole, Sourced, Ideas!ProfileOf
  <2> QED
    BY <2>3, <2>4, <2>5, <2>6 DEF IdeasInv
<1>8. ASSUME NEW r \in Run, Ideas!Fail(r)
      PROVE  IdeasInv'
  <2>1. IdeasTypes'
    BY <1>8 DEF Ideas!Fail, IdeasInv, IdeasTypes
  <2>2. RowsWhole'
    BY <1>8, RowsKept DEF Ideas!Fail, IdeasInv
  <2>3. PendingOf(r)'
    BY <1>8 DEF Ideas!Fail, IdeasInv, IdeasTypes, PendingOf
  <2>4. \A q \in Run \ {r} : PendingOf(q)'
    BY <1>8, OthersKept DEF Ideas!Fail, IdeasInv, IdeasTypes
  <2> QED
    BY <2>1, <2>2, <2>3, <2>4 DEF IdeasInv
<1>9. CASE UNCHANGED ideasVars
  <2>1. UNCHANGED <<profiles, trades, traded, nick, sourced, walk, number, user, pending,
                    todo, seen, walks>>
    BY <1>9 DEF ideasVars
  <2>2. RowsWhole' /\ \A q \in Run : PendingOf(q)'
    BY <2>1, RowsKept, OthersKept DEF IdeasInv
  <2> QED
    BY <2>1, <2>2 DEF IdeasInv, IdeasTypes
<1>10. QED
  BY <1>1, <1>2, <1>3, <1>4, <1>5, <1>6, <1>7, <1>8, <1>9 DEF Ideas!Next

\* A committed profile whose trades have a source is of the run that stored its
\* trades last, no trade is stored without its profile, and one with an id is
\* stored once: for any users, trades and slugs, and any number of runs that
\* overlap, die between a profile and its trades, and are started again.
THEOREM UserStaysWhole ==
    ASSUME Named \subseteq Trade
    PROVE  Spec => []UserIsWhole
<1>1. Init => IdeasInv
  <2> SUFFICES ASSUME Init PROVE IdeasInv
    OBVIOUS
  <2>1. Ideas!Init
    BY DEF Init
  <2>2. nick \in [Slug -> Slug]
    BY <2>1 DEF Ideas!Init
  <2> QED
    BY <2>1, <2>2 DEF Ideas!Init, IdeasInv, IdeasTypes, PendingOf, RowsWhole
<1>2. IdeasInv /\ [Next]_allVars => IdeasInv'
  <2>1. [Next]_allVars => Ideas!Next \/ UNCHANGED ideasVars
    BY DEF Next, allVars
  <2> QED
    BY <2>1, IdeasStep
<1>3. IdeasInv => UserIsWhole
  <2> SUFFICES ASSUME IdeasInv PROVE Ideas!UserIsWhole
    BY DEF UserIsWhole
  <2>1. /\ \A t \in Trade : \A s \in trades[t] : profiles[s] # 0
        /\ \A t \in Named : \A s, q \in trades[t] : s = q
    BY DEF IdeasInv, RowsWhole
  <2>2. \A p \in Slug :
            (\A s \in Slug : Ideas!ProfileOf(s) = p => s \in sourced) => profiles[p] = traded[p]
    BY Zenon DEF IdeasInv, RowsWhole, Sourced
  <2> QED
    BY <2>1, <2>2, Zenon DEF Ideas!UserIsWhole
<1>4. QED
  BY <1>1, <1>2, <1>3, PTL DEF Spec

-----------------------------------------------------------------------------
(* The history pulls                                                       *)

\* The pulls there are.
Kinds == {"trades", "tape", "markets", "candles", "archive", "archived_tape"}

\* Records and the times of a range are numbers.
PullsAssumption ==
    /\ Kind \subseteq Kinds /\ MaxRecord \in Nat /\ From \in Int /\ To \in Int
    /\ Chunk \in Nat

-----------------------------------------------------------------------------
(* The operators                                                           *)

\* A set of numbers has a least one.
LEMMA LeastOf ==
    ASSUME NEW S \in SUBSET Nat, S # {}
    PROVE  \E i \in S : \A k \in S : i <= k
<1> DEFINE before == {ss \in Nat \X Nat : ss[1] < ss[2]}
<1>1. IsWellFoundedOn(before, Nat)
  BY NatLessThanWellFounded, Zenon DEF OpToRel
<1>2. \E i \in S : \A k \in S : ~(<<k, i>> \in before)
  <2> HIDE DEF before
  <2> QED
    BY <1>1, WFMin
<1>3. PICK i \in S : \A k \in S : ~(<<k, i>> \in before)
  BY <1>2
<1>4. ASSUME NEW k \in S
      PROVE  i <= k
  <2>1. i \in Nat /\ k \in Nat /\ <<k, i>> \in Nat \X Nat
    OBVIOUS
  <2>2. ~(k < i)
    BY <1>3, <2>1
  <2> QED
    BY <2>1, <2>2
<1> QED
  BY <1>4

\* A page that is not empty has an oldest record.
LEMMA OldestOfPage ==
    ASSUME NEW page, page \subseteq Nat, page # {}
    PROVE  /\ Pulls!Oldest(page) \in page
           /\ \A i \in page : Pulls!Oldest(page) <= i
BY LeastOf DEF Pulls!Oldest

\* Storing rows takes none away, and stores them.
LEMMA RowsGrow ==
    ASSUME table \in [Pulls!Record -> Nat], NEW S
    PROVE  /\ Pulls!Rows(S) \in [Pulls!Record -> Nat]
           /\ \A i \in Pulls!Record : table[i] > 0 \/ i \in S => Pulls!Rows(S)[i] > 0
BY DEF Pulls!Rows

\* Records of a run that its cursor has passed.
Passed(r, i) == IF kind = "candles" THEN Pulls!At(i) > cursor[r] ELSE Pulls!At(i) >= cursor[r]

\* The types of the pulls.
PullsTypes ==
    /\ kind \in Kind /\ newest \in Nat
    /\ exists \subseteq Pulls!Record /\ existed \in [Run -> SUBSET Pulls!Record]
    /\ table \in [Pulls!Record -> Nat]
    /\ pull \in [Run -> {"idle", "paging", "storing", "storing_part", "done", "cut"}]
    /\ cursor \in [Run -> Int] /\ uncommitted \in [Run -> SUBSET Pulls!Record]
    /\ pulls \in Nat

-----------------------------------------------------------------------------
(* What a walk has stored                                                  *)

\* Stored, or about to be.
Kept(r, i) == table[i] > 0 \/ i \in uncommitted[r]

\* Candles have no gap that would end the walk.
Even(r) == kind = "candles" => Pulls!Gapless(r)

\* What a walk has stored: all that its cursor has passed of what there was when
\* it began.
WalkOf(r) ==
    /\ existed[r] \subseteq exists
    /\ pull[r] = "paging" =>
         /\ \A i \in existed[r] : Pulls!InRange(i) /\ Passed(r, i) => Kept(r, i)
         /\ kind = "candles" => cursor[r] = To \/ (cursor[r] < To /\ cursor[r] > From)
    /\ pull[r] = "storing" /\ Even(r) =>
         \A i \in existed[r] : Pulls!InRange(i) => Kept(r, i)
    /\ pull[r] = "done" /\ Even(r) =>
         \A i \in existed[r] : Pulls!InRange(i) => table[i] > 0

\* A run of which only the world changes keeps its part, as rows stay.
LEMMA WalkKept ==
    ASSUME NEW r \in Run, PullsTypes, WalkOf(r), kind' = kind, existed'[r] = existed[r],
           exists \subseteq exists', pull'[r] = pull[r], cursor'[r] = cursor[r],
           uncommitted'[r] = uncommitted[r],
           \A i \in Pulls!Record : table[i] > 0 => table'[i] > 0
    PROVE  WalkOf(r)'
<1>1. /\ Even(r)' <=> Even(r)
      /\ \A i : (Pulls!InRange(i)' <=> Pulls!InRange(i)) /\ (Passed(r, i)' <=> Passed(r, i))
  BY DEF Even, Pulls!Gapless, Pulls!InRange, Passed
<1>2. \A i \in existed[r] : Kept(r, i) => Kept(r, i)'
  BY DEF Kept, PullsTypes
<1>3. \A i \in existed[r] : table[i] > 0 => table'[i] > 0
  BY DEF PullsTypes
<1> QED
  BY <1>1, <1>2, <1>3 DEF WalkOf

\* A page has all that is newer than the cursor it leads to.
LEMMA PageHasAll ==
    ASSUME PullsAssumption, PullsTypes, NEW r \in Run, NEW page \in Pulls!PagesOf(r), page # {},
           NEW i \in exists, ~Passed(r, i), i \notin page,
           kind = "candles" => Pulls!InRange(i)
    PROVE  /\ Pulls!CursorAfter(page) \in Int
           /\ kind = "candles" => Pulls!At(i) <= Pulls!CursorAfter(page)
           /\ kind # "candles" => Pulls!At(i) < Pulls!CursorAfter(page)
<1>1. page \subseteq Pulls!Older(r) /\ page \subseteq Nat /\ i \in Nat /\ page \subseteq exists
  BY DEF Pulls!PagesOf, Pulls!Older, PullsTypes, Pulls!Record
<1> DEFINE oldest == Pulls!Oldest(page)
<1>2. oldest \in page /\ oldest \in Nat
  BY <1>1, OldestOfPage
<1> HIDE DEF oldest
<1>3. CASE kind = "candles"
  <2>1. /\ page = Pulls!Older(r) /\ 2 * i <= cursor[r] /\ 2 * i >= From
        /\ 2 * oldest <= cursor[r] /\ 2 * oldest >= From /\ 2 * oldest >= cursor[r] - Chunk
    BY <1>1, <1>2, <1>3
       DEF Pulls!PagesOf, Pulls!Older, Passed, Pulls!At, Pulls!InRange, PullsTypes, PullsAssumption
  <2>2. cursor[r] \in Int /\ Chunk \in Int
    BY DEF PullsTypes, PullsAssumption
  <2>3. 2 * i < cursor[r] - Chunk
    <3>1. ~(2 * i >= cursor[r] - Chunk)
      BY <1>3, <2>1 DEF Pulls!Older, Pulls!At
    <3> QED
      BY <1>1, <2>2, <3>1
  <2>4. 2 * i < 2 * oldest
    BY <1>1, <1>2, <2>1, <2>2, <2>3
  <2>5. Pulls!CursorAfter(page) = 2 * oldest - 1
    BY <1>3 DEF Pulls!CursorAfter, Pulls!At, oldest
  <2> QED
    BY <1>1, <1>2, <1>3, <2>4, <2>5 DEF Pulls!At
<1>4. CASE kind # "candles"
  <2>1. i \in Pulls!Older(r) /\ Pulls!Newest(page, Pulls!Older(r))
    BY <1>4 DEF Pulls!PagesOf, Pulls!Older, Passed, Pulls!At, PullsTypes, Pulls!Record
  <2>2. i < oldest
    BY <1>1, <1>2, <2>1 DEF Pulls!Newest
  <2>3. Pulls!CursorAfter(page) = 2 * oldest
    BY <1>4 DEF Pulls!CursorAfter, Pulls!At, oldest
  <2> QED
    BY <1>1, <1>2, <1>4, <2>2, <2>3 DEF Pulls!At
<1> QED
  BY <1>3, <1>4

\* The cursor behind a page is a time.
LEMMA CursorIsTime ==
    ASSUME PullsTypes, NEW r \in Run, NEW page \in Pulls!PagesOf(r), page # {}
    PROVE  Pulls!CursorAfter(page) \in Int
<1>1. page \subseteq Nat
  BY DEF Pulls!PagesOf, Pulls!Older, PullsTypes, Pulls!Record
<1>2. Pulls!Oldest(page) \in Nat
  BY <1>1, OldestOfPage
<1> QED
  BY <1>2 DEF Pulls!CursorAfter, Pulls!At

\* A page is of records.
LEMMA PageIsOfRecords ==
    ASSUME PullsTypes, NEW r \in Run, NEW page \in Pulls!PagesOf(r)
    PROVE  page \subseteq Pulls!Older(r) /\ page \subseteq exists /\ page \subseteq Pulls!Record
BY DEF Pulls!PagesOf, Pulls!Older, PullsTypes

\* Every step keeps the types.
LEMMA PullsTypesStep ==
    ASSUME PullsAssumption
    PROVE  PullsTypes /\ (Pulls!Next \/ UNCHANGED pullVars) => PullsTypes'
<1> SUFFICES ASSUME PullsTypes, Pulls!Next \/ UNCHANGED pullVars PROVE PullsTypes'
  OBVIOUS
<1> USE DEF Pulls!Goto, Pulls!exchange, Pulls!runs
<1>1. CASE Pulls!Happens
  BY <1>1 DEF Pulls!Happens, Pulls!Record, PullsTypes, PullsAssumption
<1>2. ASSUME NEW r \in Run, Pulls!Begin(r)
      PROVE  PullsTypes'
  BY <1>2 DEF Pulls!Begin, Pulls!Infinity, PullsTypes, PullsAssumption
<1>3. ASSUME NEW r \in Run, Pulls!Page(r)
      PROVE  PullsTypes'
  <2>1. PICK page \in Pulls!PagesOf(r) :
           /\ Pulls!Takes(r, {i \in page : Pulls!InRange(i)})
           /\ \/ pull' = [pull EXCEPT ![r] = "storing"] /\ UNCHANGED cursor
              \/ page # {} /\ cursor' = [cursor EXCEPT ![r] = Pulls!CursorAfter(page)]
                 /\ UNCHANGED pull
    BY <1>3 DEF Pulls!Page
  <2>2. UNCHANGED <<kind, exists, newest, existed, pulls>>
    BY <1>3 DEF Pulls!Page
  <2> DEFINE new == {i \in page : Pulls!InRange(i)}
  <2>3. new \in SUBSET Pulls!Record
    BY PageIsOfRecords
  <2> HIDE DEF new
  <2>4. /\ table' \in [Pulls!Record -> Nat]
        /\ uncommitted' \in [Run -> SUBSET Pulls!Record]
    <3>1. Pulls!Takes(r, new)
      BY <2>1 DEF new
    <3>2. Pulls!Rows(new) \in [Pulls!Record -> Nat]
      BY RowsGrow DEF PullsTypes
    <3> QED
      BY <2>3, <3>1, <3>2 DEF Pulls!Takes, PullsTypes
  <2>5. pull' \in [Run -> {"idle", "paging", "storing", "storing_part", "done", "cut"}]
    BY <2>1 DEF PullsTypes
  <2>6. cursor' \in [Run -> Int]
    BY <2>1, CursorIsTime DEF PullsTypes
  <2> QED
    BY <2>2, <2>4, <2>5, <2>6 DEF PullsTypes
<1>4. ASSUME NEW r \in Run, Pulls!Retry(r)
      PROVE  PullsTypes'
  BY <1>4 DEF Pulls!Retry, PullsTypes
<1>5. ASSUME NEW r \in Run, Pulls!GivesUp(r)
      PROVE  PullsTypes'
  BY <1>5 DEF Pulls!GivesUp, PullsTypes
<1>6. ASSUME NEW r \in Run, Pulls!Store(r)
      PROVE  PullsTypes'
  BY <1>6, RowsGrow DEF Pulls!Store, PullsTypes
<1>7. ASSUME NEW r \in Run, Pulls!Dies(r)
      PROVE  PullsTypes'
  <2>1. table' \in [Pulls!Record -> Nat]
    BY <1>7, RowsGrow DEF Pulls!Dies, PullsTypes
  <2> QED
    BY <1>7, <2>1 DEF Pulls!Dies, PullsTypes
<1>8. CASE UNCHANGED pullVars
  BY <1>8 DEF pullVars, PullsTypes
<1> QED
  BY <1>1, <1>2, <1>3, <1>4, <1>5, <1>6, <1>7, <1>8 DEF Pulls!Next

\* While a page leaves out a record of the range, the walk goes on.
LEMMA WalkGoesOn ==
    ASSUME PullsAssumption, PullsTypes, NEW r \in Run, WalkOf(r), pull[r] = "paging",
           NEW page \in Pulls!PagesOf(r),
           NEW i \in existed[r], Pulls!InRange(i), ~Passed(r, i), i \notin page
    PROVE  /\ Even(r) => page # {}
           /\ ~Pulls!PastStart(page) /\ ~Pulls!NoCursor(r, page)
           /\ page # {} => ~Pulls!AtStart(page)
<1>1. i \in exists /\ i \in Nat /\ exists \subseteq Nat
  BY DEF WalkOf, PullsTypes, Pulls!Record
<1>2. page \subseteq Pulls!Older(r) /\ page \subseteq Nat
  BY <1>1, PageIsOfRecords
<1>3. kind # "candles" => i \in Pulls!Older(r) /\ Pulls!Newest(page, Pulls!Older(r))
  BY <1>1 DEF Pulls!PagesOf, Pulls!Older, Passed, Pulls!At, PullsTypes
<1>4. Even(r) => page # {}
  <2>1. CASE kind # "candles"
    BY <1>3, <2>1 DEF Pulls!PagesOf
  <2>2. CASE kind = "candles"
    <3>1. From <= 2 * i /\ 2 * i <= To /\ cursor[r] \in Int
      BY <2>2 DEF Pulls!InRange, Pulls!At, PullsTypes
    <3>2. cursor[r] \in From..To
      BY <1>1, <2>2, <3>1 DEF WalkOf, PullsAssumption
    <3>3. Even(r) => \E k \in existed[r] : /\ Pulls!At(k) <= cursor[r] /\ Pulls!At(k) >= From
                                           /\ Pulls!At(k) >= cursor[r] - Chunk
      BY <2>2, <3>2 DEF Even, Pulls!Gapless
    <3>4. page = Pulls!Older(r)
      BY <2>2 DEF Pulls!PagesOf
    <3> QED
      BY <2>2, <3>3, <3>4 DEF Pulls!Older, WalkOf
  <2> QED
    BY <2>1, <2>2
<1>5. ~Pulls!PastStart(page)
  <2> SUFFICES ASSUME kind \in {"trades", "markets"}, NEW k \in page, Pulls!At(k) < From
               PROVE  FALSE
    BY DEF Pulls!PastStart
  <2>1. ~(i > k)
    BY <1>2, <1>3 DEF Pulls!Newest
  <2>2. From <= 2 * i
    BY DEF Pulls!InRange, Pulls!At
  <2> QED
    BY <1>1, <1>2, <2>1, <2>2 DEF Pulls!At, PullsAssumption
<1>6. ~Pulls!NoCursor(r, page)
  BY <1>3 DEF Pulls!NoCursor
<1>7. ASSUME page # {}, Pulls!AtStart(page)
      PROVE  FALSE
  <2>1. kind = "candles" /\ Pulls!CursorAfter(page) <= From
    BY <1>7 DEF Pulls!AtStart
  <2>2. Pulls!At(i) <= Pulls!CursorAfter(page) /\ Pulls!CursorAfter(page) \in Int
    BY <1>1, <1>7, <2>1, PageHasAll
  <2>3. From <= 2 * i
    BY <2>1 DEF Pulls!InRange, Pulls!At
  <2>4. PICK oldest \in Nat : Pulls!CursorAfter(page) = 2 * oldest - 1
    BY <1>2, <1>7, <2>1, OldestOfPage DEF Pulls!CursorAfter, Pulls!At
  <2>5. 2 * i = 2 * oldest - 1
    BY <1>1, <2>1, <2>2, <2>3, <2>4 DEF Pulls!At, PullsAssumption
  <2> QED
    BY <1>1, <2>4, <2>5
<1> QED
  BY <1>4, <1>5, <1>6, <1>7

\* Every step keeps what the walks have stored.
LEMMA WalkStep ==
    ASSUME PullsAssumption, PullsTypes, \A r \in Run : WalkOf(r),
           Pulls!Next \/ UNCHANGED pullVars
    PROVE  \A r \in Run : WalkOf(r)'
<1> USE DEF Pulls!Goto, Pulls!exchange, Pulls!runs
<1>1. CASE Pulls!Happens
  BY <1>1, WalkKept DEF Pulls!Happens
<1>2. ASSUME NEW r \in Run, Pulls!Begin(r)
      PROVE  \A q \in Run : WalkOf(q)'
  <2>1. \A q \in Run \ {r} : WalkOf(q)'
    BY <1>2, WalkKept DEF Pulls!Begin, PullsTypes
  <2>2. /\ pull'[r] = "paging" /\ existed'[r] = exists /\ UNCHANGED <<kind, exists>>
        /\ cursor'[r] = IF kind = "candles" THEN To ELSE Pulls!Infinity
    BY <1>2 DEF Pulls!Begin, PullsTypes
  <2>3. ASSUME NEW i \in exists, Pulls!InRange(i)'
        PROVE  ~Passed(r, i)'
    <3>1. i \in 1..MaxRecord
      BY DEF PullsTypes, Pulls!Record
    <3>2. CASE kind = "candles"
      <4>1. 2 * i <= To
        BY <2>2, <2>3, <3>2 DEF Pulls!InRange, Pulls!At
      <4> QED
        BY <2>2, <3>1, <3>2, <4>1 DEF Passed, Pulls!At, PullsAssumption
    <3>3. CASE kind # "candles"
      BY <2>2, <3>1, <3>3 DEF Passed, Pulls!At, Pulls!Infinity, PullsAssumption
    <3> QED
      BY <3>2, <3>3
  <2>4. WalkOf(r)'
    BY <2>2, <2>3 DEF WalkOf
  <2> QED
    BY <2>1, <2>4
<1>3. ASSUME NEW r \in Run, Pulls!Page(r)
      PROVE  \A q \in Run : WalkOf(q)'
  <2>1. PICK page \in Pulls!PagesOf(r) :
           /\ Pulls!Takes(r, {i \in page : Pulls!InRange(i)})
           /\ IF \/ page = {} \/ Pulls!PastStart(page) \/ Pulls!NoCursor(r, page)
                 \/ Pulls!AtStart(page)
              THEN pull' = [pull EXCEPT ![r] = "storing"] /\ UNCHANGED cursor
              ELSE cursor' = [cursor EXCEPT ![r] = Pulls!CursorAfter(page)] /\ UNCHANGED pull
    BY <1>3 DEF Pulls!Page
  <2>2. pull[r] = "paging" /\ UNCHANGED <<kind, exists, newest, existed, pulls>>
    BY <1>3 DEF Pulls!Page
  <2> DEFINE new == {i \in page : Pulls!InRange(i)}
  <2>3. Pulls!Takes(r, new) /\ new \subseteq Pulls!Record
    BY <2>1, PageIsOfRecords
  <2>4. /\ \A i \in Pulls!Record : table[i] > 0 => table'[i] > 0
        /\ \A q \in Run \ {r} : uncommitted'[q] = uncommitted[q]
        /\ \A i \in Pulls!Record : Kept(r, i) \/ i \in new => Kept(r, i)'
    <3> HIDE DEF new
    <3>1. CASE Pulls!Autocommit
      BY <2>3, <3>1, RowsGrow DEF Pulls!Takes, Kept, PullsTypes
    <3>2. CASE ~Pulls!Autocommit
      BY <2>3, <3>2 DEF Pulls!Takes, Kept, PullsTypes
    <3> QED
      BY <3>1, <3>2
  <2>5. \A q \in Run \ {r} : WalkOf(q)'
    BY <2>1, <2>2, <2>4, WalkKept DEF PullsTypes
  <2>6. /\ existed[r] \subseteq Pulls!Record /\ existed[r] \subseteq exists
        /\ \A i \in existed[r] : Pulls!InRange(i) /\ Passed(r, i) => Kept(r, i)
        /\ kind = "candles" => cursor[r] = To \/ (cursor[r] < To /\ cursor[r] > From)
    BY <2>2 DEF WalkOf, PullsTypes
  <2>7. \A i \in existed[r] : Pulls!InRange(i) /\ (Passed(r, i) \/ i \in page) => Kept(r, i)'
    BY <2>4, <2>6
  <2>8. /\ \A i : Pulls!InRange(i)' <=> Pulls!InRange(i)
        /\ Even(r)' <=> Even(r)
    BY <2>2 DEF Pulls!InRange, Even, Pulls!Gapless
  <2>9. WalkOf(r)'
    <3>1. CASE page = {} \/ Pulls!PastStart(page) \/ Pulls!NoCursor(r, page)
               \/ Pulls!AtStart(page)
      <4>1. pull'[r] = "storing"
        BY <2>1, <3>1 DEF PullsTypes
      <4>2. Even(r) => \A i \in existed[r] : Pulls!InRange(i) => Passed(r, i) \/ i \in page
        BY <2>2, <3>1, WalkGoesOn
      <4> QED
        BY <2>2, <2>6, <2>7, <2>8, <4>1, <4>2 DEF WalkOf
    <3>2. CASE ~(page = {} \/ Pulls!PastStart(page) \/ Pulls!NoCursor(r, page)
                 \/ Pulls!AtStart(page))
      <4>1. pull'[r] = "paging" /\ cursor'[r] = Pulls!CursorAfter(page)
        BY <2>1, <2>2, <3>2 DEF PullsTypes
      <4>2. ASSUME NEW i \in existed[r], Pulls!InRange(i), Passed(r, i)'
            PROVE  Passed(r, i) \/ i \in page
        <5> SUFFICES ASSUME ~Passed(r, i), i \notin page PROVE FALSE
          OBVIOUS
        <5>1. /\ Pulls!CursorAfter(page) \in Int /\ Pulls!At(i) \in Int
              /\ kind = "candles" => Pulls!At(i) <= Pulls!CursorAfter(page)
              /\ kind # "candles" => Pulls!At(i) < Pulls!CursorAfter(page)
          BY <2>6, <3>2, <4>2, PageHasAll DEF Pulls!At, Pulls!Record
        <5> QED
          BY <2>2, <4>1, <4>2, <5>1 DEF Passed
      <4>3. kind = "candles" => cursor'[r] < To /\ cursor'[r] > From
        <5> SUFFICES ASSUME kind = "candles"
                     PROVE  cursor'[r] < To /\ cursor'[r] > From
          OBVIOUS
        <5>1. page \subseteq Nat /\ page \subseteq Pulls!Older(r)
          BY PageIsOfRecords DEF Pulls!Record
        <5>2. PICK oldest \in page : Pulls!CursorAfter(page) = 2 * oldest - 1
          BY <3>2, <5>1, OldestOfPage DEF Pulls!CursorAfter, Pulls!At
        <5>3. 2 * oldest <= cursor[r] /\ oldest \in Nat /\ cursor[r] \in Int
          BY <5>1, <5>2 DEF Pulls!Older, Pulls!At, PullsTypes
        <5>4. ~(2 * oldest - 1 <= From)
          BY <3>2, <5>2 DEF Pulls!AtStart
        <5> QED
          BY <2>6, <4>1, <5>2, <5>3, <5>4 DEF PullsAssumption
      <4> QED
        BY <2>2, <2>6, <2>7, <2>8, <4>1, <4>2, <4>3 DEF WalkOf
    <3> QED
      BY <3>1, <3>2
  <2> QED
    BY <2>5, <2>9
<1>4. ASSUME NEW r \in Run, Pulls!Retry(r)
      PROVE  \A q \in Run : WalkOf(q)'
  BY <1>4, WalkKept DEF Pulls!Retry
<1>5. ASSUME NEW r \in Run, Pulls!GivesUp(r)
      PROVE  \A q \in Run : WalkOf(q)'
  <2>1. \A q \in Run \ {r} : WalkOf(q)'
    BY <1>5, WalkKept DEF Pulls!GivesUp, PullsTypes
  <2>2. WalkOf(r)'
    BY <1>5 DEF Pulls!GivesUp, WalkOf, PullsTypes
  <2> QED
    BY <2>1, <2>2
<1>6. ASSUME NEW r \in Run, Pulls!Store(r)
      PROVE  \A q \in Run : WalkOf(q)'
  <2>1. /\ table' = Pulls!Rows(uncommitted[r])
        /\ uncommitted' = [uncommitted EXCEPT ![r] = {}]
        /\ pull[r] \in {"storing", "storing_part"}
        /\ pull' = [pull EXCEPT ![r] = IF pull[r] = "storing" THEN "done" ELSE "cut"]
        /\ UNCHANGED <<kind, exists, cursor, existed>>
    BY <1>6 DEF Pulls!Store
  <2>2. \A i \in Pulls!Record : table[i] > 0 \/ i \in uncommitted[r] => table'[i] > 0
    BY <2>1, RowsGrow DEF PullsTypes
  <2>3. \A q \in Run \ {r} : WalkOf(q)'
    BY <2>1, <2>2, WalkKept DEF PullsTypes
  <2>4. /\ \A i : Pulls!InRange(i)' <=> Pulls!InRange(i)
        /\ Even(r)' <=> Even(r)
    BY <2>1 DEF Pulls!InRange, Even, Pulls!Gapless
  <2>5. (pull'[r] = "done" /\ pull[r] = "storing") \/ pull'[r] = "cut"
    BY <2>1 DEF PullsTypes
  <2>6. WalkOf(r)'
    BY <2>1, <2>2, <2>4, <2>5 DEF WalkOf, Kept, PullsTypes
  <2> QED
    BY <2>3, <2>6
<1>7. ASSUME NEW r \in Run, Pulls!Dies(r)
      PROVE  \A q \in Run : WalkOf(q)'
  <2>1. \A i \in Pulls!Record : table[i] > 0 => table'[i] > 0
    BY <1>7, RowsGrow DEF Pulls!Dies, PullsTypes
  <2>2. /\ pull' = [pull EXCEPT ![r] = "idle"]
        /\ uncommitted' = [uncommitted EXCEPT ![r] = {}]
        /\ UNCHANGED <<kind, exists, cursor, existed>>
    BY <1>7 DEF Pulls!Dies
  <2>3. \A q \in Run \ {r} : WalkOf(q)'
    BY <2>1, <2>2, WalkKept DEF PullsTypes
  <2>4. WalkOf(r)'
    BY <2>2 DEF WalkOf, PullsTypes
  <2> QED
    BY <2>3, <2>4
<1>8. CASE UNCHANGED pullVars
  BY <1>8, WalkKept DEF pullVars
<1> QED
  BY <1>1, <1>2, <1>3, <1>4, <1>5, <1>6, <1>7, <1>8 DEF Pulls!Next

\* A pull that comes to its end has stored every record of its range that was
\* there when it started, for any number of records, runs and pages of any
\* length, whatever is added in the meantime and whichever runs die or overlap.
THEOREM FinishedPullIsComplete ==
    ASSUME PullsAssumption
    PROVE  Spec => []DoneIsComplete
<1> DEFINE Inv == PullsTypes /\ \A r \in Run : WalkOf(r)
<1>1. Init => Inv
  <2> SUFFICES ASSUME Pulls!Init PROVE Inv
    BY DEF Init
  <2> QED
    BY DEF Pulls!Init, PullsTypes, WalkOf
<1>2. Inv /\ [Next]_allVars => Inv'
  <2>1. [Next]_allVars => Pulls!Next \/ UNCHANGED pullVars
    BY DEF Next, allVars
  <2> QED
    BY <2>1, PullsTypesStep, WalkStep
<1>3. Inv => DoneIsComplete
  <2> SUFFICES ASSUME Inv, NEW r \in Run, pull[r] = "done",
                      kind = "candles" => Pulls!Gapless(r)
               PROVE  \A i \in existed[r] : Pulls!InRange(i) => table[i] > 0
    BY DEF DoneIsComplete, Pulls!DoneIsComplete
  <2> QED
    BY DEF WalkOf, Even
<1> QED
  BY <1>1, <1>2, <1>3, PTL DEF Spec

-----------------------------------------------------------------------------
(* How often a record is stored                                            *)

\* Tables whose rows have no key of the exchange.
Unkeyed == kind \in {"tape", "candles", "archived_tape"}

\* A run that may still store a record: those of the tape store as they walk,
\* the others behind the walk.
MayStore(r, i) ==
    IF kind = "tape" THEN pull[r] = "paging" /\ Pulls!At(i) < cursor[r]
                     ELSE pull[r] \in {"paging", "storing", "storing_part"}

\* The runs that may.
Storing(i) == {r \in Run : MayStore(r, i)}

\* How many rows a record has.
RowCounts ==
    /\ kind = "tape" => \A r \in Run : uncommitted[r] = {}
    /\ ~Unkeyed => \A i \in Pulls!Record : table[i] <= 1
    /\ Unkeyed => \A i \in Pulls!Record : table[i] + Cardinality(Storing(i)) <= pulls

\* A set that loses an element has one less.
LEMMA Loses ==
    ASSUME NEW A, NEW B, IsFiniteSet(A), B \subseteq A
    PROVE  /\ Cardinality(A) \in Nat /\ Cardinality(B) \in Nat
           /\ Cardinality(B) <= Cardinality(A)
           /\ \A x \in A : x \notin B => Cardinality(B) + 1 <= Cardinality(A)
<1>1. IsFiniteSet(B) /\ Cardinality(B) <= Cardinality(A)
  BY FS_Subset
<1>2. Cardinality(A) \in Nat /\ Cardinality(B) \in Nat
  BY <1>1, FS_CardinalityType
<1>3. ASSUME NEW x \in A, x \notin B
      PROVE  Cardinality(B) + 1 <= Cardinality(A)
  <2>1. IsFiniteSet(A \ {x}) /\ Cardinality(A \ {x}) = Cardinality(A) - 1
    BY <1>3, FS_RemoveElement
  <2>2. Cardinality(B) <= Cardinality(A \ {x})
    BY <1>3, <2>1, FS_Subset
  <2> QED
    BY <1>2, <2>1, <2>2
<1> QED
  BY <1>1, <1>2, <1>3

\* One run stores a record once more and may not store it again, or stores
\* nothing: the count stays within that of the runs.
LEMMA CountKept ==
    ASSUME IsFiniteSet(Run), PullsTypes, PullsTypes', RowCounts, Unkeyed, NEW i \in Pulls!Record,
           NEW r \in Run, pulls' = pulls, Storing(i)' \subseteq Storing(i),
           \/ table'[i] = table[i]
           \/ table'[i] = table[i] + 1 /\ r \in Storing(i) /\ r \notin Storing(i)'
    PROVE  table'[i] + Cardinality(Storing(i)') <= pulls'
<1>1. Storing(i) \subseteq Run
  BY DEF Storing
<1>2. IsFiniteSet(Storing(i))
  BY <1>1, FS_Subset
<1>3. /\ Cardinality(Storing(i)) \in Nat /\ Cardinality(Storing(i)') \in Nat
      /\ Cardinality(Storing(i)') <= Cardinality(Storing(i))
      /\ r \in Storing(i) /\ r \notin Storing(i)'
           => Cardinality(Storing(i)') + 1 <= Cardinality(Storing(i))
  BY <1>2, Loses
<1>4. table[i] + Cardinality(Storing(i)) <= pulls /\ table[i] \in Nat /\ pulls \in Nat
      /\ table'[i] \in Nat
  BY DEF RowCounts, PullsTypes
<1> QED
  BY <1>3, <1>4

\* Storing a set of records adds a row to each of them, or makes it one.
LEMMA RowsOnce ==
    ASSUME PullsAssumption, PullsTypes, NEW S, NEW i \in Pulls!Record
    PROVE  /\ Unkeyed => Pulls!Rows(S)[i] = IF i \in S THEN table[i] + 1 ELSE table[i]
           /\ ~Unkeyed => Pulls!Rows(S)[i] \in {table[i], 1}
BY DEF Pulls!Rows, Pulls!Keyed, Unkeyed, PullsTypes, PullsAssumption, Kinds

\* Every step keeps the counts.
LEMMA CountStep ==
    ASSUME PullsAssumption, IsFiniteSet(Run), PullsTypes, PullsTypes', RowCounts,
           Pulls!Next \/ UNCHANGED pullVars
    PROVE  RowCounts'
<1> USE DEF Pulls!Goto, Pulls!exchange, Pulls!runs
<1>1. ASSUME UNCHANGED <<kind, table, uncommitted, cursor, pulls>>,
             \A q \in Run : \/ pull'[q] = pull[q]
                            \/ kind # "tape" /\ {pull[q], pull'[q]} \subseteq
                                   {"paging", "storing", "storing_part"}
                            \/ pull'[q] \notin {"paging", "storing", "storing_part"}
                            \/ kind = "tape" /\ pull'[q] # "paging"
      PROVE  RowCounts'
  <2>1. \A i \in Pulls!Record : Storing(i)' \subseteq Storing(i)
    BY <1>1 DEF Storing, MayStore
  <2>2. CASE Run = {}
    BY <1>1, <2>2 DEF RowCounts, Storing, Unkeyed
  <2>3. CASE Run # {}
    BY <1>1, <2>1, <2>3, CountKept DEF RowCounts, Unkeyed
  <2> QED
    BY <2>2, <2>3
<1>2. CASE Pulls!Happens
  BY <1>1, <1>2 DEF Pulls!Happens
<1>3. ASSUME NEW r \in Run, Pulls!Begin(r)
      PROVE  RowCounts'
  <2>1. /\ pull[r] \in {"idle", "done", "cut"} /\ pull' = [pull EXCEPT ![r] = "paging"]
        /\ pulls' = pulls + 1 /\ uncommitted' = [uncommitted EXCEPT ![r] = {}]
        /\ cursor' = [cursor EXCEPT ![r] = IF kind = "candles" THEN To ELSE Pulls!Infinity]
        /\ UNCHANGED <<kind, table>>
    BY <1>3 DEF Pulls!Begin
  <2>2. ASSUME Unkeyed, NEW i \in Pulls!Record
        PROVE  table'[i] + Cardinality(Storing(i)') <= pulls'
    <3>1. Storing(i) \subseteq Run /\ Storing(i)' \subseteq Storing(i) \cup {r}
      BY <2>1 DEF Storing, MayStore, PullsTypes
    <3>2. IsFiniteSet(Storing(i))
      BY <3>1, FS_Subset
    <3>7. Cardinality(Storing(i)) \in Nat
      BY <3>2, FS_CardinalityType
    <3>8. /\ IsFiniteSet(Storing(i) \cup {r})
          /\ Cardinality(Storing(i) \cup {r}) = IF r \in Storing(i) THEN Cardinality(Storing(i))
                                                  ELSE Cardinality(Storing(i)) + 1
      BY <3>2, FS_AddElement
    <3>3. /\ IsFiniteSet(Storing(i) \cup {r})
          /\ Cardinality(Storing(i) \cup {r}) <= Cardinality(Storing(i)) + 1
          /\ Cardinality(Storing(i)) \in Nat
      <4>1. CASE r \in Storing(i)
        BY <3>7, <3>8, <4>1
      <4>2. CASE r \notin Storing(i)
        BY <3>7, <3>8, <4>2
      <4> QED
        BY <4>1, <4>2
    <3>4. Cardinality(Storing(i)') \in Nat
          /\ Cardinality(Storing(i)') <= Cardinality(Storing(i) \cup {r})
      BY <3>1, <3>3, Loses
    <3>5. table[i] + Cardinality(Storing(i)) <= pulls /\ table[i] \in Nat /\ pulls \in Nat
      BY <2>2 DEF RowCounts, PullsTypes
    <3>6. Cardinality(Storing(i) \cup {r}) \in Nat
      BY <3>3, FS_CardinalityType
    <3> QED
      BY <2>1, <3>3, <3>4, <3>5, <3>6
  <2>3. Unkeyed' <=> Unkeyed
    BY <2>1 DEF Unkeyed
  <2>4. kind' = "tape" => \A q \in Run : uncommitted'[q] = {}
    BY <2>1 DEF RowCounts, PullsTypes
  <2> QED
    BY <2>1, <2>2, <2>3, <2>4 DEF RowCounts
<1>4. ASSUME NEW r \in Run, NEW S \in SUBSET Pulls!Record, table' = Pulls!Rows(S),
             UNCHANGED <<kind, pulls>>,
             \A q \in Run : uncommitted'[q] = uncommitted[q] \/ uncommitted'[q] = {},
             \A i \in Pulls!Record : Storing(i)' \subseteq Storing(i),
             Unkeyed => \A i \in S : r \in Storing(i) /\ r \notin Storing(i)'
      PROVE  RowCounts'
  <2>1. kind' = "tape" => \A q \in Run : uncommitted'[q] = {}
    BY <1>4 DEF RowCounts
  <2>2. ~Unkeyed' => \A i \in Pulls!Record : table'[i] <= 1
    BY <1>4, RowsOnce DEF RowCounts, Unkeyed
  <2>3. ASSUME Unkeyed, NEW i \in Pulls!Record
        PROVE  table'[i] + Cardinality(Storing(i)') <= pulls'
    <3>1. table'[i] = IF i \in S THEN table[i] + 1 ELSE table[i]
      BY <1>4, <2>3, RowsOnce
    <3> QED
      BY <1>4, <2>3, <3>1, CountKept
  <2>4. Unkeyed' <=> Unkeyed
    BY <1>4 DEF Unkeyed
  <2> QED
    BY <2>1, <2>2, <2>3, <2>4 DEF RowCounts
<1>5. ASSUME NEW r \in Run, Pulls!Page(r)
      PROVE  RowCounts'
  <2>1. PICK page \in Pulls!PagesOf(r) :
           /\ Pulls!Takes(r, {i \in page : Pulls!InRange(i)})
           /\ \/ pull' = [pull EXCEPT ![r] = "storing"] /\ UNCHANGED cursor
              \/ page # {} /\ cursor' = [cursor EXCEPT ![r] = Pulls!CursorAfter(page)]
                 /\ UNCHANGED pull
    BY <1>5 DEF Pulls!Page
  <2>2. pull[r] = "paging" /\ UNCHANGED <<kind, pulls>>
    BY <1>5 DEF Pulls!Page
  <2> DEFINE new == {i \in page : Pulls!InRange(i)}
  <2>3. Pulls!Takes(r, new) /\ new \subseteq page /\ new \in SUBSET Pulls!Record
    BY <2>1, PageIsOfRecords
  <2> HIDE DEF new
  <2>4. CASE kind # "tape" /\ ~Pulls!Autocommit
    <3>1. table' = table /\ uncommitted' = [uncommitted EXCEPT ![r] = @ \cup new]
      BY <2>3, <2>4 DEF Pulls!Takes
    <3>2. \A i \in Pulls!Record : Storing(i)' \subseteq Storing(i)
      BY <2>1, <2>2, <2>4 DEF Storing, MayStore, PullsTypes
    <3> QED
      BY <2>2, <2>4, <3>1, <3>2, CountKept DEF RowCounts, Unkeyed
  <2>5. CASE kind # "tape" /\ Pulls!Autocommit
    <3>1. ~Unkeyed /\ table' = Pulls!Rows(new) /\ UNCHANGED uncommitted
      BY <2>3, <2>5 DEF Pulls!Takes, Pulls!Autocommit, Unkeyed
    <3> QED
      BY <2>2, <2>5, <3>1, RowsOnce DEF RowCounts, Unkeyed
  <2>6. CASE kind = "tape"
    <3>1. table' = Pulls!Rows(new) /\ UNCHANGED uncommitted
      BY <2>3, <2>6 DEF Pulls!Takes, Pulls!Autocommit
    <3>2. /\ page \subseteq Pulls!Older(r) /\ page \subseteq Nat /\ cursor[r] \in Int
          /\ \A i \in page : Pulls!At(i) < cursor[r] /\ Pulls!At(i) \in Nat
      BY <2>6, PageIsOfRecords DEF Pulls!Older, Pulls!At, Pulls!Record, PullsTypes
    <3>3. \/ pull'[r] = "storing"
          \/ /\ page # {} /\ cursor'[r] \in Int /\ cursor'[r] < cursor[r]
             /\ \A i \in page : cursor'[r] <= Pulls!At(i)
      <4>1. page # {} => \E oldest \in page : /\ Pulls!CursorAfter(page) = Pulls!At(oldest)
                                              /\ \A i \in page : oldest <= i
        BY <2>6, <3>2, OldestOfPage DEF Pulls!CursorAfter
      <4> QED
        BY <2>1, <3>2, <4>1 DEF Pulls!At, PullsTypes
    <3>4. \A q \in Run \ {r} : pull'[q] = pull[q] /\ cursor'[q] = cursor[q]
      BY <2>1 DEF PullsTypes
    <3>5. ASSUME NEW i \in Pulls!Record
          PROVE  Storing(i)' \subseteq Storing(i)
      BY <2>2, <2>6, <3>2, <3>3, <3>4 DEF Storing, MayStore, Pulls!At, Pulls!Record
    <3>6. ASSUME NEW i \in page
          PROVE  r \in Storing(i) /\ r \notin Storing(i)'
      BY <2>2, <2>6, <3>2, <3>3 DEF Storing, MayStore
    <3> QED
      BY <1>4, <2>2, <2>3, <3>1, <3>5, <3>6
  <2> QED
    BY <2>4, <2>5, <2>6
<1>6. ASSUME NEW r \in Run, Pulls!Retry(r)
      PROVE  RowCounts'
  BY <1>1, <1>6 DEF Pulls!Retry
<1>7. ASSUME NEW r \in Run, Pulls!GivesUp(r)
      PROVE  RowCounts'
  <2>1. pull[r] = "paging" /\ pull' = [pull EXCEPT ![r] = "storing_part"]
        /\ UNCHANGED <<kind, table, uncommitted, cursor, pulls>>
    BY <1>7 DEF Pulls!GivesUp
  <2>2. \A q \in Run : q # r => pull'[q] = pull[q]
    BY <2>1 DEF PullsTypes
  <2>3. pull'[r] = "storing_part"
    BY <2>1 DEF PullsTypes
  <2> QED
    BY <1>1, <2>1, <2>2, <2>3
<1>8. ASSUME NEW r \in Run, Pulls!Store(r)
      PROVE  RowCounts'
  <2>1. /\ pull[r] \in {"storing", "storing_part"} /\ table' = Pulls!Rows(uncommitted[r])
        /\ uncommitted' = [uncommitted EXCEPT ![r] = {}]
        /\ pull' = [pull EXCEPT ![r] = IF pull[r] = "storing" THEN "done" ELSE "cut"]
        /\ UNCHANGED <<kind, cursor, pulls>>
    BY <1>8 DEF Pulls!Store
  <2>2. \A i \in Pulls!Record : Storing(i)' \subseteq Storing(i)
    BY <2>1 DEF Storing, MayStore, PullsTypes
  <2>3. Unkeyed => \A i \in uncommitted[r] : r \in Storing(i) /\ r \notin Storing(i)'
    BY <2>1 DEF Storing, MayStore, PullsTypes, RowCounts
  <2>4. \A q \in Run : uncommitted'[q] = uncommitted[q] \/ uncommitted'[q] = {}
    BY <2>1 DEF PullsTypes
  <2>5. uncommitted[r] \in SUBSET Pulls!Record
    BY DEF PullsTypes
  <2> QED
    BY <1>4, <2>1, <2>2, <2>3, <2>4, <2>5
<1>9. ASSUME NEW r \in Run, Pulls!Dies(r)
      PROVE  RowCounts'
  <2>1. PICK S \in SUBSET Pulls!Older(r) :
           table' = IF Pulls!Autocommit /\ pull[r] = "paging"
                    THEN Pulls!Rows({i \in S : Pulls!InRange(i)}) ELSE table
    BY <1>9 DEF Pulls!Dies
  <2>2. /\ pull' = [pull EXCEPT ![r] = "idle"]
        /\ uncommitted' = [uncommitted EXCEPT ![r] = {}]
        /\ UNCHANGED <<kind, cursor, pulls>>
    BY <1>9 DEF Pulls!Dies
  <2>3. \A i \in Pulls!Record : Storing(i)' \subseteq Storing(i)
    BY <2>2 DEF Storing, MayStore, PullsTypes
  <2>4. \A q \in Run : uncommitted'[q] = uncommitted[q] \/ uncommitted'[q] = {}
    BY <2>2 DEF PullsTypes
  <2>5. CASE Pulls!Autocommit /\ pull[r] = "paging"
    <3> DEFINE new == {i \in S : Pulls!InRange(i)}
    <3>1. new \in SUBSET Pulls!Record /\ new \subseteq Pulls!Older(r)
      BY DEF Pulls!Older, PullsTypes
    <3>2. table' = Pulls!Rows(new)
      BY <2>1, <2>5
    <3> HIDE DEF new
    <3>3. Unkeyed => \A i \in new : r \in Storing(i) /\ r \notin Storing(i)'
      BY <2>2, <2>5, <3>1 DEF Storing, MayStore, PullsTypes, Pulls!Older, Pulls!Autocommit, Unkeyed
    <3> QED
      BY <1>4, <2>2, <2>3, <2>4, <3>1, <3>2, <3>3
  <2>6. CASE ~(Pulls!Autocommit /\ pull[r] = "paging")
    <3>1. table' = table
      BY <2>1, <2>6
    <3> QED
      BY <2>2, <2>3, <2>4, <3>1, CountKept DEF RowCounts, Unkeyed
  <2> QED
    BY <2>5, <2>6
<1>10. CASE UNCHANGED pullVars
  BY <1>1, <1>10 DEF pullVars
<1> QED
  BY <1>2, <1>3, <1>5, <1>6, <1>7, <1>8, <1>9, <1>10 DEF Pulls!Next

\* A record has one row in a table with a key, and elsewhere at most one for each
\* run that was started, although pages shift, requests are repeated and runs
\* die between the rows of a page and are started again.
THEOREM StoredAtMostOncePerRun ==
    ASSUME PullsAssumption, IsFiniteSet(Run)
    PROVE  Spec => []StoredOncePerRun
<1> DEFINE Inv == PullsTypes /\ RowCounts
<1>1. Init => Inv
  <2> SUFFICES ASSUME Pulls!Init PROVE Inv
    BY DEF Init
  <2>1. PullsTypes
    BY DEF Pulls!Init, PullsTypes
  <2>2. \A i \in Pulls!Record : Storing(i) = {}
    BY DEF Pulls!Init, Storing, MayStore
  <2> QED
    BY <2>1, <2>2, FS_EmptySet DEF Pulls!Init, RowCounts
<1>2. Inv /\ [Next]_allVars => Inv'
  <2>1. [Next]_allVars => Pulls!Next \/ UNCHANGED pullVars
    BY DEF Next, allVars
  <2> QED
    BY <2>1, PullsTypesStep, CountStep
<1>3. Inv => StoredOncePerRun
  <2> SUFFICES ASSUME Inv, NEW i \in Pulls!Record
               PROVE  table[i] <= IF kind \in {"tape", "archived_tape", "candles"} THEN pulls ELSE 1
    BY DEF StoredOncePerRun, Pulls!StoredOncePerRun
  <2>1. CASE Unkeyed
    <3>1. Cardinality(Storing(i)) \in Nat
      BY FS_Subset, FS_CardinalityType DEF Storing
    <3> QED
      BY <2>1, <3>1 DEF RowCounts, PullsTypes, Unkeyed
  <2>2. CASE ~Unkeyed
    BY <2>2 DEF RowCounts, Unkeyed
  <2> QED
    BY <2>1, <2>2
<1> QED
  BY <1>1, <1>2, <1>3, PTL DEF Spec

-----------------------------------------------------------------------------
(* The migrations: what the list of statements is                          *)

\* The statements there are.
Stmts ==
    {Migrate!Create("markets", {"settlement_ts"}), Migrate!Index("markets", ""),
     Migrate!Plain("trades, snapshots, ticks"), Migrate!Create("shadow_decisions", {}),
     Migrate!Index("shadow_decisions", ""), Migrate!Create("profiles", {"metrics"}),
     Migrate!Index("profiles", ""), Migrate!Create("entries", {"time_period", "metric_value"}),
     Migrate!Index("entries", ""), Migrate!Index("entries", "time_period"),
     Migrate!Plain("ideas_trades"), Migrate!Plain("series, terms, candidates"),
     Migrate!Plain("fills, orders, settlements"), Migrate!Plain("ops_events, rollup"),
     Migrate!Alter("markets", "settlement_ts"), Migrate!Alter("profiles", "metrics"),
     Migrate!Alter("entries", "time_period"), Migrate!Alter("entries", "metric_value"),
     Migrate!Create("coinbase_trades", {}), Migrate!Index("coinbase_trades", ""),
     Migrate!Alter("shadow_decisions", "strategy_label"),
     Migrate!Index("shadow_decisions", "strategy_label")}

\* Short tuples of members of a set are sequences of it.
LEMMA TuplesAre ==
    /\ \A a, b, S : a \in S /\ b \in S => <<a, b>> \in Seq(S) /\ Len(<<a, b>>) = 2
    /\ \A a, b, c, S :
          a \in S /\ b \in S /\ c \in S => <<a, b, c>> \in Seq(S) /\ Len(<<a, b, c>>) = 3
    /\ \A a, b, c, d, e, f, S :
          a \in S /\ b \in S /\ c \in S /\ d \in S /\ e \in S /\ f \in S
            => <<a, b, c, d, e, f>> \in Seq(S) /\ Len(<<a, b, c, d, e, f>>) = 6
    /\ \A a, b, c, d, e, f, g, h, S :
          a \in S /\ b \in S /\ c \in S /\ d \in S /\ e \in S /\ f \in S /\ g \in S /\ h \in S
            => <<a, b, c, d, e, f, g, h>> \in Seq(S) /\ Len(<<a, b, c, d, e, f, g, h>>) = 8
OBVIOUS

\* The parts of the list, and their lengths.
LEMMA Parts ==
    /\ Migrate!ResearchTables \in Seq(Stmts) /\ Len(Migrate!ResearchTables) = 3
    /\ Migrate!Decisions \in Seq(Stmts) /\ Len(Migrate!Decisions) = 2
    /\ Migrate!IdeasTables \in Seq(Stmts) /\ Len(Migrate!IdeasTables) = 6
    /\ Migrate!LaterTables \in Seq(Stmts) /\ Len(Migrate!LaterTables) = 3
    /\ Migrate!SAFE_ALTER_STATEMENTS \in Seq(Stmts) /\ Len(Migrate!SAFE_ALTER_STATEMENTS) = 8
<1>1. Migrate!ResearchTables \in Seq(Stmts) /\ Len(Migrate!ResearchTables) = 3
  <2>1. /\ Migrate!Create("markets", {"settlement_ts"}) \in Stmts
        /\ Migrate!Index("markets", "") \in Stmts
        /\ Migrate!Plain("trades, snapshots, ticks") \in Stmts
    BY DEF Stmts
  <2> QED
    BY <2>1, TuplesAre, Zenon DEF Migrate!ResearchTables
<1>2. Migrate!Decisions \in Seq(Stmts) /\ Len(Migrate!Decisions) = 2
  <2>1. /\ Migrate!Create("shadow_decisions", {}) \in Stmts
        /\ Migrate!Index("shadow_decisions", "") \in Stmts
    BY DEF Stmts
  <2> QED
    BY <2>1, TuplesAre, Zenon DEF Migrate!Decisions
<1>3. Migrate!IdeasTables \in Seq(Stmts) /\ Len(Migrate!IdeasTables) = 6
  <2>1. /\ Migrate!Create("profiles", {"metrics"}) \in Stmts
        /\ Migrate!Index("profiles", "") \in Stmts
        /\ Migrate!Create("entries", {"time_period", "metric_value"}) \in Stmts
        /\ Migrate!Index("entries", "") \in Stmts
        /\ Migrate!Index("entries", "time_period") \in Stmts
        /\ Migrate!Plain("ideas_trades") \in Stmts
    BY DEF Stmts
  <2> QED
    BY <2>1, TuplesAre, Zenon DEF Migrate!IdeasTables
<1>4. Migrate!LaterTables \in Seq(Stmts) /\ Len(Migrate!LaterTables) = 3
  <2>1. /\ Migrate!Plain("series, terms, candidates") \in Stmts
        /\ Migrate!Plain("fills, orders, settlements") \in Stmts
        /\ Migrate!Plain("ops_events, rollup") \in Stmts
    BY DEF Stmts
  <2> QED
    BY <2>1, TuplesAre, Zenon DEF Migrate!LaterTables
<1>5. Migrate!SAFE_ALTER_STATEMENTS \in Seq(Stmts) /\ Len(Migrate!SAFE_ALTER_STATEMENTS) = 8
  <2>1. /\ Migrate!Alter("markets", "settlement_ts") \in Stmts
        /\ Migrate!Alter("profiles", "metrics") \in Stmts
        /\ Migrate!Alter("entries", "time_period") \in Stmts
        /\ Migrate!Alter("entries", "metric_value") \in Stmts
        /\ Migrate!Create("coinbase_trades", {}) \in Stmts
        /\ Migrate!Index("coinbase_trades", "") \in Stmts
        /\ Migrate!Alter("shadow_decisions", "strategy_label") \in Stmts
        /\ Migrate!Index("shadow_decisions", "strategy_label") \in Stmts
    BY DEF Stmts
  <2> QED
    BY <2>1, TuplesAre, Zenon DEF Migrate!SAFE_ALTER_STATEMENTS
<1> QED
  BY <1>1, <1>2, <1>3, <1>4, <1>5

\* The statements that create the tables, part by part.
LEMMA Schema ==
    LET S == Migrate!SCHEMA_STATEMENTS IN
    /\ S \in Seq(Stmts) /\ Len(S) = 14
    /\ \A i \in 1..14 : S[i] =
          IF i <= 3 THEN Migrate!ResearchTables[i]
          ELSE IF i <= 5 THEN Migrate!Decisions[i - 3]
          ELSE IF i <= 11 THEN Migrate!IdeasTables[i - 5]
          ELSE Migrate!LaterTables[i - 11]
<1> DEFINE A == Migrate!ResearchTables \o Migrate!Decisions
           B == A \o Migrate!IdeasTables
           C == B \o Migrate!LaterTables
<1>1. /\ A \in Seq(Stmts) /\ Len(A) = 5
      /\ \A i \in 1..5 : A[i] = IF i <= 3 THEN Migrate!ResearchTables[i]
                                ELSE Migrate!Decisions[i - 3]
  <2>1. /\ Migrate!ResearchTables \in Seq(Stmts) /\ Len(Migrate!ResearchTables) = 3
        /\ Migrate!Decisions \in Seq(Stmts) /\ Len(Migrate!Decisions) = 2
    BY Parts
  <2>2. /\ A \in Seq(Stmts) /\ Len(A) = Len(Migrate!ResearchTables) + Len(Migrate!Decisions)
        /\ \A i \in 1..(Len(Migrate!ResearchTables) + Len(Migrate!Decisions)) :
               A[i] = IF i <= Len(Migrate!ResearchTables) THEN Migrate!ResearchTables[i]
                      ELSE Migrate!Decisions[i - Len(Migrate!ResearchTables)]
    BY <2>1, ConcatProperties, Zenon DEF A
  <2> HIDE DEF A
  <2> QED
    BY <2>1, <2>2
<1> HIDE DEF A
<1>2. /\ B \in Seq(Stmts) /\ Len(B) = 11
      /\ \A i \in 1..11 : B[i] = IF i <= 5 THEN A[i] ELSE Migrate!IdeasTables[i - 5]
  <2>1. /\ A \in Seq(Stmts) /\ Len(A) = 5
        /\ Migrate!IdeasTables \in Seq(Stmts) /\ Len(Migrate!IdeasTables) = 6
    BY <1>1, Parts
  <2>2. /\ B \in Seq(Stmts) /\ Len(B) = Len(A) + Len(Migrate!IdeasTables)
        /\ \A i \in 1..(Len(A) + Len(Migrate!IdeasTables)) :
               B[i] = IF i <= Len(A) THEN A[i] ELSE Migrate!IdeasTables[i - Len(A)]
    BY <2>1, ConcatProperties, Zenon DEF B
  <2> HIDE DEF B
  <2> QED
    BY <2>1, <2>2
<1> HIDE DEF B
<1>3. /\ C \in Seq(Stmts) /\ Len(C) = 14
      /\ \A i \in 1..14 : C[i] = IF i <= 11 THEN B[i] ELSE Migrate!LaterTables[i - 11]
  <2>1. /\ B \in Seq(Stmts) /\ Len(B) = 11
        /\ Migrate!LaterTables \in Seq(Stmts) /\ Len(Migrate!LaterTables) = 3
    BY <1>2, Parts
  <2>2. /\ C \in Seq(Stmts) /\ Len(C) = Len(B) + Len(Migrate!LaterTables)
        /\ \A i \in 1..(Len(B) + Len(Migrate!LaterTables)) :
               C[i] = IF i <= Len(B) THEN B[i] ELSE Migrate!LaterTables[i - Len(B)]
    BY <2>1, ConcatProperties, Zenon DEF C
  <2> HIDE DEF C
  <2> QED
    BY <2>1, <2>2
<1>4. Migrate!SCHEMA_STATEMENTS = C
  BY DEF A, B, C, Migrate!SCHEMA_STATEMENTS
<1> HIDE DEF C
<1> QED
  BY <1>1, <1>2, <1>3, <1>4

\* The twenty-two statements.
LEMMA Statements ==
    LET S == Migrate!Statement IN
    /\ Len(S) = 22
    /\ S[1] = Migrate!Create("markets", {"settlement_ts"})
    /\ S[2] = Migrate!Index("markets", "")
    /\ S[3] = Migrate!Create("trades, snapshots, ticks", {})
    /\ S[4] = Migrate!Create("shadow_decisions", {})
    /\ S[5] = Migrate!Index("shadow_decisions", "")
    /\ S[6] = Migrate!Create("profiles", {"metrics"})
    /\ S[7] = Migrate!Index("profiles", "")
    /\ S[8] = Migrate!Create("entries", {"time_period", "metric_value"})
    /\ S[9] = Migrate!Index("entries", "")
    /\ S[10] = Migrate!Index("entries", "time_period")
    /\ S[11] = Migrate!Create("ideas_trades", {})
    /\ S[12] = Migrate!Create("series, terms, candidates", {})
    /\ S[13] = Migrate!Create("fills, orders, settlements", {})
    /\ S[14] = Migrate!Create("ops_events, rollup", {})
    /\ S[15] = Migrate!Alter("markets", "settlement_ts")
    /\ S[16] = Migrate!Alter("profiles", "metrics")
    /\ S[17] = Migrate!Alter("entries", "time_period")
    /\ S[18] = Migrate!Alter("entries", "metric_value")
    /\ S[19] = Migrate!Create("coinbase_trades", {})
    /\ S[20] = Migrate!Index("coinbase_trades", "")
    /\ S[21] = Migrate!Alter("shadow_decisions", "strategy_label")
    /\ S[22] = Migrate!Index("shadow_decisions", "strategy_label")
<1> DEFINE made == Migrate!SCHEMA_STATEMENTS
           altered == Migrate!SAFE_ALTER_STATEMENTS
<1>1. /\ Migrate!Statement \in Seq(Stmts) /\ Len(Migrate!Statement) = 22
      /\ \A i \in 1..22 : Migrate!Statement[i] = IF i <= 14 THEN made[i] ELSE altered[i - 14]
  <2>1. /\ made \in Seq(Stmts) /\ Len(made) = 14
        /\ altered \in Seq(Stmts) /\ Len(altered) = 8
    BY Parts, Schema
  <2>2. /\ Migrate!Statement \in Seq(Stmts)
        /\ Len(Migrate!Statement) = Len(made) + Len(altered)
        /\ \A i \in 1..(Len(made) + Len(altered)) :
               Migrate!Statement[i] = IF i <= Len(made) THEN made[i] ELSE altered[i - Len(made)]
    BY <2>1, ConcatProperties, Zenon DEF Migrate!Statement
  <2> QED
    BY <2>1, <2>2
<1>2. LET S == Migrate!Statement IN
      /\ S[1] = Migrate!ResearchTables[1] /\ S[2] = Migrate!ResearchTables[2]
      /\ S[3] = Migrate!ResearchTables[3]
      /\ S[4] = Migrate!Decisions[1] /\ S[5] = Migrate!Decisions[2]
      /\ S[6] = Migrate!IdeasTables[1] /\ S[7] = Migrate!IdeasTables[2]
      /\ S[8] = Migrate!IdeasTables[3] /\ S[9] = Migrate!IdeasTables[4]
      /\ S[10] = Migrate!IdeasTables[5] /\ S[11] = Migrate!IdeasTables[6]
      /\ S[12] = Migrate!LaterTables[1] /\ S[13] = Migrate!LaterTables[2]
      /\ S[14] = Migrate!LaterTables[3]
  BY <1>1, Schema
<1>3. LET S == Migrate!Statement IN
      \A i \in 1..8 : S[i + 14] = Migrate!SAFE_ALTER_STATEMENTS[i]
  BY <1>1
<1>4. LET S == Migrate!Statement IN
      /\ S[15] = Migrate!SAFE_ALTER_STATEMENTS[1] /\ S[16] = Migrate!SAFE_ALTER_STATEMENTS[2]
      /\ S[17] = Migrate!SAFE_ALTER_STATEMENTS[3] /\ S[18] = Migrate!SAFE_ALTER_STATEMENTS[4]
      /\ S[19] = Migrate!SAFE_ALTER_STATEMENTS[5] /\ S[20] = Migrate!SAFE_ALTER_STATEMENTS[6]
      /\ S[21] = Migrate!SAFE_ALTER_STATEMENTS[7] /\ S[22] = Migrate!SAFE_ALTER_STATEMENTS[8]
  BY <1>1
<1> USE DEF Migrate!Plain
<1>5. /\ Migrate!ResearchTables[1] = Migrate!Create("markets", {"settlement_ts"})
      /\ Migrate!ResearchTables[2] = Migrate!Index("markets", "")
      /\ Migrate!ResearchTables[3] = Migrate!Create("trades, snapshots, ticks", {})
      /\ Migrate!Decisions[1] = Migrate!Create("shadow_decisions", {})
      /\ Migrate!Decisions[2] = Migrate!Index("shadow_decisions", "")
  BY DEF Migrate!ResearchTables, Migrate!Decisions
<1>6. /\ Migrate!IdeasTables[1] = Migrate!Create("profiles", {"metrics"})
      /\ Migrate!IdeasTables[2] = Migrate!Index("profiles", "")
      /\ Migrate!IdeasTables[3] = Migrate!Create("entries", {"time_period", "metric_value"})
      /\ Migrate!IdeasTables[4] = Migrate!Index("entries", "")
      /\ Migrate!IdeasTables[5] = Migrate!Index("entries", "time_period")
      /\ Migrate!IdeasTables[6] = Migrate!Create("ideas_trades", {})
  BY DEF Migrate!IdeasTables
<1>7. /\ Migrate!LaterTables[1] = Migrate!Create("series, terms, candidates", {})
      /\ Migrate!LaterTables[2] = Migrate!Create("fills, orders, settlements", {})
      /\ Migrate!LaterTables[3] = Migrate!Create("ops_events, rollup", {})
  BY DEF Migrate!LaterTables
<1>8. LET A == Migrate!SAFE_ALTER_STATEMENTS IN
      /\ A[1] = Migrate!Alter("markets", "settlement_ts")
      /\ A[2] = Migrate!Alter("profiles", "metrics")
      /\ A[3] = Migrate!Alter("entries", "time_period")
      /\ A[4] = Migrate!Alter("entries", "metric_value")
      /\ A[5] = Migrate!Create("coinbase_trades", {})
      /\ A[6] = Migrate!Index("coinbase_trades", "")
      /\ A[7] = Migrate!Alter("shadow_decisions", "strategy_label")
      /\ A[8] = Migrate!Index("shadow_decisions", "strategy_label")
  BY DEF Migrate!SAFE_ALTER_STATEMENTS
<1> QED
  BY <1>1, <1>2, <1>4, <1>5, <1>6, <1>7, <1>8

\* What a statement that has been passed leaves behind, even where the table was
\* there already or the column was.
Post(s) == IF s.does = "table" THEN {Migrate!Thing("table", s.on, "")} ELSE Migrate!Made(s)

\* What a statement does, to which table and columns.
Is(s, does, t, C) == s.does = does /\ s.on = t /\ s.columns = C

\* The twenty-two statements, by what they do.
LEMMA Listed ==
    LET S == Migrate!Statement IN
    /\ Is(S[1], "table", "markets", {"settlement_ts"})
    /\ Is(S[2], "index", "markets", {""})
    /\ Is(S[3], "table", "trades, snapshots, ticks", {})
    /\ Is(S[4], "table", "shadow_decisions", {})
    /\ Is(S[5], "index", "shadow_decisions", {""})
    /\ Is(S[6], "table", "profiles", {"metrics"})
    /\ Is(S[7], "index", "profiles", {""})
    /\ Is(S[8], "table", "entries", {"time_period", "metric_value"})
    /\ Is(S[9], "index", "entries", {""})
    /\ Is(S[10], "index", "entries", {"time_period"})
    /\ Is(S[11], "table", "ideas_trades", {})
    /\ Is(S[12], "table", "series, terms, candidates", {})
    /\ Is(S[13], "table", "fills, orders, settlements", {})
    /\ Is(S[14], "table", "ops_events, rollup", {})
    /\ Is(S[15], "alter", "markets", {"settlement_ts"})
    /\ Is(S[16], "alter", "profiles", {"metrics"})
    /\ Is(S[17], "alter", "entries", {"time_period"})
    /\ Is(S[18], "alter", "entries", {"metric_value"})
    /\ Is(S[19], "table", "coinbase_trades", {})
    /\ Is(S[20], "index", "coinbase_trades", {""})
    /\ Is(S[21], "alter", "shadow_decisions", {"strategy_label"})
    /\ Is(S[22], "index", "shadow_decisions", {"strategy_label"})
<1>1. \A t, C : Is(Migrate!Create(t, C), "table", t, C)
  BY DEF Migrate!Create, Is
<1>2. \A t, c : Is(Migrate!Index(t, c), "index", t, {c})
  BY DEF Migrate!Index, Is
<1>3. \A t, c : Is(Migrate!Alter(t, c), "alter", t, {c})
  BY DEF Migrate!Alter, Is
<1> QED
  BY <1>1, <1>2, <1>3, Statements

\* A statement is one of them.
LEMMA OneOf ==
    \A k \in 1..22 : k \in {1, 2, 3, 4, 5, 6, 7, 8, 9, 10, 11, 12, 13, 14, 15, 16, 17, 18, 19,
          20, 21, 22}
OBVIOUS

\* What a statement makes, and what it leaves behind.
LEMMA MadeAndPost ==
    ASSUME NEW s, NEW t, NEW C
    PROVE  /\ Is(s, "table", t, C) =>
                 /\ Post(s) = {<<"table", t, "">>}
                 /\ Migrate!Made(s) = {<<"table", t, "">>} \cup {<<"column", t, c>> : c \in C}
           /\ Is(s, "index", t, C) =>
                 /\ Post(s) = {<<"index", t, c>> : c \in C} /\ Migrate!Made(s) = Post(s)
           /\ Is(s, "alter", t, C) =>
                 /\ Post(s) = {<<"column", t, c>> : c \in C} /\ Migrate!Made(s) = Post(s)
BY DEF Is, Post, Migrate!Made, Migrate!Thing

\* The whole schema is what the statements leave behind.
LEMMA WholeIsPost ==
    /\ \A k \in 1..22 : Migrate!Made(Migrate!Statement[k]) \subseteq Migrate!FullSchema
    /\ \A x \in Migrate!FullSchema : \E k \in 1..22 : x \in Post(Migrate!Statement[k])
<1> DEFINE S == Migrate!Statement
<1>1. Migrate!FullSchema = UNION {Migrate!Made(S[i]) : i \in 1..22}
  BY Statements DEF Migrate!FullSchema, Migrate!MadeBy
<1>2. ASSUME NEW k \in 1..22, S[k].does # "table" \/ S[k].columns = {}
      PROVE  Migrate!Made(S[k]) = Post(S[k])
  <2>1. CASE S[k].does # "table"
    BY <2>1 DEF Post
  <2>2. CASE S[k].does = "table" /\ S[k].columns = {}
    BY <2>2 DEF Post, Migrate!Made
  <2> QED
    BY <1>2, <2>1, <2>2
<1>3. ASSUME NEW k \in 1..22, S[k].does = "table", S[k].columns # {},
             NEW x \in Migrate!Made(S[k])
      PROVE  \E i \in 1..22 : x \in Post(S[i])
  <2>1. k \in {1, 6, 8}
    BY <1>3, Listed, OneOf DEF Is
  <2>2. CASE k = 1
    <3>1. Is(S[1], "table", "markets", {"settlement_ts"})
      BY Listed
    <3>2. Is(S[15], "alter", "markets", {"settlement_ts"})
      BY Listed
    <3>3. /\ Post(S[1]) = {<<"table", "markets", "">>}
          /\ Migrate!Made(S[1]) = {<<"table", "markets", "">>}
                                     \cup {<<"column", "markets", c>> : c \in {"settlement_ts"}}
      BY <3>1, MadeAndPost, Zenon
    <3>4. Post(S[15]) = {<<"column", "markets", c>> : c \in {"settlement_ts"}}
      BY <3>2, MadeAndPost, Zenon
    <3>5. x \in Post(S[1]) \/ x \in Post(S[15])
      BY <1>3, <2>2, <3>3, <3>4
    <3> QED
      BY <3>5
  <2>3. CASE k = 6
    <3>1. Is(S[6], "table", "profiles", {"metrics"})
      BY Listed
    <3>2. Is(S[16], "alter", "profiles", {"metrics"})
      BY Listed
    <3>3. /\ Post(S[6]) = {<<"table", "profiles", "">>}
          /\ Migrate!Made(S[6]) = {<<"table", "profiles", "">>}
                                     \cup {<<"column", "profiles", c>> : c \in {"metrics"}}
      BY <3>1, MadeAndPost, Zenon
    <3>4. Post(S[16]) = {<<"column", "profiles", c>> : c \in {"metrics"}}
      BY <3>2, MadeAndPost, Zenon
    <3>5. x \in Post(S[6]) \/ x \in Post(S[16])
      BY <1>3, <2>3, <3>3, <3>4
    <3> QED
      BY <3>5
  <2>4. CASE k = 8
    <3>1. Is(S[8], "table", "entries", {"time_period", "metric_value"})
      BY Listed
    <3>2. Is(S[17], "alter", "entries", {"time_period"})
      BY Listed
    <3>3. Is(S[18], "alter", "entries", {"metric_value"})
      BY Listed
    <3>4. /\ Post(S[8]) = {<<"table", "entries", "">>}
          /\ Migrate!Made(S[8]) = {<<"table", "entries", "">>}
                                     \cup {<<"column", "entries", c>> : c \in {"time_period",
                                           "metric_value"}}
      BY <3>1, MadeAndPost, Zenon
    <3>5. Post(S[17]) = {<<"column", "entries", c>> : c \in {"time_period"}}
      BY <3>2, MadeAndPost, Zenon
    <3>6. Post(S[18]) = {<<"column", "entries", c>> : c \in {"metric_value"}}
      BY <3>3, MadeAndPost, Zenon
    <3>7. x \in Post(S[8]) \/ x \in Post(S[17]) \/ x \in Post(S[18])
      BY <1>3, <2>4, <3>4, <3>5, <3>6
    <3> QED
      BY <3>7
  <2> QED
    BY <2>1, <2>2, <2>3, <2>4
<1> QED
  BY <1>1, <1>2, <1>3

\* What some statement before the k-th leaves behind.
Before(k, x) == \E i \in 1..(k - 1) : x \in Post(Migrate!Statement[i])

\* The tables and the column that later statements are about.
LEMMA TablesThere ==
    /\ <<"table", "markets", "">> \in Post(Migrate!Statement[1])
    /\ <<"table", "shadow_decisions", "">> \in Post(Migrate!Statement[4])
    /\ <<"table", "profiles", "">> \in Post(Migrate!Statement[6])
    /\ <<"table", "entries", "">> \in Post(Migrate!Statement[8])
    /\ <<"table", "coinbase_trades", "">> \in Post(Migrate!Statement[19])
    /\ <<"column", "shadow_decisions", "strategy_label">> \in Post(Migrate!Statement[21])
<1>1. ASSUME NEW s, NEW t, NEW C, Is(s, "table", t, C)
      PROVE  <<"table", t, "">> \in Post(s)
  <2>1. Post(s) = {<<"table", t, "">>}
    BY <1>1, MadeAndPost, Zenon
  <2> QED
    BY <2>1
<1>2. Post(Migrate!Statement[21])
        = {<<"column", "shadow_decisions", c>> : c \in {"strategy_label"}}
  <2>1. Is(Migrate!Statement[21], "alter", "shadow_decisions", {"strategy_label"})
    BY Listed
  <2> QED
    BY <2>1, MadeAndPost, Zenon
<1> QED
  BY <1>1, <1>2, Listed

\* Which statement is of which kind.
LEMMA Does ==
    LET S == Migrate!Statement IN
    /\ \A k \in {1, 3, 4, 6, 8, 11, 12, 13, 14, 19} : S[k].does = "table"
    /\ \A k \in {2, 5, 7, 9, 10, 20, 22} : S[k].does = "index"
    /\ \A k \in {15, 16, 17, 18, 21} : S[k].does = "alter"
<1> DEFINE S == Migrate!Statement
<1>1. /\ S[1].does = "table" /\ S[3].does = "table" /\ S[4].does = "table"
      /\ S[6].does = "table" /\ S[8].does = "table" /\ S[11].does = "table"
      /\ S[12].does = "table" /\ S[13].does = "table" /\ S[14].does = "table"
      /\ S[19].does = "table"
  BY Listed, Zenon DEF Is
<1>2. /\ S[2].does = "index" /\ S[5].does = "index" /\ S[7].does = "index"
      /\ S[9].does = "index" /\ S[10].does = "index" /\ S[20].does = "index"
      /\ S[22].does = "index"
  BY Listed, Zenon DEF Is
<1>3. /\ S[15].does = "alter" /\ S[16].does = "alter" /\ S[17].does = "alter"
      /\ S[18].does = "alter" /\ S[21].does = "alter"
  BY Listed, Zenon DEF Is
<1> QED
  BY <1>1, <1>2, <1>3

\* Every column an ALTER adds and every index is of a table that an earlier
\* statement creates; and if it is an index on a later column then an earlier
\* statement adds it, but for one.
LEMMA Needs ==
    ASSUME NEW k \in 1..22
    PROVE  LET s == Migrate!Statement[k] IN
           /\ s.does \in {"table", "index", "alter"}
           /\ s.does = "alter" => /\ k \in 15..21 /\ Before(k, <<"table", s.on, "">>)
                                 /\ \E c : c # "" /\ s.columns = {c}
           /\ s.does = "index" => \A c \in s.columns :
                  \/ c = "" /\ Before(k, <<"table", s.on, "">>)
                  \/ c # "" /\ Before(k, <<"column", s.on, c>>)
                  \/ /\ s.on = "entries" /\ c = "time_period"
                     /\ Before(k, <<"table", "entries", "">>)
<1> DEFINE s == Migrate!Statement[k]
<1>1. \A x : \A i \in 1..(k - 1) : x \in Post(Migrate!Statement[i]) => Before(k, x)
  BY DEF Before
<1>2. s.does \in {"table", "index", "alter"}
  BY Does, OneOf
<1>3. ASSUME s.does = "alter"
      PROVE  /\ k \in 15..21 /\ Before(k, <<"table", s.on, "">>)
             /\ \E c : c # "" /\ s.columns = {c}
  <2>1. k \in {15, 16, 17, 18, 21}
    BY <1>3, Does, OneOf
  <2>2. CASE k = 15
    <3>1. s.on = "markets" /\ s.columns = {"settlement_ts"}
      BY <2>2, Listed, Zenon DEF Is
    <3>2. 1 \in 1..(k - 1)
      BY <2>2
    <3>3. Before(k, <<"table", "markets", "">>)
      BY <1>1, <3>2, TablesThere, Zenon
    <3>4. "settlement_ts" # ""
      OBVIOUS
    <3>5. k \in 15..21
      BY <2>1
    <3> QED
      BY <3>1, <3>3, <3>4, <3>5, Zenon
  <2>3. CASE k = 16
    <3>1. s.on = "profiles" /\ s.columns = {"metrics"}
      BY <2>3, Listed, Zenon DEF Is
    <3>2. 6 \in 1..(k - 1)
      BY <2>3
    <3>3. Before(k, <<"table", "profiles", "">>)
      BY <1>1, <3>2, TablesThere, Zenon
    <3>4. "metrics" # ""
      OBVIOUS
    <3>5. k \in 15..21
      BY <2>1
    <3> QED
      BY <3>1, <3>3, <3>4, <3>5, Zenon
  <2>4. CASE k = 17
    <3>1. s.on = "entries" /\ s.columns = {"time_period"}
      BY <2>4, Listed, Zenon DEF Is
    <3>2. 8 \in 1..(k - 1)
      BY <2>4
    <3>3. Before(k, <<"table", "entries", "">>)
      BY <1>1, <3>2, TablesThere, Zenon
    <3>4. "time_period" # ""
      OBVIOUS
    <3>5. k \in 15..21
      BY <2>1
    <3> QED
      BY <3>1, <3>3, <3>4, <3>5, Zenon
  <2>5. CASE k = 18
    <3>1. s.on = "entries" /\ s.columns = {"metric_value"}
      BY <2>5, Listed, Zenon DEF Is
    <3>2. 8 \in 1..(k - 1)
      BY <2>5
    <3>3. Before(k, <<"table", "entries", "">>)
      BY <1>1, <3>2, TablesThere, Zenon
    <3>4. "metric_value" # ""
      OBVIOUS
    <3>5. k \in 15..21
      BY <2>1
    <3> QED
      BY <3>1, <3>3, <3>4, <3>5, Zenon
  <2>6. CASE k = 21
    <3>1. s.on = "shadow_decisions" /\ s.columns = {"strategy_label"}
      BY <2>6, Listed, Zenon DEF Is
    <3>2. 4 \in 1..(k - 1)
      BY <2>6
    <3>3. Before(k, <<"table", "shadow_decisions", "">>)
      BY <1>1, <3>2, TablesThere, Zenon
    <3>4. "strategy_label" # ""
      OBVIOUS
    <3>5. k \in 15..21
      BY <2>1
    <3> QED
      BY <3>1, <3>3, <3>4, <3>5, Zenon
  <2> QED
    BY <2>1, <2>2, <2>3, <2>4, <2>5, <2>6
<1>4. ASSUME s.does = "index", NEW c \in s.columns
      PROVE  \/ c = "" /\ Before(k, <<"table", s.on, "">>)
             \/ c # "" /\ Before(k, <<"column", s.on, c>>)
             \/ s.on = "entries" /\ c = "time_period" /\ Before(k, <<"table", "entries", "">>)
  <2>1. k \in {2, 5, 7, 9, 10, 20, 22}
    BY <1>4, Does, OneOf
  <2>2. CASE k = 2
    <3>1. s.on = "markets" /\ s.columns = {""}
      BY <2>2, Listed, Zenon DEF Is
    <3>2. 1 \in 1..(k - 1)
      BY <2>2
    <3>3. Before(k, <<"table", "markets", "">>)
      BY <1>1, <3>2, TablesThere, Zenon
    <3> QED
      BY <1>4, <3>1, <3>3
  <2>3. CASE k = 5
    <3>1. s.on = "shadow_decisions" /\ s.columns = {""}
      BY <2>3, Listed, Zenon DEF Is
    <3>2. 4 \in 1..(k - 1)
      BY <2>3
    <3>3. Before(k, <<"table", "shadow_decisions", "">>)
      BY <1>1, <3>2, TablesThere, Zenon
    <3> QED
      BY <1>4, <3>1, <3>3
  <2>4. CASE k = 7
    <3>1. s.on = "profiles" /\ s.columns = {""}
      BY <2>4, Listed, Zenon DEF Is
    <3>2. 6 \in 1..(k - 1)
      BY <2>4
    <3>3. Before(k, <<"table", "profiles", "">>)
      BY <1>1, <3>2, TablesThere, Zenon
    <3> QED
      BY <1>4, <3>1, <3>3
  <2>5. CASE k = 9
    <3>1. s.on = "entries" /\ s.columns = {""}
      BY <2>5, Listed, Zenon DEF Is
    <3>2. 8 \in 1..(k - 1)
      BY <2>5
    <3>3. Before(k, <<"table", "entries", "">>)
      BY <1>1, <3>2, TablesThere, Zenon
    <3> QED
      BY <1>4, <3>1, <3>3
  <2>6. CASE k = 10
    <3>1. s.on = "entries" /\ s.columns = {"time_period"}
      BY <2>6, Listed, Zenon DEF Is
    <3>2. 8 \in 1..(k - 1)
      BY <2>6
    <3>3. Before(k, <<"table", "entries", "">>)
      BY <1>1, <3>2, TablesThere, Zenon
    <3> QED
      BY <1>4, <3>1, <3>3
  <2>7. CASE k = 20
    <3>1. s.on = "coinbase_trades" /\ s.columns = {""}
      BY <2>7, Listed, Zenon DEF Is
    <3>2. 19 \in 1..(k - 1)
      BY <2>7
    <3>3. Before(k, <<"table", "coinbase_trades", "">>)
      BY <1>1, <3>2, TablesThere, Zenon
    <3> QED
      BY <1>4, <3>1, <3>3
  <2>8. CASE k = 22
    <3>1. s.on = "shadow_decisions" /\ s.columns = {"strategy_label"}
      BY <2>8, Listed, Zenon DEF Is
    <3>2. 21 \in 1..(k - 1)
      BY <2>8
    <3>3. Before(k, <<"column", "shadow_decisions", "strategy_label">>)
      BY <1>1, <3>2, TablesThere, Zenon
    <3> QED
      BY <1>4, <3>1, <3>3
  <2> QED
    BY <2>1, <2>2, <2>3, <2>4, <2>5, <2>6, <2>7, <2>8
<1> QED
  BY <1>2, <1>3, <1>4

\* The table of leaderboard entries is created with its later column.
LEMMA EntriesMade ==
    ASSUME NEW k \in 1..22, <<"table", "entries", "">> \in Migrate!Made(Migrate!Statement[k])
    PROVE  <<"column", "entries", "time_period">> \in Migrate!Made(Migrate!Statement[k])
<1> DEFINE s == Migrate!Statement[k]
<1>1. s.does = "table" /\ s.on = "entries"
  BY Needs DEF Migrate!Made, Migrate!Thing
<1>2. k = 8
  <2>1. k \in {1, 3, 4, 6, 8, 11, 12, 13, 14, 19}
    BY <1>1, Does, OneOf
  <2>2. /\ Migrate!Statement[1].on = "markets"
        /\ Migrate!Statement[3].on = "trades, snapshots, ticks"
        /\ Migrate!Statement[4].on = "shadow_decisions"
        /\ Migrate!Statement[6].on = "profiles"
        /\ Migrate!Statement[8].on = "entries"
        /\ Migrate!Statement[11].on = "ideas_trades"
        /\ Migrate!Statement[12].on = "series, terms, candidates"
        /\ Migrate!Statement[13].on = "fills, orders, settlements"
        /\ Migrate!Statement[14].on = "ops_events, rollup"
        /\ Migrate!Statement[19].on = "coinbase_trades"
    BY Listed, Zenon DEF Is
  <2> QED
    BY <1>1, <2>1, <2>2
<1>3. Is(s, "table", "entries", {"time_period", "metric_value"})
  BY <1>2, Listed
<1>4. Migrate!Made(s) = {<<"table", "entries", "">>}
                         \cup {<<"column", "entries", c>> : c \in {"time_period", "metric_value"}}
  BY <1>3, MadeAndPost, Zenon
<1> QED
  BY <1>4

\* How many they are.
LEMMA Lengths ==
    /\ Len(Migrate!Statement) = 22 /\ Len(Migrate!Statement) + 1 = 23
    /\ Len(Migrate!SCHEMA_STATEMENTS) = 14
<1>1. Len(Migrate!Statement) = 22
  BY Statements, Zenon
<1>2. Len(Migrate!SCHEMA_STATEMENTS) = 14
  BY Schema, Zenon
<1> QED
  BY <1>1, <1>2

-----------------------------------------------------------------------------
(* The migrations: runs                                                    *)

\* The URL names one of the two backends.
MigrateAssumption == Backend \subseteq {"sqlite", "postgres"} /\ MaxFaults \in Nat

\* A run sees what the statements it has passed leave behind.
Walked(r) ==
    /\ \A i \in 1..(next[r] - 1) : Post(Migrate!Statement[i]) \subseteq Migrate!Sees(r)
    /\ stage[r] # "running" => next[r] = 1
    /\ aborted[r] => backend = "postgres" /\ next[r] <= 22

\* Postgres: one transaction at a time, which sees all there is.
OneTransaction ==
    backend = "postgres" => \A r \in Run : stage[r] = "running" =>
        schema \subseteq view[r] /\ \A q \in Run : stage[q] = "running" => q = r

\* The column that is missing to the first table of entries is missing to no other.
EntriesWhole ==
    <<"table", "entries", "">> \in schema =>
        <<"column", "entries", "time_period">> \in schema \/ Migrate!TooOld

\* The inductive invariant of the migrations.
MigrateInv ==
    /\ Migrate!TypeOK /\ Migrate!MigratesWhole
    /\ (\A r \in Run : Walked(r)) /\ OneTransaction /\ EntriesWhole

\* A statement that is done, or an ALTER whose column is there, leaves behind
\* what it should, and takes nothing away.
LEMMA EffectOf ==
    ASSUME NEW k \in 1..22, NEW had, had \subseteq Migrate!FullSchema
    PROVE  LET s == Migrate!Statement[k]
               after == Migrate!Effect(s, had)
           IN  /\ had \subseteq after /\ after \subseteq Migrate!FullSchema
               /\ Post(s) \subseteq after
               /\ Migrate!Outcome(s, had) = "duplicate column" =>
                      s.does = "alter" /\ Post(s) \subseteq had
               /\ after = had \/ after = had \cup Migrate!Made(s)
<1> DEFINE s == Migrate!Statement[k]
           after == Migrate!Effect(s, had)
<1>1. Migrate!Made(s) \subseteq Migrate!FullSchema
  BY WholeIsPost
<1>2. after = had \/ after = had \cup Migrate!Made(s)
  BY DEF Migrate!Effect
<1>3. Post(s) \subseteq after
  <2>1. CASE s.does = "table"
    <3>1. Post(s) = {<<"table", s.on, "">>} /\ <<"table", s.on, "">> \in Migrate!Made(s)
      BY <2>1 DEF Post, Migrate!Thing, Migrate!Made
    <3> QED
      BY <2>1, <3>1 DEF Migrate!Effect, Migrate!Has, Migrate!Thing
  <2>2. CASE s.does # "table"
    BY <2>2 DEF Post, Migrate!Effect
  <2> QED
    BY <2>1, <2>2
<1>4. ASSUME Migrate!Outcome(s, had) = "duplicate column"
      PROVE  s.does = "alter" /\ Post(s) \subseteq had
  <2>1. s.does = "alter"
    BY <1>4, Needs DEF Migrate!Outcome
  <2>2. PICK c : c # "" /\ s.columns = {c}
    BY <2>1, Needs
  <2>3. Migrate!Has(had, s.on, c)
    BY <1>4, <2>1, <2>2 DEF Migrate!Outcome
  <2>4. Post(s) = {<<"column", s.on, c>>}
    BY <2>1, <2>2 DEF Post, Migrate!Made, Migrate!Thing
  <2> QED
    BY <2>1, <2>2, <2>3, <2>4 DEF Migrate!Has, Migrate!Thing
<1> QED
  BY <1>1, <1>2, <1>3, <1>4

\* Which statements fail on a schema that has what the ones before them leave
\* behind: an ALTER whose column is there, and the index on a column that the
\* table of entries lacks.
LEMMA FailureOf ==
    ASSUME NEW k \in 1..22, NEW had,
           \A i \in 1..(k - 1) : Post(Migrate!Statement[i]) \subseteq had,
           Migrate!Outcome(Migrate!Statement[k], had) # "done"
    PROVE  \/ /\ Migrate!Outcome(Migrate!Statement[k], had) = "duplicate column"
              /\ k \in 15..21
           \/ /\ <<"table", "entries", "">> \in had
              /\ <<"column", "entries", "time_period">> \notin had
<1> DEFINE s == Migrate!Statement[k]
<1>1. \A x : Before(k, x) => x \in had
  BY DEF Before
<1>2. CASE s.does = "table"
  BY <1>2 DEF Migrate!Outcome
<1>3. CASE s.does = "alter"
  <2>1. Migrate!Has(had, s.on, "") /\ k \in 15..21
    BY <1>1, <1>3, Needs DEF Migrate!Has, Migrate!Thing
  <2> QED
    BY <1>3, <2>1 DEF Migrate!Outcome
<1>4. CASE s.does = "index"
  <2>1. PICK c \in s.columns : ~Migrate!Has(had, s.on, c)
    BY <1>4 DEF Migrate!Outcome
  <2>2. \/ c = "" /\ <<"table", s.on, "">> \in had
        \/ c # "" /\ <<"column", s.on, c>> \in had
        \/ s.on = "entries" /\ c = "time_period" /\ <<"table", "entries", "">> \in had
    BY <1>1, <1>4, Needs
  <2>3. "time_period" # ""
    OBVIOUS
  <2> QED
    BY <2>1, <2>2, <2>3 DEF Migrate!Has, Migrate!Thing
<1> QED
  BY <1>2, <1>3, <1>4, Needs

\* A run of which nothing changes, while the schema grows at most.
LEMMA OtherWalks ==
    ASSUME NEW q \in Run, Walked(q), backend' = backend, stage'[q] = stage[q],
           next'[q] = next[q], view'[q] = view[q], aborted'[q] = aborted[q],
           schema \subseteq schema'
    PROVE  Walked(q)'
BY DEF Walked, Migrate!Sees

\* What follows of the schema when it gains what a statement makes, or all.
LEMMA SchemaGrows ==
    ASSUME EntriesWhole, found' = found, NEW k \in 1..22,
           \/ schema' = schema \/ schema' = schema \cup Migrate!Made(Migrate!Statement[k])
           \/ schema' = Migrate!FullSchema
    PROVE  EntriesWhole'
<1>1. <<"column", "entries", "time_period">> \in Migrate!FullSchema
  <2>1. Is(Migrate!Statement[8], "table", "entries", {"time_period", "metric_value"})
    BY Listed
  <2>2. <<"table", "entries", "">> \in Migrate!Made(Migrate!Statement[8])
    BY <2>1 DEF Is, Migrate!Made, Migrate!Thing
  <2>3. 8 \in 1..22
    OBVIOUS
  <2> QED
    BY <2>2, <2>3, EntriesMade, WholeIsPost
<1>2. Migrate!TooOld' = Migrate!TooOld
  BY DEF Migrate!TooOld
<1>3. CASE schema' = schema
  BY <1>2, <1>3 DEF EntriesWhole
<1>4. CASE schema' = schema \cup Migrate!Made(Migrate!Statement[k])
  BY <1>2, <1>4, EntriesMade DEF EntriesWhole
<1>5. CASE schema' = Migrate!FullSchema
  BY <1>1, <1>5 DEF EntriesWhole
<1> QED
  BY <1>3, <1>4, <1>5

\* A run that has a statement to send is at one of the twenty-two.
LEMMA AtStatement ==
    ASSUME MigrateInv, NEW r \in Run, Migrate!Pending(r)
    PROVE  /\ next[r] \in 1..22 /\ next[r] + 1 \in 1..23 /\ stage[r] = "running"
           /\ Migrate!Sees(r) \subseteq Migrate!FullSchema
<1>1. Len(Migrate!Statement) = 22
  BY Lengths
<1>2. /\ next[r] \in 1..23
      /\ schema \subseteq Migrate!FullSchema /\ view[r] \subseteq Migrate!FullSchema
  BY <1>1 DEF MigrateInv, Migrate!TypeOK
<1>3. Migrate!Sees(r) \in {schema, view[r]}
  BY DEF Migrate!Sees
<1> QED
  BY <1>1, <1>2, <1>3 DEF Migrate!Pending

\* A run starts.
LEMMA StartKeeps ==
    ASSUME MigrateAssumption, MigrateInv, NEW r \in Run, Migrate!Start(r)
    PROVE  MigrateInv'
<1> USE DEF Migrate!Start
<1>1. Migrate!TypeOK'
  <2>1. view'[r] \subseteq Migrate!FullSchema
    BY DEF MigrateInv, Migrate!TypeOK
  <2> QED
    BY <2>1 DEF MigrateInv, Migrate!TypeOK
<1>2. Migrate!MigratesWhole'
  BY DEF MigrateInv, Migrate!MigratesWhole, Migrate!TypeOK, Migrate!TooOld
<1>3. ASSUME NEW q \in Run PROVE Walked(q)'
  <2>1. CASE q = r
    BY <2>1 DEF MigrateInv, Migrate!TypeOK, Walked
  <2>2. CASE q # r
    BY <2>2, OtherWalks DEF MigrateInv, Migrate!TypeOK
  <2> QED
    BY <2>1, <2>2
<1>4. OneTransaction'
  BY DEF MigrateInv, Migrate!TypeOK, OneTransaction
<1>5. EntriesWhole'
  BY DEF MigrateInv, EntriesWhole, Migrate!TooOld
<1> QED
  BY <1>1, <1>2, <1>3, <1>4, <1>5 DEF MigrateInv

\* A statement is done.
LEMMA ExecuteKeeps ==
    ASSUME MigrateAssumption, MigrateInv, NEW r \in Run, Migrate!Execute(r)
    PROVE  MigrateInv'
<1> DEFINE k == next[r]
           after == Migrate!Effect(Migrate!Statement[k], Migrate!Sees(r))
<1>1. /\ k \in 1..22 /\ k + 1 \in 1..23 /\ stage[r] = "running"
      /\ Migrate!Sees(r) \subseteq Migrate!FullSchema
  BY AtStatement DEF Migrate!Execute
<1>2. /\ Migrate!Sees(r) \subseteq after /\ after \subseteq Migrate!FullSchema
      /\ Post(Migrate!Statement[k]) \subseteq after
      /\ \/ after = Migrate!Sees(r)
         \/ after = Migrate!Sees(r) \cup Migrate!Made(Migrate!Statement[k])
  BY <1>1, EffectOf
<1>3. ~aborted[r]
  BY DEF Migrate!Execute, Migrate!Result
<1>4. /\ IF backend = "sqlite" THEN schema' = after /\ view' = view
                               ELSE view' = [view EXCEPT ![r] = after] /\ schema' = schema
      /\ next' = [next EXCEPT ![r] = k + 1]
      /\ backend' = backend /\ found' = found /\ stage' = stage /\ aborted' = aborted
      /\ faults' = faults
  BY DEF Migrate!Execute
<1> HIDE DEF k, after
<1>5. schema \subseteq schema' /\ schema' \subseteq Migrate!FullSchema
  BY <1>2, <1>4 DEF Migrate!Sees, MigrateInv, Migrate!TypeOK
<1>6. Migrate!TypeOK'
  <2>1. view' \in [Run -> SUBSET Migrate!FullSchema]
    BY <1>2, <1>4 DEF MigrateInv, Migrate!TypeOK
  <2>2. next' \in [Run -> 1..23]
    BY <1>1, <1>4, Lengths DEF MigrateInv, Migrate!TypeOK
  <2> QED
    BY <1>4, <1>5, <2>1, <2>2, Lengths DEF MigrateInv, Migrate!TypeOK
<1>7. Migrate!MigratesWhole'
  BY <1>4, <1>5, MigrateAssumption
     DEF MigrateInv, Migrate!TypeOK, Migrate!MigratesWhole, Migrate!TooOld, MigrateAssumption
<1>8. ASSUME NEW q \in Run PROVE Walked(q)'
  <2>1. CASE q = r
    <3>1. Migrate!Sees(r)' = after
      BY <1>4 DEF Migrate!Sees, MigrateInv, Migrate!TypeOK
    <3>2. next'[r] = k + 1
      BY <1>4 DEF MigrateInv, Migrate!TypeOK
    <3>3. \A i \in 1..(k - 1) : Post(Migrate!Statement[i]) \subseteq after
      BY <1>2 DEF MigrateInv, Walked, k
    <3>4. \A i \in 1..k : Post(Migrate!Statement[i]) \subseteq after
      <4>1. \A i \in 1..k : i \in 1..(k - 1) \/ i = k
        BY <1>1
      <4> QED
        BY <1>2, <3>3, <4>1
    <3>5. Migrate!Statement' = Migrate!Statement /\ k + 1 - 1 = k
      BY <1>1
    <3> QED
      BY <1>1, <1>3, <1>4, <2>1, <3>1, <3>2, <3>4, <3>5 DEF Walked
  <2>2. CASE q # r
    BY <1>4, <1>5, <2>2, OtherWalks DEF MigrateInv, Migrate!TypeOK
  <2> QED
    BY <2>1, <2>2
<1>9. OneTransaction'
  BY <1>1, <1>2, <1>4 DEF MigrateInv, Migrate!TypeOK, OneTransaction, Migrate!Sees
<1>10. EntriesWhole'
  BY <1>1, <1>2, <1>4, SchemaGrows DEF MigrateInv, Migrate!Sees
<1> QED
  BY <1>6, <1>7, <1>8, <1>9, <1>10 DEF MigrateInv

\* A statement fails: its column is there, or the run raises.
LEMMA RefusedKeeps ==
    ASSUME MigrateAssumption, MigrateInv, NEW r \in Run, Migrate!Refused(r)
    PROVE  MigrateInv'
<1> DEFINE k == next[r]
           outcome == Migrate!Outcome(Migrate!Statement[k], Migrate!Sees(r))
<1>1. /\ k \in 1..22 /\ k + 1 \in 1..23 /\ stage[r] = "running"
      /\ Migrate!Sees(r) \subseteq Migrate!FullSchema
  BY AtStatement DEF Migrate!Refused
<1>2. /\ aborted' = [aborted EXCEPT ![r] = backend = "postgres"]
      /\ backend' = backend /\ schema' = schema /\ found' = found /\ view' = view
      /\ faults' = faults
  BY DEF Migrate!Refused, Migrate!Fail
<1>3. CASE Migrate!Goes(r, Migrate!Result(r))
  <2>1. ~aborted[r] /\ outcome = "duplicate column"
    BY <1>3 DEF Migrate!Goes, Migrate!Swallowed, Migrate!Result
  <2>2. k \in 15..21 /\ Post(Migrate!Statement[k]) \subseteq Migrate!Sees(r)
    BY <1>1, <2>1, EffectOf, Needs
  <2>3. next' = [next EXCEPT ![r] = k + 1] /\ stage' = stage
    BY <1>3 DEF Migrate!Refused, Migrate!Fail
  <2> HIDE DEF k
  <2>4. Migrate!TypeOK'
    BY <1>1, <1>2, <2>3, Lengths DEF MigrateInv, Migrate!TypeOK
  <2>5. Migrate!MigratesWhole'
    BY <1>2, <2>3 DEF MigrateInv, Migrate!MigratesWhole, Migrate!TooOld
  <2>6. ASSUME NEW q \in Run PROVE Walked(q)'
    <3>1. CASE q = r
      <4>1. Migrate!Sees(r)' = Migrate!Sees(r)
        BY <1>2 DEF Migrate!Sees
      <4>2. next'[r] = k + 1 /\ (aborted'[r] => backend = "postgres")
        BY <1>2, <2>3 DEF MigrateInv, Migrate!TypeOK
      <4>3. \A i \in 1..(k - 1) : Post(Migrate!Statement[i]) \subseteq Migrate!Sees(r)
        BY DEF MigrateInv, Walked, k
      <4>4. \A i \in 1..k : i \in 1..(k - 1) \/ i = k
        BY <1>1
      <4>5. Migrate!Statement' = Migrate!Statement /\ k + 1 - 1 = k /\ k + 1 <= 22
        BY <1>1, <2>2
      <4> QED
        BY <1>1, <1>2, <2>2, <2>3, <3>1, <4>1, <4>2, <4>3, <4>4, <4>5 DEF Walked
    <3>2. CASE q # r
      BY <1>2, <2>3, <3>2, OtherWalks DEF MigrateInv, Migrate!TypeOK
    <3> QED
      BY <3>1, <3>2
  <2>7. OneTransaction' /\ EntriesWhole'
    BY <1>2, <2>3 DEF MigrateInv, OneTransaction, EntriesWhole, Migrate!TooOld
  <2> QED
    BY <2>4, <2>5, <2>6, <2>7 DEF MigrateInv
<1>4. CASE ~Migrate!Goes(r, Migrate!Result(r))
  <2>1. stage' = [stage EXCEPT ![r] = "raised"] /\ next' = [next EXCEPT ![r] = 1]
    BY <1>4 DEF Migrate!Refused, Migrate!Fail
  <2>2. backend = "sqlite" => Migrate!TooOld
    <3>1. SUFFICES ASSUME backend = "sqlite" PROVE Migrate!TooOld
      OBVIOUS
    <3>2. ~aborted[r]
      BY <3>1 DEF MigrateInv, Walked
    <3>3. outcome # "done" /\ Migrate!Result(r) = outcome
      BY <3>2 DEF Migrate!Refused, Migrate!Result
    <3>4. \A i \in 1..(k - 1) : Post(Migrate!Statement[i]) \subseteq Migrate!Sees(r)
      BY DEF MigrateInv, Walked
    <3>5. ~(outcome = "duplicate column" /\ k \in 15..21)
      <4>1. ASSUME k \in 15..21 PROVE Migrate!IsSafe(k)
        BY <4>1, Lengths DEF Migrate!IsSafe
      <4>2. ASSUME outcome = "duplicate column" PROVE Migrate!Swallowed(Migrate!Result(r))
        BY <3>3, <4>2 DEF Migrate!Swallowed
      <4> QED
        BY <1>4, <4>1, <4>2, Zenon DEF Migrate!Goes
    <3>6. /\ <<"table", "entries", "">> \in Migrate!Sees(r)
          /\ <<"column", "entries", "time_period">> \notin Migrate!Sees(r)
      BY <1>1, <3>3, <3>4, <3>5, FailureOf
    <3> QED
      BY <3>1, <3>6 DEF Migrate!Sees, MigrateInv, EntriesWhole
  <2>3. Migrate!TypeOK'
    BY <1>2, <2>1, Lengths DEF MigrateInv, Migrate!TypeOK
  <2>4. Migrate!MigratesWhole'
    BY <1>2, <2>1, <2>2 DEF MigrateInv, Migrate!TypeOK, Migrate!MigratesWhole, Migrate!TooOld
  <2>5. ASSUME NEW q \in Run PROVE Walked(q)'
    <3>1. CASE q = r
      BY <1>2, <2>1, <3>1 DEF MigrateInv, Migrate!TypeOK, Walked
    <3>2. CASE q # r
      BY <1>2, <2>1, <3>2, OtherWalks DEF MigrateInv, Migrate!TypeOK
    <3> QED
      BY <3>1, <3>2
  <2>6. OneTransaction' /\ EntriesWhole'
    BY <1>2, <2>1
       DEF MigrateInv, Migrate!TypeOK, OneTransaction, EntriesWhole, Migrate!TooOld
  <2> QED
    BY <2>3, <2>4, <2>5, <2>6 DEF MigrateInv
<1> QED
  BY <1>3, <1>4

\* The database is locked: the run raises.
LEMMA LockedKeeps ==
    ASSUME MigrateAssumption, MigrateInv, NEW r \in Run, Migrate!Locked(r)
    PROVE  MigrateInv'
<1>1. /\ stage' = [stage EXCEPT ![r] = "raised"] /\ next' = [next EXCEPT ![r] = 1]
      /\ aborted' = [aborted EXCEPT ![r] = backend = "postgres"]
      /\ backend = "sqlite" /\ faults < MaxFaults /\ faults' = faults + 1
      /\ backend' = backend /\ schema' = schema /\ found' = found /\ view' = view
  BY DEF Migrate!Locked, Migrate!Fail, Migrate!Goes, Migrate!Swallowed
<1>2. faults' \in 1..MaxFaults
  BY <1>1 DEF MigrateInv, Migrate!TypeOK, MigrateAssumption
<1>3. Migrate!TypeOK'
  BY <1>1, <1>2, Lengths DEF MigrateInv, Migrate!TypeOK
<1>4. Migrate!MigratesWhole'
  BY <1>1, <1>2 DEF MigrateInv, Migrate!TypeOK, Migrate!MigratesWhole
<1>5. ASSUME NEW q \in Run PROVE Walked(q)'
  <2>1. CASE q = r
    BY <1>1, <2>1 DEF MigrateInv, Migrate!TypeOK, Walked
  <2>2. CASE q # r
    BY <1>1, <2>2, OtherWalks DEF MigrateInv, Migrate!TypeOK
  <2> QED
    BY <2>1, <2>2
<1>6. OneTransaction' /\ EntriesWhole'
  BY <1>1 DEF MigrateInv, OneTransaction, EntriesWhole, Migrate!TooOld
<1> QED
  BY <1>3, <1>4, <1>5, <1>6 DEF MigrateInv

\* A run commits: it has passed every statement.
LEMMA CommitKeeps ==
    ASSUME MigrateAssumption, MigrateInv, NEW r \in Run, Migrate!Commit(r)
    PROVE  MigrateInv'
<1>1. next[r] = 23 /\ stage[r] = "running"
  BY Lengths DEF MigrateInv, Migrate!TypeOK, Migrate!Commit
<1>2. ~aborted[r]
  BY <1>1 DEF MigrateInv, Walked
<1>3. Migrate!Sees(r) = Migrate!FullSchema
  <2>1. \A i \in 1..22 : Post(Migrate!Statement[i]) \subseteq Migrate!Sees(r)
    BY <1>1 DEF MigrateInv, Walked
  <2>2. Migrate!Sees(r) \subseteq Migrate!FullSchema
    BY DEF Migrate!Sees, MigrateInv, Migrate!TypeOK
  <2> QED
    BY <2>1, <2>2, WholeIsPost
<1>4. /\ schema' = Migrate!FullSchema
      /\ stage' = [stage EXCEPT ![r] = "ended"] /\ next' = [next EXCEPT ![r] = 1]
      /\ backend' = backend /\ found' = found /\ view' = view /\ aborted' = aborted
      /\ faults' = faults
  BY <1>2, <1>3 DEF Migrate!Commit, Migrate!Sees
<1>5. Migrate!TypeOK'
  BY <1>4, Lengths DEF MigrateInv, Migrate!TypeOK
<1>6. Migrate!MigratesWhole'
  BY <1>4 DEF MigrateInv, Migrate!TypeOK, Migrate!MigratesWhole, Migrate!TooOld
<1>7. ASSUME NEW q \in Run PROVE Walked(q)'
  <2>1. CASE q = r
    BY <1>2, <1>4, <2>1 DEF MigrateInv, Migrate!TypeOK, Walked
  <2>2. CASE q # r
    BY <1>4, <2>2, OtherWalks DEF MigrateInv, Migrate!TypeOK
  <2> QED
    BY <2>1, <2>2
<1>8. OneTransaction'
  BY <1>1, <1>4 DEF MigrateInv, Migrate!TypeOK, OneTransaction
<1>9. EntriesWhole'
  BY <1>4, SchemaGrows, 1 \in 1..22 DEF MigrateInv
<1> QED
  BY <1>5, <1>6, <1>7, <1>8, <1>9 DEF MigrateInv

\* A run dies.
LEMMA DieKeeps ==
    ASSUME MigrateAssumption, MigrateInv, NEW r \in Run, Migrate!Die(r)
    PROVE  MigrateInv'
<1> USE DEF Migrate!Die
<1>1. faults' \in 1..MaxFaults
  BY DEF MigrateInv, Migrate!TypeOK, MigrateAssumption
<1>2. Migrate!TypeOK'
  BY <1>1, Lengths DEF MigrateInv, Migrate!TypeOK
<1>3. Migrate!MigratesWhole'
  BY <1>1 DEF MigrateInv, Migrate!TypeOK, Migrate!MigratesWhole
<1>4. ASSUME NEW q \in Run PROVE Walked(q)'
  <2>1. CASE q = r
    BY <2>1 DEF MigrateInv, Migrate!TypeOK, Walked
  <2>2. CASE q # r
    BY <2>2, OtherWalks DEF MigrateInv, Migrate!TypeOK
  <2> QED
    BY <2>1, <2>2
<1>5. OneTransaction' /\ EntriesWhole'
  BY DEF MigrateInv, Migrate!TypeOK, OneTransaction, EntriesWhole, Migrate!TooOld
<1> QED
  BY <1>2, <1>3, <1>4, <1>5 DEF MigrateInv

\* A database of any release, found whole or with columns of today missing.
LEMMA MigrateInit ==
    ASSUME MigrateAssumption, Migrate!Init
    PROVE  MigrateInv
<1>1. schema \subseteq Migrate!FullSchema
  <2>1. PICK n \in Migrate!Releases : \E lacks : schema = Migrate!Older(n, lacks)
    BY DEF Migrate!Init
  <2>2. n \in Nat /\ n <= 22
    BY <2>1 DEF Migrate!Releases
  <2>3. schema \subseteq UNION {Migrate!Made(Migrate!Statement[i]) : i \in 1..n}
    BY <2>1 DEF Migrate!Older, Migrate!MadeBy
  <2> QED
    BY <2>2, <2>3, WholeIsPost
<1>2. Migrate!TypeOK
  BY <1>1, Lengths DEF Migrate!Init, Migrate!TypeOK, MigrateAssumption
<1>3. Migrate!MigratesWhole /\ OneTransaction
  BY DEF Migrate!Init, Migrate!MigratesWhole, OneTransaction
<1>4. \A r \in Run : Walked(r)
  BY DEF Migrate!Init, Walked
<1>5. EntriesWhole
  BY DEF Migrate!Init, EntriesWhole, Migrate!TooOld, Migrate!Thing
<1> QED
  BY <1>2, <1>3, <1>4, <1>5 DEF MigrateInv

\* The invariant of the migrations holds in every state.
LEMMA MigrateInvariant == ASSUME MigrateAssumption PROVE Spec => []MigrateInv
<1>1. Init => MigrateInv
  BY MigrateInit DEF Init
<1>2. MigrateInv /\ [Next]_allVars => MigrateInv'
  <2> SUFFICES ASSUME MigrateInv, [Next]_allVars PROVE MigrateInv'
    OBVIOUS
  <2>1. CASE Migrate!Next
    BY <2>1, StartKeeps, ExecuteKeeps, RefusedKeeps, LockedKeeps, CommitKeeps, DieKeeps
       DEF Migrate!Next
  <2>2. CASE UNCHANGED migrateVars
    BY <2>2 DEF migrateVars, MigrateInv, Migrate!TypeOK, Migrate!MigratesWhole, Walked,
                OneTransaction, EntriesWhole, Migrate!TooOld, Migrate!Sees
  <2>3. Migrate!Next \/ UNCHANGED migrateVars
    BY DEF Next, allVars, migrateVars
  <2> QED
    BY <2>1, <2>2, <2>3
<1>3. QED
  BY <1>1, <1>2, PTL DEF Spec

\* Whatever release a database comes from and whichever runs die in it or
\* overlap, a run that ends leaves the whole schema; a Postgres database is
\* migrated as a whole or not at all; and SQLite raises on its own account only
\* where the first table of entries lacks the column that its index is on.
THEOREM RunsMigrateTheWhole == ASSUME MigrateAssumption PROVE Spec => []MigratesWhole
<1>1. MigrateInv => MigratesWhole
  BY DEF MigrateInv, MigratesWhole
<1>2. QED
  BY <1>1, MigrateInvariant, PTL
=============================================================================
