----------------------------- MODULE IdeasPull ------------------------------
(***************************************************************************)
(* scripts/kalshi_ideas_pull.py: a run reads the leaderboards, then the    *)
(* profile, the metrics and the trades of every user it found there or was *)
(* told about.  Entries are committed with their leaderboard, a profile    *)
(* with the trades that were fetched after it.  Runs may overlap on the    *)
(* one write lock of the database, die anywhere and be started again.      *)
(***************************************************************************)
EXTENDS Integers

CONSTANTS
    Slug,        \* users
    Trade,       \* trades; any user may have any of them on the tape
    Named,       \* those that come with an id
    Run,         \* runs that may overlap
    Boards,      \* leaderboards of a run: categories times periods
    MaxStarts    \* bound on the runs

VARIABLES
    \* the database
    entries,     \* users with a leaderboard entry
    profiles,    \* per user: the run that wrote the row, 0 for none
    trades,      \* per trade: the users under whom it is stored
    \* each run
    stage,       \* "idle", "boards", "users", "pages", "ended" or "failed"
    number,      \* its fetched_at_us
    board,       \* leaderboards read
    seen, todo,  \* users found, users not yet pulled
    user,        \* the set of the one being pulled
    pages,       \* trades fetched so far
    pending,     \* profiles written and not committed
    \* the world
    sourced,     \* users whose trades have a source
    nick,        \* the slug a profile gives itself
    starts,      \* runs so far (history)
    traded       \* per user: the run whose trades were stored last (history)

tables  == <<entries, profiles, trades>>
ipRuns  == <<stage, number, board, seen, todo, user, pages, pending>>
ipWorld == <<sourced, nick, starts, traded>>
ipVars  == <<tables, ipRuns, ipWorld>>

Init ==
    /\ entries = {} /\ profiles = [s \in Slug |-> 0] /\ trades = [t \in Trade |-> {}]
    /\ stage = [r \in Run |-> "idle"] /\ number = [r \in Run |-> 0]
    /\ board = [r \in Run |-> 0]
    /\ seen = [r \in Run |-> {}] /\ todo = [r \in Run |-> {}]
    /\ user = [r \in Run |-> {}] /\ pages = [r \in Run |-> {}]
    /\ pending = [r \in Run |-> {}]
    /\ sourced \in SUBSET Slug
    /\ nick \in {[s \in Slug |-> s]} \cup {[s \in Slug |-> p] : p \in Slug}
    /\ starts = 0 /\ traded = [s \in Slug |-> 0]

\* A run that has written holds the write lock until it commits: while it
\* asks for pages, too.  Another one gives up when its wait times out.
Unlocked(r) == \A q \in Run \ {r} : pending[q] = {}

-----------------------------------------------------------------------------

Start(r) ==
    /\ stage[r] \in {"idle", "ended", "failed"} /\ starts < MaxStarts
    /\ starts' = starts + 1 /\ number' = [number EXCEPT ![r] = starts + 1]
    /\ stage' = [stage EXCEPT ![r] = "boards"] /\ board' = [board EXCEPT ![r] = 0]
    /\ seen' = [seen EXCEPT ![r] = {}] /\ todo' = [todo EXCEPT ![r] = {}]
    /\ UNCHANGED <<tables, user, pages, pending, sourced, nick, traded>>

\* A user is pulled once, however many leaderboards list them.
Discover(r, found) ==
    /\ seen' = [seen EXCEPT ![r] = @ \cup found]
    /\ todo' = [todo EXCEPT ![r] = @ \cup (found \ seen[r])]

\* The rows of a leaderboard that name a user, down to a cap: all of them
\* are inserted, in one transaction, again by every run.
EntriesOf(payload) == payload \cap Slug
InsertEntries(found) == entries' = entries \cup found

ReadBoard(r) ==
    /\ stage[r] = "boards" /\ board[r] < Boards /\ Unlocked(r)
    /\ board' = [board EXCEPT ![r] = @ + 1]
    /\ \E payload \in SUBSET Slug :
           InsertEntries(EntriesOf(payload)) /\ Discover(r, EntriesOf(payload))
    /\ UNCHANGED <<profiles, trades, stage, number, user, pages, pending, ipWorld>>

\* --user
AddUsers(r) ==
    /\ stage[r] = "boards" /\ board[r] = Boards
    /\ \E asked \in SUBSET Slug : Discover(r, asked)
    /\ stage' = [stage EXCEPT ![r] = "users"]
    /\ UNCHANGED <<tables, number, board, user, pages, pending, ipWorld>>

\* The profile has the slug of its payload, or the one it was asked for by.
ProfileOf(s) == nick[s]
UpsertProfile(r, s) == pending' = [pending EXCEPT ![r] = @ \cup {ProfileOf(s)}]

\* The next user: profile and metrics are loaded, and the row is written.  A
\* user whose trades have no source is left at that, and is not committed.
PullProfile_Commits(r) ==
    /\ stage[r] = "users" /\ Unlocked(r)
    /\ \E s \in todo[r] :
           /\ todo' = [todo EXCEPT ![r] = @ \ {s}]
           /\ profiles' = [profiles EXCEPT ![ProfileOf(s)] = number[r]]
           /\ IF s \in sourced
              THEN stage' = [stage EXCEPT ![r] = "pages"] /\ user' = [user EXCEPT ![r] = {s}]
              ELSE UNCHANGED <<stage, user>>
    /\ UNCHANGED <<entries, trades, number, board, seen, pages, pending, ipWorld>>

PullProfile(r) ==
    /\ stage[r] = "users" /\ Unlocked(r)
    /\ \E s \in todo[r] :
           /\ todo' = [todo EXCEPT ![r] = @ \ {s}]
           /\ UpsertProfile(r, s)
           /\ IF s \in sourced
              THEN stage' = [stage EXCEPT ![r] = "pages"] /\ user' = [user EXCEPT ![r] = {s}]
              ELSE UNCHANGED <<stage, user>>
    /\ UNCHANGED <<tables, number, board, seen, pages, ipWorld>>

\* fetch_paginated_trades: pages overlap as the tape moves on.
ReadPage(r) ==
    /\ stage[r] = "pages"
    /\ \E more \in SUBSET Trade :
           pages' = [pages EXCEPT ![r] = @ \cup more] /\ pages' # pages
    /\ UNCHANGED <<tables, stage, number, board, seen, todo, user, pending, ipWorld>>

\* normalize_trades: the id is the key of a trade.  One without gets a hash
\* that covers the user.
Rows(t, s) == IF t \in Named THEN {s} ELSE trades[t] \cup {s}

\* The row is replaced, with its user.
UpsertTrades(r, s) ==
    trades' = [t \in Trade |-> IF t \in pages[r] THEN Rows(t, s) ELSE trades[t]]

CommitProfiles(r) ==
    /\ profiles' = [s \in Slug |-> IF s \in pending[r] THEN number[r] ELSE profiles[s]]
    /\ pending' = [pending EXCEPT ![r] = {}]

\* The last page, a page that failed, or a cursor seen before: what has been
\* fetched is stored all the same, and the user is committed.
StoreTrades(r) ==
    /\ stage[r] = "pages"
    /\ \E s \in user[r] :
           /\ UpsertTrades(r, ProfileOf(s))
           /\ traded' = [traded EXCEPT ![ProfileOf(s)] = number[r]]
    /\ CommitProfiles(r)
    /\ stage' = [stage EXCEPT ![r] = "users"]
    /\ user' = [user EXCEPT ![r] = {}] /\ pages' = [pages EXCEPT ![r] = {}]
    /\ UNCHANGED <<entries, number, board, seen, todo, sourced, nick, starts>>

Finish(r) ==
    /\ stage[r] = "users" /\ todo[r] = {}
    /\ CommitProfiles(r) /\ stage' = [stage EXCEPT ![r] = "ended"]
    /\ UNCHANGED <<entries, trades, number, board, seen, todo, user, pages, ipWorld>>

\* A source that does not load or parse, the wait for the lock, or a kill.
\* conn.close rolls back.
Fail(r) ==
    /\ stage[r] \in {"boards", "users", "pages"}
    /\ stage' = [stage EXCEPT ![r] = "failed"]
    /\ pending' = [pending EXCEPT ![r] = {}] /\ user' = [user EXCEPT ![r] = {}]
    /\ pages' = [pages EXCEPT ![r] = {}]
    /\ seen' = [seen EXCEPT ![r] = {}] /\ todo' = [todo EXCEPT ![r] = {}]
    /\ UNCHANGED <<tables, number, board, ipWorld>>

Next ==
    \E r \in Run :
        \/ Start(r) \/ ReadBoard(r) \/ AddUsers(r) \/ PullProfile(r)
        \/ ReadPage(r) \/ StoreTrades(r) \/ Finish(r) \/ Fail(r)

Spec == Init /\ [][Next]_ipVars

-----------------------------------------------------------------------------
(* Properties                                                              *)

TypeOK ==
    /\ entries \subseteq Slug /\ profiles \in [Slug -> 0..MaxStarts]
    /\ trades \in [Trade -> SUBSET Slug]
    /\ stage \in [Run -> {"idle", "boards", "users", "pages", "ended", "failed"}]
    /\ number \in [Run -> 0..MaxStarts] /\ board \in [Run -> 0..Boards]
    /\ seen \in [Run -> SUBSET Slug] /\ todo \in [Run -> SUBSET Slug]
    /\ user \in [Run -> SUBSET Slug] /\ pages \in [Run -> SUBSET Trade]
    /\ pending \in [Run -> SUBSET Slug]
    /\ sourced \subseteq Slug /\ nick \in [Slug -> Slug] /\ starts \in 0..MaxStarts
    /\ traded \in [Slug -> 0..MaxStarts]

\* A profile and its trades belong together, whichever runs died or
\* overlapped: a row, if the trades of all that lead to it have a source, is
\* of the run that last stored trades under it; no trade is stored under a
\* user without a row; and one that came with an id is stored once.
UserIsWhole ==
    /\ \A p \in Slug :
           (\A s \in Slug : ProfileOf(s) = p => s \in sourced) => profiles[p] = traded[p]
    /\ \A t \in Trade : \A s \in trades[t] : profiles[s] # 0
    /\ \A t \in Named : \A s, q \in trades[t] : s = q
=============================================================================
