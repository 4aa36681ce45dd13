----------------------------- MODULE UserRecords -----------------------------
(***************************************************************************)
(* UserInfoManager: the records of users, found by connection id and by    *)
(* account id.  Each operation holds the mutex from end to end.            *)
(*                                                                         *)
(* NoticeMessage and RemoveUserByAccountID cannot be instantiated (one     *)
(* passes a const char* for a MSG_BASE*, the other calls a function that   *)
(* is not there).                                                          *)
(***************************************************************************)
EXTENDS Naturals, Sequences, FiniteSets, Functions

CONSTANTS
    ConnectID,      \* connection ids
    AccountID,      \* account ids; 0 is none
    MaxRecords      \* bound: the records the pool has memory for

ASSUME RecordsAssumption == AccountID \subseteq Nat \ {0} /\ MaxRecords \in Nat

VARIABLES
    players,        \* m_poolPlayers: nothing is ever given back to it
    byCID, byAID,   \* m_mapCIDToINFO, m_mapAIDToINFO: from an id to a place in players
    curCount,       \* g_nCurPlayerCount
    maxCount,       \* g_nMaxPlayerCount
    disputed        \* history: accounts that two connections, or one connection beside another
                    \* account, have claimed

recordVars == <<players, byCID, byAID, curCount, maxCount, disputed>>

With(map, id, r) == [i \in DOMAIN map \cup {id} |-> IF i = id THEN r ELSE map[i]]
Erase(map, id)   == Restrict(map, DOMAIN map \ {id})

NewUser(c) == [cid |-> c, aid |-> 0]

RecordsInit ==
    /\ players = <<>>
    /\ byCID = <<>> /\ byAID = <<>>
    /\ curCount = 0 /\ maxCount = 0
    /\ disputed = {}

\* Mutant: the count is taken before the user is in.
AdmitCountedLate(c, a, r, ps) ==
    /\ players' = ps
    /\ byCID' = With(byCID, c, r)
    /\ curCount' = Cardinality(DOMAIN byCID)
    /\ maxCount' = IF curCount' > maxCount THEN curCount' ELSE maxCount
    /\ UNCHANGED <<byAID, disputed>>

\* Find or construct the record of connection c; r is its place, ps the pool with it.
Admit(c, a, r, ps) ==
    LET old   == ps[r].aid
        taken == a # 0 /\ a \in DOMAIN byAID
        users == With(byCID, c, r)
    IN
    /\ players' = IF a = 0 THEN ps ELSE [ps EXCEPT ![r].aid = a]
    /\ byCID' = users
    /\ byAID' = IF a = 0 \/ taken THEN byAID ELSE With(byAID, a, r)
    /\ disputed' = disputed \cup (IF taken /\ byAID[a] # r THEN {a} ELSE {})
                            \cup (IF a # 0 /\ old \notin {0, a} THEN {old, a} ELSE {})
    /\ IF taken
          THEN UNCHANGED <<curCount, maxCount>>     \* NULL, although c has its record now
          ELSE /\ curCount' = Cardinality(DOMAIN users)
               /\ maxCount' = IF curCount' > maxCount THEN curCount' ELSE maxCount

\* AddUser: first with the connection alone, then again with the account (0: none).
AddUser(c, a) ==
    \/ c \in DOMAIN byCID /\ Admit(c, a, byCID[c], players)
    \/ /\ c \notin DOMAIN byCID
       /\ Len(players) < MaxRecords
       /\ Admit(c, a, Len(players) + 1, Append(players, NewUser(c)))

\* Mutant: the account stays in its map.
RemoveUserAccountStays(c) ==
    /\ c \in DOMAIN byCID
    /\ byCID' = Erase(byCID, c)
    /\ UNCHANGED <<players, byAID, curCount, maxCount, disputed>>

\* RemoveUserByConnectID: whatever account the record names goes with it.
RemoveUser(c) ==
    /\ c \in DOMAIN byCID
    /\ LET a == players[byCID[c]].aid IN byAID' = IF a = 0 THEN byAID ELSE Erase(byAID, a)
    /\ byCID' = Erase(byCID, c)
    /\ UNCHANGED <<players, curCount, maxCount, disputed>>

\* UpdateUserByConnectID: the whole record is overwritten, neither map is.
UpdateUser(c, a) ==
    /\ c \in DOMAIN byCID
    /\ LET old == players[byCID[c]].aid IN
       disputed' = IF old = a THEN disputed ELSE disputed \cup ({old, a} \ {0})
    /\ players' = [players EXCEPT ![byCID[c]] = [cid |-> c, aid |-> a]]
    /\ UNCHANGED <<byCID, byAID, curCount, maxCount>>

RecordsNext ==
    \E c \in ConnectID :
        \/ RemoveUser(c)
        \/ \E a \in AccountID \cup {0} : AddUser(c, a) \/ UpdateUser(c, a)

RecordsSpec == RecordsInit /\ [][RecordsNext]_recordVars

-----------------------------------------------------------------------------
FindUserByConnectID(c) == IF c \in DOMAIN byCID THEN byCID[c] ELSE 0
FindUserByAccountID(a) == IF a \in DOMAIN byAID THEN byAID[a] ELSE 0

\* However users come, go and are overwritten, an account that only one connection
\* claimed, and that connection claimed no other, is found exactly while its user is
\* there, and leads to that user's record.  (Of a disputed account nothing holds: AddUser
\* names it in the second record before the insertion fails, so the second user takes
\* the first one's entry along when it is removed.)
AccountsFound ==
    \A a \in AccountID \ disputed :
        LET users == {c \in DOMAIN byCID : players[byCID[c]].aid = a} IN
        IF users = {} THEN FindUserByAccountID(a) = 0
        ELSE /\ Cardinality(users) = 1
             /\ \A c \in users : FindUserByAccountID(a) = FindUserByConnectID(c)

\* While no account is disputed, the counts the server shows never fall behind the users
\* there are (a removal leaves the current count too high until the next AddUser; an
\* AddUser that fails has let a user in whom neither count knows).
UsersCounted ==
    disputed = {} => /\ Cardinality(DOMAIN byCID) <= curCount
                     /\ curCount <= maxCount
=============================================================================
