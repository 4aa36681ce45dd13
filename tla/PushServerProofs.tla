--------------------------- MODULE PushServerProofs ---------------------------
(***************************************************************************)
(* Proofs about the records of users and about the push server.  The two   *)
(* maps of UserInfoManager agree on every account that was claimed once,   *)
(* and the counts of users do not fall behind, for every set of            *)
(* connections and accounts and every order of calls.  PushServer          *)
(* implements OrderService for every number of connections, of messages    *)
(* and every set of order numbers.                                         *)
(***************************************************************************)
EXTENDS PushServer, UserRecords, FiniteSetTheorems, SequenceTheorems, WellFoundedInduction, TLAPS

(* The records of users                                                    *)

Record == [cid : ConnectID, aid : AccountID \cup {0}]

\* Both maps lead into the pool, and no two connections to one record.
Placed(ps, users, accounts) ==
    /\ ps \in Seq(Record)
    /\ DOMAIN users \subseteq ConnectID
    /\ \A c \in DOMAIN users : users[c] \in 1 .. Len(ps)
    /\ \A c, e \in DOMAIN users : users[c] = users[e] => c = e
    /\ DOMAIN accounts \subseteq AccountID
    /\ \A a \in DOMAIN accounts : accounts[a] \in 1 .. Len(ps)

\* An account that is filed and not disputed has its user, whose record names it.
Filed(ps, users, accounts, except) ==
    \A a \in DOMAIN accounts : a \notin except =>
        \E c \in DOMAIN users : users[c] = accounts[a] /\ ps[users[c]].aid = a

\* An account that a user's record names, and that is not disputed, is filed as that user's.
Named(ps, users, accounts, except) ==
    \A c \in DOMAIN users :
        LET a == ps[users[c]].aid IN
        a # 0 /\ a \notin except => a \in DOMAIN accounts /\ accounts[a] = users[c]

Agree(ps, users, accounts, except) ==
    /\ Placed(ps, users, accounts)
    /\ Filed(ps, users, accounts, except)
    /\ Named(ps, users, accounts, except)

Counted ==
    /\ IsFiniteSet(DOMAIN byCID)
    /\ curCount \in Nat /\ maxCount \in Nat
    /\ UsersCounted

RecordsInv == Agree(players, byCID, byAID, disputed) /\ Counted

-----------------------------------------------------------------------------
\* A connection that gets a new record, or keeps the one it has, without an account.
LEMMA Joins ==
  ASSUME Agree(players, byCID, byAID, disputed), NEW c \in ConnectID, c \notin DOMAIN byCID
  PROVE  Agree(Append(players, NewUser(c)), With(byCID, c, Len(players) + 1), byAID, disputed)
<1> DEFINE ps == Append(players, NewUser(c))
           n == Len(players) + 1
           users == With(byCID, c, n)
<1>1. Placed(players, byCID, byAID) BY DEF Agree
<1>2. NewUser(c) \in Record /\ NewUser(c).aid = 0 BY DEF NewUser, Record
<1>3. /\ ps \in Seq(Record) /\ Len(ps) = n /\ n \in Nat
      /\ \A i \in 1 .. Len(players) : ps[i] = players[i]
      /\ ps[n] = NewUser(c)
  BY <1>1, <1>2 DEF Placed
<1>4. /\ DOMAIN users = DOMAIN byCID \cup {c} /\ users[c] = n
      /\ \A e \in DOMAIN byCID : users[e] = byCID[e]
  BY DEF With
<1>. HIDE DEF ps, n, users
<1>5. \A e \in DOMAIN byCID : byCID[e] \in 1 .. Len(players) /\ byCID[e] # n
  BY <1>1 DEF Placed, n
<1>6. Placed(ps, users, byAID)
  <2>1. \A e, f \in DOMAIN users : users[e] = users[f] => e = f
    BY <1>1, <1>4, <1>5 DEF Placed
  <2>2. \A i \in 1 .. Len(players) : i \in 1 .. Len(ps)
    BY <1>1, <1>3 DEF Placed, n
  <2>3. n \in 1 .. Len(ps) BY <1>1, <1>3 DEF Placed, n
  <2>. QED BY <1>1, <1>3, <1>4, <1>5, <2>1, <2>2, <2>3 DEF Placed
<1>7. \A e \in DOMAIN byCID : ps[users[e]].aid = players[byCID[e]].aid
  BY <1>3, <1>4, <1>5
<1>8. Filed(ps, users, byAID, disputed)
  BY <1>4, <1>7 DEF Agree, Filed
<1>9. Named(ps, users, byAID, disputed)
  BY <1>2, <1>3, <1>4, <1>7 DEF Agree, Named
<1>. QED BY <1>6, <1>8, <1>9 DEF Agree, ps, n, users

LEMMA Stays ==
  ASSUME Agree(players, byCID, byAID, disputed), NEW c \in DOMAIN byCID
  PROVE  Agree(players, With(byCID, c, byCID[c]), byAID, disputed)
<1> DEFINE users == With(byCID, c, byCID[c])
<1>1. DOMAIN users = DOMAIN byCID /\ \A e \in DOMAIN byCID : users[e] = byCID[e]
  BY DEF With
<1>. HIDE DEF users
<1>2. Placed(players, users, byAID) BY <1>1 DEF Agree, Placed
<1>3. Filed(players, users, byAID, disputed) BY <1>1 DEF Agree, Filed
<1>4. Named(players, users, byAID, disputed) BY <1>1 DEF Agree, Named
<1>. QED BY <1>2, <1>3, <1>4 DEF Agree, users

\* Giving record r the account a changes no other record.
LEMMA Renamed ==
  ASSUME NEW ps \in Seq(Record), NEW r \in 1 .. Len(ps), NEW a \in AccountID \cup {0}
  PROVE  LET new == [ps EXCEPT ![r].aid = a]
         IN  /\ new \in Seq(Record) /\ Len(new) = Len(ps)
             /\ new[r].aid = a
             /\ \A i \in 1 .. Len(ps) : i # r => new[i] = ps[i]
<1>1. ps[r] \in Record OBVIOUS
<1>2. [ps[r] EXCEPT !.aid = a] \in Record /\ [ps[r] EXCEPT !.aid = a].aid = a
  BY <1>1 DEF Record
<1>. QED BY <1>2

-----------------------------------------------------------------------------
\* AddUser, once the connection has its record.
LEMMA AdmitAgrees ==
  ASSUME NEW c \in ConnectID, NEW a \in AccountID \cup {0}, NEW r, NEW ps,
         Agree(ps, With(byCID, c, r), byAID, disputed), Admit(c, a, r, ps)
  PROVE  Agree(players, byCID, byAID, disputed)'
<1> DEFINE users == With(byCID, c, r)
           old == ps[r].aid
           taken == a # 0 /\ a \in DOMAIN byAID
<1>1. byCID' = users BY DEF Admit
<1>2. c \in DOMAIN users /\ users[c] = r BY DEF With
<1>3. /\ disputed \subseteq disputed'
      /\ taken /\ byAID[a] # r => a \in disputed'
      /\ a # 0 /\ old \notin {0, a} => old \in disputed' /\ a \in disputed'
  BY DEF Admit
<1>. HIDE DEF users
<1>4. Placed(ps, users, byAID) /\ Filed(ps, users, byAID, disputed) /\ Named(ps, users, byAID, disputed)
  BY DEF Agree, users
<1>5. CASE a = 0
  <2>1. players' = ps /\ byAID' = byAID BY <1>5 DEF Admit
  <2>2. Filed(ps, users, byAID, disputed') BY <1>3, <1>4 DEF Filed
  <2>3. Named(ps, users, byAID, disputed') BY <1>3, <1>4 DEF Named
  <2>. QED BY <1>1, <1>4, <2>1, <2>2, <2>3 DEF Agree
<1>6. CASE a # 0
  <2>0. ps \in Seq(Record) /\ r \in 1 .. Len(ps) BY <1>2, <1>4 DEF Placed
  <2>1. players' = [ps EXCEPT ![r].aid = a] BY <1>6 DEF Admit
  <2>2. /\ players' \in Seq(Record) /\ Len(players') = Len(ps)
        /\ players'[r].aid = a
        /\ \A i \in 1 .. Len(ps) : i # r => players'[i] = ps[i]
    <3>1. LET new == [ps EXCEPT ![r].aid = a]
          IN  /\ new \in Seq(Record) /\ Len(new) = Len(ps)
              /\ new[r].aid = a
              /\ \A i \in 1 .. Len(ps) : i # r => new[i] = ps[i]
      BY <2>0, Renamed
    <3>. QED BY <2>1, <3>1
  <2>3. \A e \in DOMAIN users : e # c => /\ users[e] \in 1 .. Len(ps) /\ users[e] # r
                                         /\ players'[users[e]].aid = ps[users[e]].aid
    BY <1>2, <1>4, <2>2 DEF Placed
  <2>4. CASE taken
    <3>1. byAID' = byAID BY <2>4 DEF Admit
    <3>2. Placed(players', users, byAID) BY <1>4, <2>2 DEF Placed
    <3>3. Filed(players', users, byAID, disputed')
      <4>1. SUFFICES ASSUME NEW b \in DOMAIN byAID, b \notin disputed'
                     PROVE  \E e \in DOMAIN users : users[e] = byAID[b] /\ players'[users[e]].aid = b
        BY DEF Filed
      <4>2. PICK e \in DOMAIN users : users[e] = byAID[b] /\ ps[users[e]].aid = b
        BY <1>3, <1>4, <4>1 DEF Filed
      <4>3. b # 0 BY <1>4, RecordsAssumption DEF Placed
      <4>4. CASE e # c BY <2>3, <4>2, <4>4
      <4>5. CASE e = c
        <5>1. old = b /\ byAID[b] = r BY <1>2, <4>2, <4>5
        <5>2. a = b BY <1>3, <1>6, <4>1, <4>3, <5>1
        <5>. QED BY <1>2, <2>2, <5>1, <5>2
      <4>. QED BY <4>4, <4>5
    <3>4. Named(players', users, byAID, disputed')
      <4>1. SUFFICES ASSUME NEW e \in DOMAIN users, NEW b, b = players'[users[e]].aid,
                            b # 0, b \notin disputed'
                     PROVE  b \in DOMAIN byAID /\ byAID[b] = users[e]
        BY DEF Named
      <4>2. CASE e # c BY <1>3, <1>4, <2>3, <4>1, <4>2 DEF Named
      <4>3. CASE e = c BY <1>2, <1>3, <2>2, <2>4, <4>1, <4>3
      <4>. QED BY <4>2, <4>3
    <3>. QED BY <1>1, <3>1, <3>2, <3>3, <3>4 DEF Agree
  <2>5. CASE ~taken
    <3>1. byAID' = With(byAID, a, r) BY <1>6, <2>5 DEF Admit
    <3>2. a \notin DOMAIN byAID BY <1>6, <2>5
    <3>3. /\ DOMAIN byAID' = DOMAIN byAID \cup {a} /\ byAID'[a] = r
          /\ \A b \in DOMAIN byAID : byAID'[b] = byAID[b]
      <4>1. /\ DOMAIN With(byAID, a, r) = DOMAIN byAID \cup {a} /\ With(byAID, a, r)[a] = r
            /\ \A b \in DOMAIN byAID : b # a => With(byAID, a, r)[b] = byAID[b]
        BY DEF With
      <4>. QED BY <3>1, <3>2, <4>1
    <3>4. Placed(players', users, byAID') BY <1>4, <1>6, <2>0, <2>2, <3>3 DEF Placed
    <3>5. Filed(players', users, byAID', disputed')
      <4>1. SUFFICES ASSUME NEW b \in DOMAIN byAID', b \notin disputed'
                     PROVE  \E e \in DOMAIN users : users[e] = byAID'[b] /\ players'[users[e]].aid = b
        BY DEF Filed
      <4>2. CASE b = a BY <1>2, <2>2, <3>3, <4>2
      <4>3. CASE b # a
        <5>1. b \in DOMAIN byAID /\ byAID'[b] = byAID[b] BY <3>3, <4>1, <4>3
        <5>2. PICK e \in DOMAIN users : users[e] = byAID[b] /\ ps[users[e]].aid = b
          BY <1>3, <1>4, <4>1, <5>1 DEF Filed
        <5>3. b # 0 BY <1>4, <5>1, RecordsAssumption DEF Placed
        <5>4. e # c BY <1>2, <1>3, <1>6, <4>1, <4>3, <5>2, <5>3
        <5>. QED BY <2>3, <5>1, <5>2, <5>4
      <4>. QED BY <4>2, <4>3
    <3>6. Named(players', users, byAID', disputed')
      <4>1. SUFFICES ASSUME NEW e \in DOMAIN users, NEW b, b = players'[users[e]].aid,
                            b # 0, b \notin disputed'
                     PROVE  b \in DOMAIN byAID' /\ byAID'[b] = users[e]
        BY DEF Named
      <4>2. CASE e # c
        <5>1. b \in DOMAIN byAID /\ byAID[b] = users[e]
          BY <1>3, <1>4, <2>3, <4>1, <4>2 DEF Named
        <5>. QED BY <3>3, <5>1
      <4>3. CASE e = c BY <1>2, <2>2, <3>3, <4>1, <4>3
      <4>. QED BY <4>2, <4>3
    <3>. QED BY <1>1, <3>4, <3>5, <3>6 DEF Agree
  <2>. QED BY <2>4, <2>5
<1>. QED BY <1>5, <1>6

LEMMA AddAgrees ==
  ASSUME Agree(players, byCID, byAID, disputed), NEW c \in ConnectID,
         NEW a \in AccountID \cup {0}, AddUser(c, a)
  PROVE  Agree(players, byCID, byAID, disputed)'
<1>1. CASE c \in DOMAIN byCID /\ Admit(c, a, byCID[c], players)
  BY <1>1, Stays, AdmitAgrees
<1>2. CASE /\ c \notin DOMAIN byCID
           /\ Admit(c, a, Len(players) + 1, Append(players, NewUser(c)))
  BY <1>2, Joins, AdmitAgrees
<1>. QED BY <1>1, <1>2 DEF AddUser

\* The account that goes with a user was filed as its own, or is disputed.
LEMMA RemoveAgrees ==
  ASSUME Agree(players, byCID, byAID, disputed), NEW c \in ConnectID, RemoveUser(c)
  PROVE  Agree(players, byCID, byAID, disputed)'
<1> DEFINE a == players[byCID[c]].aid
<1>0. /\ Placed(players, byCID, byAID) /\ Filed(players, byCID, byAID, disputed)
      /\ Named(players, byCID, byAID, disputed) /\ c \in DOMAIN byCID
  BY DEF Agree, RemoveUser
<1>1. players' = players /\ disputed' = disputed BY DEF RemoveUser
<1>2. /\ DOMAIN byCID' = DOMAIN byCID \ {c}
      /\ \A e \in DOMAIN byCID \ {c} : byCID'[e] = byCID[e]
  BY DEF RemoveUser, Erase, Restrict
<1>3. /\ DOMAIN byAID' = DOMAIN byAID \ {a}
      /\ \A b \in DOMAIN byAID \ {a} : byAID'[b] = byAID[b]
  <2>1. CASE a = 0
    <3>1. 0 \notin DOMAIN byAID BY <1>0, RecordsAssumption DEF Placed
    <3>2. byAID' = byAID BY <2>1 DEF RemoveUser
    <3>. QED BY <2>1, <3>1, <3>2
  <2>2. CASE a # 0
    <3>1. byAID' = Erase(byAID, a) BY <2>2 DEF RemoveUser
    <3>. QED BY <3>1 DEF Erase, Restrict
  <2>. QED BY <2>1, <2>2
<1>. HIDE DEF a
<1>4. Placed(players, byCID', byAID') BY <1>0, <1>2, <1>3 DEF Placed
<1>5. Filed(players, byCID', byAID', disputed)
  <2>1. SUFFICES ASSUME NEW b \in DOMAIN byAID', b \notin disputed
                 PROVE  \E e \in DOMAIN byCID' : byCID'[e] = byAID'[b] /\ players[byCID'[e]].aid = b
    BY DEF Filed
  <2>2. b \in DOMAIN byAID /\ b # a /\ byAID'[b] = byAID[b] BY <1>3, <2>1
  <2>3. PICK e \in DOMAIN byCID : byCID[e] = byAID[b] /\ players[byCID[e]].aid = b
    BY <1>0, <2>1, <2>2 DEF Filed
  <2>4. e # c BY <2>2, <2>3 DEF a
  <2>. QED BY <1>2, <2>2, <2>3, <2>4
<1>6. Named(players, byCID', byAID', disputed)
  <2>1. SUFFICES ASSUME NEW e \in DOMAIN byCID', NEW b, b = players[byCID'[e]].aid,
                        b # 0, b \notin disputed
                 PROVE  b \in DOMAIN byAID' /\ byAID'[b] = byCID'[e]
    BY DEF Named
  <2>2. e \in DOMAIN byCID /\ e # c /\ byCID'[e] = byCID[e] BY <1>2, <2>1
  <2>3. b \in DOMAIN byAID /\ byAID[b] = byCID[e] BY <1>0, <2>1, <2>2 DEF Named
  <2>4. b # a
    <3>1. SUFFICES ASSUME b = a PROVE FALSE OBVIOUS
    <3>2. byAID[b] = byCID[c] BY <1>0, <2>1, <3>1 DEF Named, a
    <3>. QED BY <1>0, <2>2, <2>3, <3>2 DEF Placed
  <2>. QED BY <1>3, <2>2, <2>3, <2>4
<1>. QED BY <1>1, <1>4, <1>5, <1>6 DEF Agree

\* An update that changes the account of a record makes both accounts disputed.
LEMMA UpdateAgrees ==
  ASSUME Agree(players, byCID, byAID, disputed), NEW c \in ConnectID,
         NEW a \in AccountID \cup {0}, UpdateUser(c, a)
  PROVE  Agree(players, byCID, byAID, disputed)'
<1> DEFINE r == byCID[c]
           old == players[r].aid
<1>0. /\ Placed(players, byCID, byAID) /\ Filed(players, byCID, byAID, disputed)
      /\ Named(players, byCID, byAID, disputed) /\ c \in DOMAIN byCID
  BY DEF Agree, UpdateUser
<1>1. byCID' = byCID /\ byAID' = byAID BY DEF UpdateUser
<1>2. /\ disputed \subseteq disputed'
      /\ old # a => \A b : b # 0 /\ b \notin disputed' => b \notin {old, a}
  BY DEF UpdateUser
<1>3. players \in Seq(Record) /\ r \in 1 .. Len(players) BY <1>0 DEF Placed
<1>4. /\ players' \in Seq(Record) /\ Len(players') = Len(players)
      /\ players'[r].aid = a
      /\ \A i \in 1 .. Len(players) : i # r => players'[i] = players[i]
  <2>1. [cid |-> c, aid |-> a] \in Record BY DEF Record
  <2>2. players' = [players EXCEPT ![r] = [cid |-> c, aid |-> a]] BY DEF UpdateUser
  <2>. HIDE DEF r
  <2>. QED BY <1>3, <2>1, <2>2
<1>. HIDE DEF r, old
<1>5. \A e \in DOMAIN byCID :
         LET b == players[byCID[e]].aid
             d == players'[byCID[e]].aid
         IN  b = d \/ (b = old /\ d = a /\ old # a)
  <2>1. ASSUME NEW e \in DOMAIN byCID, byCID[e] # r
        PROVE  players'[byCID[e]] = players[byCID[e]]
    BY <1>0, <1>4, <2>1 DEF Placed
  <2>. QED BY <1>4, <2>1 DEF old
<1>6. Placed(players', byCID, byAID) BY <1>0, <1>4 DEF Placed
<1>7. Filed(players', byCID, byAID, disputed')
  <2>1. SUFFICES ASSUME NEW b \in DOMAIN byAID, b \notin disputed'
                 PROVE  \E e \in DOMAIN byCID : byCID[e] = byAID[b] /\ players'[byCID[e]].aid = b
    BY DEF Filed
  <2>2. b # 0 BY <1>0, RecordsAssumption DEF Placed
  <2>3. PICK e \in DOMAIN byCID : byCID[e] = byAID[b] /\ players[byCID[e]].aid = b
    BY <1>0, <1>2, <2>1 DEF Filed
  <2>. QED BY <1>2, <1>5, <2>1, <2>2, <2>3
<1>8. Named(players', byCID, byAID, disputed')
  <2>1. SUFFICES ASSUME NEW e \in DOMAIN byCID, NEW b, b = players'[byCID[e]].aid,
                        b # 0, b \notin disputed'
                 PROVE  b \in DOMAIN byAID /\ byAID[b] = byCID[e]
    BY DEF Named
  <2>2. players[byCID[e]].aid = b BY <1>2, <1>5, <2>1
  <2>. QED BY <1>0, <1>2, <2>1, <2>2 DEF Named
<1>. QED BY <1>1, <1>6, <1>7, <1>8 DEF Agree

-----------------------------------------------------------------------------
\* An AddUser that fails without dispute had nothing to add.
LEMMA AddCounts ==
  ASSUME RecordsInv, NEW c \in ConnectID, NEW a \in AccountID \cup {0}, AddUser(c, a)
  PROVE  Counted'
<1>0. Placed(players, byCID, byAID) /\ Filed(players, byCID, byAID, disputed) /\ Counted
  BY DEF RecordsInv, Agree
<1>1. PICK r, ps : /\ Admit(c, a, r, ps)
                   /\ \/ c \in DOMAIN byCID
                      \/ r = Len(players) + 1
  BY DEF AddUser
<1>2. DOMAIN byCID' = DOMAIN byCID \cup {c} BY <1>1 DEF Admit, With
<1>3. IsFiniteSet(DOMAIN byCID') BY <1>0, <1>2, FS_AddElement DEF Counted
<1>4. CASE ~(a # 0 /\ a \in DOMAIN byAID)
  <2>1. /\ curCount' = Cardinality(DOMAIN byCID')
        /\ maxCount' = IF curCount' > maxCount THEN curCount' ELSE maxCount
    BY <1>1, <1>4 DEF Admit
  <2>2. curCount' \in Nat BY <1>3, <2>1, FS_CardinalityType
  <2>. QED BY <1>0, <1>3, <2>1, <2>2 DEF Counted, UsersCounted
<1>5. CASE a # 0 /\ a \in DOMAIN byAID
  <2>1. curCount' = curCount /\ maxCount' = maxCount BY <1>1, <1>5 DEF Admit
  <2>2. disputed \subseteq disputed' /\ (byAID[a] # r => a \in disputed')
    BY <1>1, <1>5 DEF Admit
  <2>3. ASSUME disputed' = {} PROVE DOMAIN byCID' = DOMAIN byCID
    <3>1. byAID[a] = r BY <2>2, <2>3
    <3>2. r \in 1 .. Len(players) /\ Len(players) \in Nat BY <1>0, <1>5, <3>1 DEF Placed
    <3>3. r # Len(players) + 1 BY <3>2
    <3>4. c \in DOMAIN byCID BY <1>1, <3>3
    <3>. QED BY <1>2, <3>4
  <2>. QED BY <1>0, <1>3, <2>1, <2>2, <2>3 DEF Counted, UsersCounted
<1>. QED BY <1>4, <1>5

LEMMA RemoveCounts ==
  ASSUME RecordsInv, NEW c \in ConnectID, RemoveUser(c)
  PROVE  Counted'
<1>0. Counted BY DEF RecordsInv
<1>1. /\ DOMAIN byCID' = DOMAIN byCID \ {c} /\ c \in DOMAIN byCID
      /\ curCount' = curCount /\ maxCount' = maxCount /\ disputed' = disputed
  BY DEF RemoveUser, Erase, Restrict
<1>2. /\ IsFiniteSet(DOMAIN byCID') /\ Cardinality(DOMAIN byCID') = Cardinality(DOMAIN byCID) - 1
      /\ Cardinality(DOMAIN byCID) \in Nat
  BY <1>0, <1>1, FS_RemoveElement, FS_CardinalityType DEF Counted
<1>. QED BY <1>0, <1>1, <1>2 DEF Counted, UsersCounted

LEMMA UpdateCounts ==
  ASSUME RecordsInv, NEW c \in ConnectID, NEW a \in AccountID \cup {0}, UpdateUser(c, a)
  PROVE  Counted'
<1>0. Counted BY DEF RecordsInv
<1>1. /\ byCID' = byCID /\ curCount' = curCount /\ maxCount' = maxCount
      /\ disputed' = {} => disputed = {}
  BY DEF UpdateUser
<1>. QED BY <1>0, <1>1 DEF Counted, UsersCounted

-----------------------------------------------------------------------------
LEMMA RecordsInitial ==
  ASSUME RecordsInit
  PROVE  RecordsInv
<1>1. /\ players = <<>> /\ DOMAIN byCID = {} /\ DOMAIN byAID = {}
      /\ curCount = 0 /\ maxCount = 0
  BY DEF RecordsInit
<1>2. Agree(players, byCID, byAID, disputed) BY <1>1 DEF Agree, Placed, Filed, Named
<1>3. Counted BY <1>1, FS_EmptySet DEF Counted, UsersCounted
<1>. QED BY <1>2, <1>3 DEF RecordsInv

LEMMA RecordsStep ==
  ASSUME RecordsInv, [RecordsNext]_recordVars
  PROVE  RecordsInv'
<1>0. Agree(players, byCID, byAID, disputed) BY DEF RecordsInv
<1>1. CASE UNCHANGED recordVars
  BY <1>1 DEF recordVars, RecordsInv, Agree, Placed, Filed, Named, Counted, UsersCounted
<1>2. ASSUME NEW c \in ConnectID, RemoveUser(c) PROVE RecordsInv'
  BY <1>0, <1>2, RemoveAgrees, RemoveCounts DEF RecordsInv
<1>3. ASSUME NEW c \in ConnectID, NEW a \in AccountID \cup {0}, AddUser(c, a) PROVE RecordsInv'
  BY <1>0, <1>3, AddAgrees, AddCounts DEF RecordsInv
<1>4. ASSUME NEW c \in ConnectID, NEW a \in AccountID \cup {0}, UpdateUser(c, a) PROVE RecordsInv'
  BY <1>0, <1>4, UpdateAgrees, UpdateCounts DEF RecordsInv
<1>. QED BY <1>1, <1>2, <1>3, <1>4 DEF RecordsNext

THEOREM RecordsInvHolds == RecordsSpec => []RecordsInv
BY RecordsInitial, RecordsStep, PTL DEF RecordsSpec

\* An account that one connection alone has claimed is found exactly while its user is
\* there, and leads to that user's record.
THEOREM UndisputedAccountsFound == RecordsSpec => []AccountsFound
<1>1. ASSUME RecordsInv PROVE AccountsFound
  <2>0. /\ Placed(players, byCID, byAID) /\ Filed(players, byCID, byAID, disputed)
        /\ Named(players, byCID, byAID, disputed)
    BY <1>1 DEF RecordsInv, Agree
  <2> SUFFICES ASSUME NEW a \in AccountID \ disputed
               PROVE  LET users == {c \in DOMAIN byCID : players[byCID[c]].aid = a} IN
                      IF users = {} THEN FindUserByAccountID(a) = 0
                      ELSE /\ Cardinality(users) = 1
                           /\ \A c \in users : FindUserByAccountID(a) = FindUserByConnectID(c)
    BY DEF AccountsFound
  <2> DEFINE users == {c \in DOMAIN byCID : players[byCID[c]].aid = a}
  <2>1. a # 0 BY RecordsAssumption
  <2>2. \A c \in users : a \in DOMAIN byAID /\ byAID[a] = byCID[c]
    BY <2>0, <2>1 DEF Named
  <2>3. CASE users = {}
    <3>1. a \notin DOMAIN byAID BY <2>0, <2>3 DEF Filed
    <3>. QED BY <2>3, <3>1 DEF FindUserByAccountID
  <2>4. CASE users # {}
    <3>1. PICK c \in DOMAIN byCID : c \in users BY <2>4
    <3>2. users = {c} BY <2>0, <2>2, <3>1 DEF Placed
    <3>3. Cardinality(users) = 1 BY <3>2, FS_Singleton
    <3>4. \A e \in users : FindUserByAccountID(a) = FindUserByConnectID(e)
      BY <2>2 DEF FindUserByAccountID, FindUserByConnectID
    <3>. QED BY <2>4, <3>3, <3>4
  <2>. QED BY <2>3, <2>4
<1>. QED BY <1>1, RecordsInvHolds, PTL

\* While no account is disputed the counts of users are not behind.
THEOREM UndisputedUsersCounted == RecordsSpec => []UsersCounted
<1>1. RecordsInv => UsersCounted BY DEF RecordsInv, Counted
<1>. QED BY <1>1, RecordsInvHolds, PTL

-----------------------------------------------------------------------------
(* The orders on their way                                                 *)

WebHears ==
    [type : {"PUSHSVR_AUTH"}, usr : {0}, no : {0}] \cup [type : {"S2W_ORDER"}, usr : Client, no : OrderNo]

WebSays ==
    [type : {"WSCONNECTED", "AUTH_RESULT"}, usr : {0}, no : {0}]
        \cup [type : {"NEWORDERBRD"}, usr : Client, no : OrderNo]

\* While webConID is stale a client is sent orders of others.
ClientHears ==
    [type : {"SVR_READY", "AUTH_ACK", "ORDER_ACK"}, usr : {0}, no : {0}]
        \cup [type : {"S2W_ORDER"}, usr : Client, no : OrderNo]

ClientSays ==
    [type : {"AUTH_SYN", "WRONG_SIZE"} \cup OtherTypes, usr : {0}, no : {0}]
        \cup [type : {"ORDER_SYN"}, usr : {0}, no : OrderNo]

InTypes ==
    /\ DOMAIN in = Ids
    /\ in[WebId] \in Seq(WebSays)
    /\ \A c \in Client : in[c] \in Seq(ClientSays)

OutTypes ==
    /\ DOMAIN out = Ids
    /\ out[WebId] \in Seq(WebHears)
    /\ \A c \in Client : out[c] \in Seq(ClientHears)

PushTypes ==
    /\ DOMAIN phase = Ids /\ directory \subseteq Ids
    /\ accepting = [step |-> accepting.step, id |-> accepting.id] /\ accepting.id \in Client
    /\ InTypes /\ OutTypes

\* Nothing is on its way to or from the web server unless its session is open ...
WebQuiet == phase[WebId] # "open" => in[WebId] = <<>> /\ out[WebId] = <<>>

\* ... and then it is the session that orders are sent to.
WebLinked ==
    /\ phase[WebId] = "open" => WebId \in directory /\ webConID = WebId /\ chunk = 0
    /\ chunk # 0 => phase[WebId] = "gone"

PushInv == PushTypes /\ WebQuiet /\ WebLinked

LEMMA Sessions ==
    /\ Ids \subseteq Nat /\ WebId \in Ids /\ 0 \notin Ids
    /\ Client \subseteq Ids /\ WebId \notin Client
    /\ \A s \in Ids : s # WebId => s \in Client
    /\ FirstId \in Client
BY PushAssumption DEF Ids, FirstId, WebId, Client

-----------------------------------------------------------------------------
(* InTransit, of queues whose messages have numbers                        *)

Types ==
    OtherTypes \cup
      {"PUSHSVR_AUTH", "S2W_ORDER", "WSCONNECTED", "AUTH_RESULT", "NEWORDERBRD", "SVR_READY", "AUTH_ACK",
        "ORDER_ACK", "AUTH_SYN", "WRONG_SIZE", "ORDER_SYN"}

Message == [type : Types, usr : Nat, no : Nat]

Queues == Seq(Message)

LEMMA QueueElement ==
    ASSUME NEW q \in Queues, NEW i \in 1 .. Len(q)
    PROVE  q[i] \in Message /\ q[i].no \in Nat
<1>1. q[i] \in Message BY ElementOfSeq DEF Queues
<1>. QED BY <1>1 DEF Message

Matches(m, type, c) == m.type = type /\ m.usr = c

\* f has the numbers InTransit takes from the first messages of q, up to n of them.
Sifted(f, q, n, type, c) ==
    /\ f[0] = <<>>
    /\ \A i \in 0 .. n : f[i] \in Seq(Nat)
    /\ \A i \in 1 .. n : f[i] = IF Matches(q[i], type, c) THEN Append(f[i - 1], q[i].no) ELSE f[i - 1]

LEMMA Least ==
    ASSUME NEW T \in SUBSET Nat, T # {}
    PROVE  \E x \in T : \A y \in T : x <= y
<1> DEFINE R == OpToRel(<, Nat)
<1>1. IsWellFoundedOn(R, Nat) BY NatLessThanWellFounded
<1>2. \A x, y \in Nat : <<y, x>> \in R <=> y < x BY Zenon DEF OpToRel
<1> HIDE DEF R
<1>3. PICK x \in T : \A y \in T : ~ (<<y, x>> \in R) BY <1>1, WFMin
<1>4. \A y \in T : ~(y < x) BY <1>2, <1>3
<1>5. x \in Nat /\ \A y \in T : y \in Nat OBVIOUS
<1>. QED BY <1>4, <1>5

LEMMA AppendBehind ==
    ASSUME NEW a \in Seq(Nat), NEW b \in Seq(Nat), NEW n \in Nat
    PROVE  Append(a \o b, n) = a \o Append(b, n)
<1>1. PICK e \in Seq(Nat) : e = <<n>>
  <2>1. <<n>> \in Seq(Nat) OBVIOUS
  <2>. QED BY <2>1
<1>2. (a \o b) \o e = a \o (b \o e)
  <2> USE <1>1
  <2>. QED OBVIOUS
<1>3. Append(a \o b, n) = (a \o b) \o e BY <1>1
<1>4. Append(b, n) = b \o e BY <1>1
<1>. QED BY <1>2, <1>3, <1>4

LEMMA SiftExists ==
    ASSUME NEW q \in Queues, NEW type, NEW c, NEW n \in 0 .. Len(q)
    PROVE  \E f : f \in [0 .. n -> Seq(Nat)] /\ Sifted(f, q, n, type, c)
<1>0. Len(q) \in Nat BY DEF Queues
<1> DEFINE Front(f, k) == f \in [0 .. k -> Seq(Nat)] /\ Sifted(f, q, k, type, c)
           T == {k \in 0 .. Len(q) : ~\E f : Front(f, k)}
<1>1. SUFFICES ASSUME T # {} PROVE FALSE OBVIOUS
<1>2. PICK x \in T : \A y \in T : x <= y
  <2>1. T \in SUBSET Nat BY <1>0
  <2> HIDE DEF T
  <2>. QED BY <1>1, <2>1, Least
<1>3. CASE x = 0
  <2>1. Front([i \in 0 .. 0 |-> <<>>], 0) BY DEF Sifted
  <2>. QED BY <1>3, <2>1
<1>4. CASE x # 0
  <2>1. x \in Nat /\ x \in 1 .. Len(q) /\ x - 1 \in 0 .. Len(q) /\ x - 1 \notin T
    <3>1. x \in 0 .. Len(q) BY <1>2
    <3>2. x \in Nat /\ x \in 1 .. Len(q) /\ x - 1 \in 0 .. Len(q) /\ ~(x <= x - 1)
      BY <1>0, <1>4, <3>1
    <3>3. x - 1 \notin T
      <4> HIDE DEF T
      <4>. QED BY <1>2, <3>2
    <3>. QED BY <3>2, <3>3
  <2>2. PICK f : Front(f, x - 1) BY <2>1
  <2>3. f[x - 1] \in Seq(Nat) /\ q[x].no \in Nat
    <3>1. x - 1 \in 0 .. x - 1 BY <2>1
    <3>. QED BY <2>1, <2>2, <3>1, QueueElement DEF Sifted
  <2>4. PICK last \in Seq(Nat) :
          last = IF Matches(q[x], type, c) THEN Append(f[x - 1], q[x].no) ELSE f[x - 1]
    <3>1. Append(f[x - 1], q[x].no) \in Seq(Nat) BY <2>3, AppendProperties
    <3>. QED BY <2>3, <3>1, Zenon
  <2>5. PICK g : g = [i \in 0 .. x |-> IF i = x THEN last ELSE f[i]] OBVIOUS
  <2>6. \A i \in 0 .. x : i # x => i \in 0 .. x - 1 BY <2>1
  <2>7. g \in [0 .. x -> Seq(Nat)] /\ g[0] = <<>>
    BY <1>4, <2>1, <2>2, <2>5, <2>6 DEF Sifted
  <2>8. ASSUME NEW i \in 1 .. x
        PROVE  g[i] = IF Matches(q[i], type, c) THEN Append(g[i - 1], q[i].no) ELSE g[i - 1]
    <3>1. i - 1 \in 0 .. x /\ i - 1 # x /\ i \in 0 .. x BY <2>1
    <3>2. g[i - 1] = f[i - 1] BY <2>5, <3>1
    <3>3. CASE i = x BY <2>4, <2>5, <3>1, <3>2, <3>3
    <3>4. CASE i # x
      <4>1. i \in 1 .. x - 1 BY <2>1, <3>4
      <4>2. g[i] = f[i] BY <2>5, <3>1, <3>4
      <4>. QED BY <2>2, <3>2, <4>1, <4>2 DEF Sifted
    <3>. QED BY <3>3, <3>4
  <2>9. Front(g, x) BY <2>7, <2>8 DEF Sifted
  <2>. QED BY <2>9
<1>. QED BY <1>3, <1>4

LEMMA SiftIs ==
    ASSUME NEW q \in Queues, NEW type, NEW c
    PROVE  \E f : Sifted(f, q, Len(q), type, c) /\ InTransit(q, type, c) = f[Len(q)]
<1> DEFINE Walk(f) == f = [i \in 0 .. Len(q) |->
                              IF i = 0 THEN <<>>
                              ELSE IF q[i].type = type /\ q[i].usr = c THEN Append(f[i - 1], q[i].no)
                              ELSE f[i - 1]]
<1>0. Len(q) \in Nat /\ Len(q) \in 0 .. Len(q) BY DEF Queues
<1>1. PICK f : f \in [0 .. Len(q) -> Seq(Nat)] /\ Sifted(f, q, Len(q), type, c)
  BY <1>0, SiftExists
<1>2. Walk(f)
  <2>1. ASSUME NEW i \in 0 .. Len(q), i # 0
        PROVE  f[i] = IF q[i].type = type /\ q[i].usr = c THEN Append(f[i - 1], q[i].no) ELSE f[i - 1]
    <3>1. i \in 1 .. Len(q) BY <1>0, <2>1
    <3>. QED BY <1>1, <3>1 DEF Sifted, Matches
  <2>. QED BY <1>1, <2>1 DEF Sifted
<1>3. PICK g : g = CHOOSE h : Walk(h) OBVIOUS
<1>4. Walk(g)
  <2> HIDE DEF Walk
  <2>. QED BY <1>2, <1>3
<1>5. InTransit(q, type, c) = g[Len(q)] BY <1>3, Zenon DEF InTransit
<1>6. g[0] = <<>> BY <1>0, <1>4
<1>7. ASSUME NEW i \in 1 .. Len(q)
      PROVE  g[i] = IF Matches(q[i], type, c) THEN Append(g[i - 1], q[i].no) ELSE g[i - 1]
  <2>1. i \in 0 .. Len(q) /\ i # 0 BY <1>0
  <2>. QED BY <1>4, <2>1 DEF Matches
<1>8. DOMAIN g = 0 .. Len(q) BY <1>4
<1>9. ASSUME NEW i \in 0 .. Len(q) PROVE g[i] = f[i]
  <2> DEFINE T == {k \in 0 .. Len(q) : g[k] # f[k]}
  <2>1. SUFFICES ASSUME T # {} PROVE FALSE OBVIOUS
  <2>2. PICK x \in T : \A y \in T : x <= y
    <3>1. T \in SUBSET Nat BY <1>0
    <3> HIDE DEF T
    <3>. QED BY <2>1, <3>1, Least
  <2>3. x # 0 BY <1>1, <1>6, <2>2 DEF Sifted
  <2>4. x \in 1 .. Len(q) /\ x - 1 \in 0 .. Len(q) /\ x - 1 \notin T BY <1>0, <2>2, <2>3
  <2>5. g[x - 1] = f[x - 1] BY <2>4
  <2>6. g[x] = f[x] BY <1>1, <1>7, <2>4, <2>5 DEF Sifted
  <2>. QED BY <2>2, <2>6
<1>10. InTransit(q, type, c) = f[Len(q)] BY <1>0, <1>5, <1>9
<1>. QED BY <1>1, <1>10

\* The k messages of r are those that follow the first d messages of q.
Continued(q, f, d, r, g, k, type, c) ==
    /\ d \in Nat /\ k \in Nat
    /\ Sifted(f, q, d + k, type, c) /\ Sifted(g, r, k, type, c)
    /\ \A j \in 1 .. k : r[j].no \in Nat /\ q[d + j] = r[j]

\* Then they add to the numbers of the d what r has.
Follow(f, d, g, k) == f[d + k] = f[d] \o g[k]

LEMMA SiftShift ==
    ASSUME NEW q, NEW f, NEW d, NEW r, NEW g, NEW k, NEW type, NEW c,
           Continued(q, f, d, r, g, k, type, c)
    PROVE  Follow(f, d, g, k)
<1>. /\ d \in Nat /\ k \in Nat
     /\ Sifted(f, q, d + k, type, c) /\ Sifted(g, r, k, type, c)
     /\ \A j \in 1 .. k : r[j].no \in Nat /\ q[d + j] = r[j]
  BY DEF Continued
<1> DEFINE n == d + k
<1> DEFINE T == {j \in 0 .. k : f[d + j] # f[d] \o g[j]}
<1>0. \A j : j \in T <=> j \in 0 .. k /\ f[d + j] # f[d] \o g[j] BY Zenon
<1> HIDE DEF T
<1>1. SUFFICES ASSUME T # {} PROVE FALSE
  <2>1. k \in 0 .. k OBVIOUS
  <2>. QED BY <1>0, <2>1, Zenon DEF Follow
<1>2. PICK x \in T : \A y \in T : x <= y
  <2>1. 0 .. k \subseteq Nat OBVIOUS
  <2>2. T \in SUBSET Nat BY <1>0, <2>1, Zenon
  <2>. QED BY <1>1, <2>2, Least, Zenon
<1>3. d \in 0 .. n /\ f[d] \in Seq(Nat) BY DEF Sifted
<1>4. x # 0
  <2>1. f[d] \o g[0] = f[d] /\ d + 0 = d BY <1>3 DEF Sifted
  <2>. QED BY <1>0, <1>2, <2>1
<1>5. x \in 1 .. k /\ x - 1 \in 0 .. k /\ x - 1 \notin T
  <2>1. x \in 0 .. k BY <1>0, <1>2, Zenon
  <2>2. x - 1 \notin T
    <3>1. ~(x <= x - 1) BY <2>1
    <3>. QED BY <1>2, <3>1, Zenon
  <2>. QED BY <1>4, <2>1, <2>2
<1>6. f[d + (x - 1)] = f[d] \o g[x - 1] BY <1>0, <1>5, Zenon
<1>7. /\ d + x \in 1 .. n /\ (d + x) - 1 = d + (x - 1)
      /\ r[x].no \in Nat /\ q[d + x] = r[x]
  BY <1>5
<1>8. f[d + x] = IF Matches(r[x], type, c) THEN Append(f[d] \o g[x - 1], r[x].no) ELSE f[d] \o g[x - 1]
  BY <1>6, <1>7 DEF Sifted
<1>9. g[x] = IF Matches(r[x], type, c) THEN Append(g[x - 1], r[x].no) ELSE g[x - 1]
  BY <1>5 DEF Sifted
<1>10. g[x - 1] \in Seq(Nat) /\ r[x].no \in Nat BY <1>5, <1>7 DEF Sifted
<1>11. Append(f[d] \o g[x - 1], r[x].no) = f[d] \o Append(g[x - 1], r[x].no)
  <2>1. PICK a \in Seq(Nat), b \in Seq(Nat), z \in Nat : a = f[d] /\ b = g[x - 1] /\ z = r[x].no
    BY <1>3, <1>10
  <2>2. Append(a \o b, z) = a \o Append(b, z)
    <3> USE <2>1
    <3>. QED BY AppendBehind
  <2>. QED BY <2>1, <2>2
<1>12. f[d + x] = f[d] \o g[x] BY <1>8, <1>9, <1>11
<1>. QED BY <1>0, <1>2, <1>12

LEMMA SiftType ==
    ASSUME NEW q \in Queues, NEW type, NEW c
    PROVE  InTransit(q, type, c) \in Seq(Nat)
<1>1. PICK f : Sifted(f, q, Len(q), type, c) /\ InTransit(q, type, c) = f[Len(q)] BY SiftIs
<1>2. Len(q) \in Nat /\ Len(q) \in 0 .. Len(q) BY DEF Queues
<1>. QED BY <1>1, <1>2 DEF Sifted

LEMMA SiftEmpty ==
    ASSUME NEW type, NEW c
    PROVE  InTransit(<<>>, type, c) = <<>>
<1>1. <<>> \in Queues /\ Len(<<>>) = 0 BY DEF Queues
<1>2. PICK q \in Queues : q = <<>> BY <1>1
<1>3. PICK f : Sifted(f, q, Len(q), type, c) /\ InTransit(q, type, c) = f[Len(q)] BY SiftIs
<1>. QED BY <1>1, <1>2, <1>3 DEF Sifted

\* A message that comes last in a queue adds its number behind.
LEMMA SiftAppend ==
    ASSUME NEW q \in Queues, NEW m \in Message, NEW type, NEW c
    PROVE  InTransit(Append(q, m), type, c) =
              IF Matches(m, type, c) THEN Append(InTransit(q, type, c), m.no) ELSE InTransit(q, type, c)
<1>1. PICK p \in Queues : p = Append(q, m) BY AppendProperties DEF Queues
<1>2. PICK n \in Nat : n = Len(q) BY DEF Queues
<1>3. Len(p) = n + 1 /\ p[n + 1] = m /\ \A j \in 1 .. n : p[0 + j] = q[j]
  BY <1>1, <1>2, AppendProperties DEF Queues
<1>4. PICK f : Sifted(f, p, n + 1, type, c) /\ InTransit(p, type, c) = f[n + 1] BY <1>3, SiftIs
<1>5. PICK g : Sifted(g, q, n, type, c) /\ InTransit(q, type, c) = g[n] BY <1>2, SiftIs
<1>6. \A j \in 1 .. n : q[j].no \in Nat BY <1>2, QueueElement
<1>7. PICK z \in Nat : z = 0 OBVIOUS
<1>8. f[z + n] = f[z] \o g[n]
  <2>1. Sifted(f, p, z + n, type, c)
    <3>1. 0 .. n \subseteq 0 .. n + 1 /\ 1 .. n \subseteq 1 .. n + 1 /\ z + n = n BY <1>7
    <3>. QED BY <1>4, <3>1 DEF Sifted
  <2>2. Continued(p, f, z, q, g, n, type, c) BY <1>3, <1>5, <1>6, <1>7, <2>1 DEF Continued
  <2>3. Follow(f, z, g, n) BY <2>2, SiftShift
  <2>. QED BY <2>3 DEF Follow
<1>9. f[n] = g[n]
  <2>1. n \in 0 .. n /\ z + n = n BY <1>7
  <2>2. g[n] \in Seq(Nat) /\ f[z] = <<>> BY <1>4, <1>5, <1>7, <2>1 DEF Sifted
  <2>. QED BY <1>8, <2>1, <2>2
<1>10. f[n + 1] = IF Matches(m, type, c) THEN Append(g[n], m.no) ELSE g[n]
  <2>1. n + 1 \in 1 .. n + 1 /\ (n + 1) - 1 = n OBVIOUS
  <2>. QED BY <1>3, <1>4, <1>9, <2>1 DEF Sifted
<1>. QED BY <1>1, <1>4, <1>5, <1>10

Before(n, numbers) == <<n>> \o numbers

\* The message that a queue begins with has its number in front.
LEMMA SiftHead ==
    ASSUME NEW q \in Queues, q # <<>>, NEW type, NEW c
    PROVE  InTransit(q, type, c) =
              IF Matches(Head(q), type, c) THEN Before(Head(q).no, InTransit(Tail(q), type, c))
              ELSE InTransit(Tail(q), type, c)
<1>1. PICK p \in Queues : p = Tail(q) BY HeadTailProperties DEF Queues
<1>2. PICK n \in Nat : n = Len(p) BY DEF Queues
<1>3. /\ Len(q) = n + 1 /\ q[1] = Head(q) /\ Head(q) \in Message
      /\ \A j \in 1 .. n : q[1 + j] = p[j]
  <2>1. Len(q) \in Nat /\ Len(p) = Len(q) - 1 /\ Head(q) \in Message
        /\ \A j \in 1 .. Len(p) : p[j] = q[j + 1]
    BY <1>1, HeadTailProperties, LenProperties DEF Queues
  <2>2. q[1] = Head(q) BY DEF Queues
  <2>. QED BY <1>2, <2>1, <2>2
<1>4. PICK f : Sifted(f, q, n + 1, type, c) /\ InTransit(q, type, c) = f[n + 1] BY <1>3, SiftIs
<1>5. PICK g : Sifted(g, p, n, type, c) /\ InTransit(p, type, c) = g[n] BY <1>2, SiftIs
<1>6. \A j \in 1 .. n : p[j].no \in Nat BY <1>2, QueueElement
<1>7. f[1 + n] = f[1] \o g[n]
  <2>1. 1 + n = n + 1 /\ 1 \in Nat OBVIOUS
  <2>2. Continued(q, f, 1, p, g, n, type, c) BY <1>3, <1>4, <1>5, <1>6, <2>1 DEF Continued
  <2>3. Follow(f, 1, g, n) BY <2>2, SiftShift
  <2>. QED BY <2>3 DEF Follow
<1>8. f[1] = IF Matches(Head(q), type, c) THEN <<Head(q).no>> ELSE <<>>
  <2>1. 1 \in 1 .. n + 1 /\ 1 - 1 = 0 OBVIOUS
  <2>2. Append(<<>>, Head(q).no) = <<Head(q).no>> OBVIOUS
  <2>. QED BY <1>3, <1>4, <2>1, <2>2 DEF Sifted
<1>9. g[n] \in Seq(Nat) /\ n + 1 = 1 + n /\ <<>> \o g[n] = g[n]
  <2>1. g[n] \in Seq(Nat) BY <1>5 DEF Sifted
  <2>. QED BY <2>1
<1>. QED BY <1>1, <1>4, <1>5, <1>7, <1>8, <1>9 DEF Before

-----------------------------------------------------------------------------
(* What is on its way, in three parts                                      *)

Way(a, b, c) == a \o b \o c

LEMMA WayType ==
    ASSUME NEW a \in Seq(Nat), NEW b \in Seq(Nat), NEW c \in Seq(Nat)
    PROVE  Way(a, b, c) \in Seq(Nat)
BY DEF Way

LEMMA WayPlaced ==
    ASSUME NEW a \in Seq(Nat), NEW b \in Seq(Nat), NEW c \in Seq(Nat), NEW n \in Nat
    PROVE  Way(a, b, Append(c, n)) = Append(Way(a, b, c), n)
<1>1. PICK f \in Seq(Nat) : f = a \o b
  <2>1. a \o b \in Seq(Nat) OBVIOUS
  <2>. QED BY <2>1
<1>2. Append(f \o c, n) = f \o Append(c, n) BY AppendBehind
<1>. QED BY <1>1, <1>2 DEF Way

\* From one queue into the next.
LEMMA WayMoved ==
    ASSUME NEW a \in Seq(Nat), NEW b \in Seq(Nat), NEW c \in Seq(Nat), NEW n \in Nat
    PROVE  /\ Way(a, Append(b, n), c) = Way(a, b, Before(n, c))
           /\ Way(Append(a, n), b, c) = Way(a, Before(n, b), c)
<1>1. PICK e \in Seq(Nat) : e = <<n>>
  <2>1. <<n>> \in Seq(Nat) OBVIOUS
  <2>. QED BY <2>1
<1>2. PICK f \in Seq(Nat) : f = a \o b
  <2>1. a \o b \in Seq(Nat) OBVIOUS
  <2>. QED BY <2>1
<1>3. (a \o b) \o e = a \o (b \o e) BY SMTT(20)
<1>4. (f \o e) \o c = f \o (e \o c) BY SMTT(20)
<1>5. (a \o e) \o b = a \o (e \o b) BY SMTT(20)
<1>6. Append(b, n) = b \o e BY <1>1
<1>7. Append(a, n) = a \o e BY <1>1
<1>. QED BY <1>1, <1>2, <1>3, <1>4, <1>5, <1>6, <1>7 DEF Way, Before

LEMMA WayTaken ==
    ASSUME NEW a \in Seq(Nat), NEW b \in Seq(Nat), NEW c \in Seq(Nat), NEW n \in Nat
    PROVE  /\ Way(Before(n, a), b, c) # <<>>
           /\ Tail(Way(Before(n, a), b, c)) = Way(a, b, c)
<1>1. PICK e \in Seq(Nat) : e = <<n>>
  <2>1. <<n>> \in Seq(Nat) OBVIOUS
  <2>. QED BY <2>1
<1>2. (e \o a) \o b = e \o (a \o b) BY SMTT(20)
<1>3. PICK f \in Seq(Nat) : f = a \o b
  <2>1. a \o b \in Seq(Nat) OBVIOUS
  <2>. QED BY <2>1
<1>4. (e \o f) \o c = e \o (f \o c) BY SMTT(20)
<1>5. PICK g \in Seq(Nat) : g = f \o c
  <2>1. f \o c \in Seq(Nat) OBVIOUS
  <2>. QED BY <2>1
<1>6. <<n>> \o g # <<>> /\ Tail(<<n>> \o g) = g BY SMTT(20)
<1>. QED BY <1>1, <1>2, <1>3, <1>4, <1>5, <1>6 DEF Way, Before

\* Nothing is ahead of the order at the server.
LEMMA WayLost ==
    ASSUME NEW c \in Seq(Nat), NEW n \in Nat
    PROVE  /\ Way(<<>>, <<>>, Before(n, c)) # <<>>
           /\ Tail(Way(<<>>, <<>>, Before(n, c))) = Way(<<>>, <<>>, c)
<1>1. PICK d \in Seq(Nat) : d = <<n>> \o c
  <2>1. <<n>> \o c \in Seq(Nat) OBVIOUS
  <2>. QED BY <2>1
<1>2. <<>> \o <<>> \o d = d /\ <<>> \o <<>> \o c = c OBVIOUS
<1>3. <<n>> \o c # <<>> /\ Tail(<<n>> \o c) = c BY SMTT(20)
<1>. QED BY <1>1, <1>2, <1>3 DEF Way, Before

-----------------------------------------------------------------------------
(* What a step does to the queues                                          *)

\* w and v are the queues of all sessions, before and after: m comes last in that of s.
Adds(w, v, s, m) ==
    \A q \in Ids : \A type, u :
        InTransit(v[q], type, u) =
            IF q = s /\ Matches(m, type, u) THEN Append(InTransit(w[q], type, u), m.no)
            ELSE InTransit(w[q], type, u)

\* The first message of s, which is m, is taken.
Takes(w, v, s, m) ==
    \A q \in Ids : \A type, u :
        InTransit(w[q], type, u) =
            IF q = s /\ Matches(m, type, u) THEN Before(m.no, InTransit(v[q], type, u))
            ELSE InTransit(v[q], type, u)

LEMMA QueueAdds ==
    ASSUME NEW w, DOMAIN w = Ids, NEW s \in Ids, w[s] \in Queues, NEW m \in Message
    PROVE  Adds(w, [w EXCEPT ![s] = Append(@, m)], s, m)
<1> DEFINE v == [w EXCEPT ![s] = Append(@, m)]
<1>1. v[s] = Append(w[s], m) /\ \A q \in Ids : q # s => v[q] = w[q] OBVIOUS
<1> HIDE DEF v
<1>2. ASSUME NEW type, NEW u
      PROVE  InTransit(v[s], type, u) = IF Matches(m, type, u) THEN Append(InTransit(w[s], type, u), m.no)
                                        ELSE InTransit(w[s], type, u)
  <2>1. PICK q \in Queues : q = w[s] OBVIOUS
  <2>2. InTransit(Append(q, m), type, u) =
            IF Matches(m, type, u) THEN Append(InTransit(q, type, u), m.no) ELSE InTransit(q, type, u)
    BY <2>1, SiftAppend
  <2>. QED BY <1>1, <2>1, <2>2
<1>3. Adds(w, v, s, m) BY <1>1, <1>2 DEF Adds
<1>. QED BY <1>3 DEF v

LEMMA QueueTakes ==
    ASSUME NEW w, DOMAIN w = Ids, NEW s \in Ids, w[s] \in Queues, w[s] # <<>>
    PROVE  Takes(w, [w EXCEPT ![s] = Tail(@)], s, Head(w[s]))
<1> DEFINE v == [w EXCEPT ![s] = Tail(@)]
<1>1. v[s] = Tail(w[s]) /\ \A q \in Ids : q # s => v[q] = w[q] OBVIOUS
<1> HIDE DEF v
<1>2. PICK m : m = Head(w[s]) OBVIOUS
<1>3. ASSUME NEW type, NEW u
      PROVE  InTransit(w[s], type, u) = IF Matches(m, type, u) THEN Before(m.no, InTransit(v[s], type, u))
                                        ELSE InTransit(v[s], type, u)
  <2>1. PICK q \in Queues : q = w[s] OBVIOUS
  <2>2. InTransit(q, type, u) =
            IF Matches(Head(q), type, u) THEN Before(Head(q).no, InTransit(Tail(q), type, u))
            ELSE InTransit(Tail(q), type, u)
    BY <2>1, SiftHead
  <2>. QED BY <1>1, <1>2, <2>1, <2>2
<1>4. Takes(w, v, s, m) BY <1>1, <1>3 DEF Takes
<1>. QED BY <1>2, <1>4 DEF v

-----------------------------------------------------------------------------
(* The invariant                                                           *)

LEMMA MessageSets ==
    /\ WebHears \subseteq Message /\ WebSays \subseteq Message
    /\ ClientHears \subseteq Message /\ ClientSays \subseteq Message
    /\ Msg("PUSHSVR_AUTH") \in WebHears
    /\ Msg("WSCONNECTED") \in WebSays /\ Msg("AUTH_RESULT") \in WebSays
    /\ \A type \in {"SVR_READY", "AUTH_ACK", "ORDER_ACK"} : Msg(type) \in ClientHears
    /\ \A type \in {"AUTH_SYN", "WRONG_SIZE"} \cup OtherTypes : Msg(type) \in ClientSays
    /\ \A n \in OrderNo : OrderMsg("ORDER_SYN", 0, n) \in ClientSays
    /\ \A c \in Client : \A n \in OrderNo :
          /\ OrderMsg("S2W_ORDER", c, n) \in WebHears \cap ClientHears
          /\ OrderMsg("NEWORDERBRD", c, n) \in WebSays
<1>1. Client \subseteq Nat /\ OrderNo \subseteq Nat /\ 0 \in Nat BY Sessions, PushAssumption
<1>2. WebHears \subseteq Message
  <2>1. [type : {"PUSHSVR_AUTH"}, usr : {0}, no : {0}] \subseteq Message BY <1>1 DEF Message, Types
  <2>2. [type : {"S2W_ORDER"}, usr : Client, no : OrderNo] \subseteq Message BY <1>1 DEF Message, Types
  <2>. QED BY <2>1, <2>2 DEF WebHears
<1>3. WebSays \subseteq Message
  <2>1. [type : {"WSCONNECTED", "AUTH_RESULT"}, usr : {0}, no : {0}] \subseteq Message BY <1>1 DEF Message, Types
  <2>2. [type : {"NEWORDERBRD"}, usr : Client, no : OrderNo] \subseteq Message BY <1>1 DEF Message, Types
  <2>. QED BY <2>1, <2>2 DEF WebSays
<1>4. ClientHears \subseteq Message
  <2>1. [type : {"SVR_READY", "AUTH_ACK", "ORDER_ACK"}, usr : {0}, no : {0}] \subseteq Message BY <1>1 DEF Message, Types
  <2>2. [type : {"S2W_ORDER"}, usr : Client, no : OrderNo] \subseteq Message BY <1>1 DEF Message, Types
  <2>. QED BY <2>1, <2>2 DEF ClientHears
<1>5. ClientSays \subseteq Message
  <2>1. [type : {"AUTH_SYN", "WRONG_SIZE"} \cup OtherTypes, usr : {0}, no : {0}] \subseteq Message BY <1>1 DEF Message, Types
  <2>2. [type : {"ORDER_SYN"}, usr : {0}, no : OrderNo] \subseteq Message BY <1>1 DEF Message, Types
  <2>. QED BY <2>1, <2>2 DEF ClientSays
<1>6. /\ Msg("PUSHSVR_AUTH") \in WebHears
      /\ Msg("WSCONNECTED") \in WebSays /\ Msg("AUTH_RESULT") \in WebSays
      /\ \A type \in {"SVR_READY", "AUTH_ACK", "ORDER_ACK"} : Msg(type) \in ClientHears
      /\ \A type \in {"AUTH_SYN", "WRONG_SIZE"} \cup OtherTypes : Msg(type) \in ClientSays
  BY DEF Msg, WebHears, WebSays, ClientHears, ClientSays
<1>7. \A n \in OrderNo : OrderMsg("ORDER_SYN", 0, n) \in ClientSays
  BY DEF OrderMsg, ClientSays
<1>8. \A c \in Client : \A n \in OrderNo :
          /\ OrderMsg("S2W_ORDER", c, n) \in WebHears \cap ClientHears
          /\ OrderMsg("NEWORDERBRD", c, n) \in WebSays
  BY DEF OrderMsg, WebHears, ClientHears, WebSays
<1>. QED BY <1>2, <1>3, <1>4, <1>5, <1>6, <1>7, <1>8

LEMMA QueuesTyped ==
    ASSUME InTypes, OutTypes, NEW s \in Ids
    PROVE  in[s] \in Queues /\ out[s] \in Queues
<1>1. CASE s = WebId
  <2>1. in[s] \in Seq(WebSays) /\ out[s] \in Seq(WebHears) BY <1>1 DEF InTypes, OutTypes
  <2>2. WebSays \subseteq Message /\ WebHears \subseteq Message BY MessageSets
  <2>. QED BY <2>1, <2>2, SeqMonotonic DEF Queues
<1>2. CASE s # WebId
  <2>1. in[s] \in Seq(ClientSays) /\ out[s] \in Seq(ClientHears)
    BY <1>2, Sessions DEF InTypes, OutTypes
  <2>2. ClientSays \subseteq Message /\ ClientHears \subseteq Message BY MessageSets
  <2>. QED BY <2>1, <2>2, SeqMonotonic DEF Queues
<1>. QED BY <1>1, <1>2

\* What is sent to the web server is sent while its session is open.
LEMMA SendTyped ==
    ASSUME OutTypes, NEW s, NEW m, Send(s, m), directory \subseteq Ids,
           s = WebId => m \in WebHears, s \in Client => m \in ClientHears
    PROVE  OutTypes' /\ (phase[WebId] # "open" => out'[WebId] = out[WebId])
<1>1. CASE ~Reaches(s) BY <1>1 DEF Send, OutTypes
<1>2. CASE Reaches(s)
  <2>1. s \in Ids /\ phase[s] = "open" BY <1>2 DEF Reaches
  <2>2. /\ DOMAIN out' = Ids /\ out'[s] = Append(out[s], m)
        /\ \A q \in Ids : q # s => out'[q] = out[q]
    BY <1>2, <2>1 DEF Send, OutTypes
  <2>3. CASE s = WebId
    <3>1. Append(out[s], m) \in Seq(WebHears) BY <2>3, AppendProperties DEF OutTypes
    <3>. QED BY <2>1, <2>2, <2>3, <3>1, Sessions DEF OutTypes
  <2>4. CASE s # WebId
    <3>1. Append(out[s], m) \in Seq(ClientHears) BY <2>1, <2>4, Sessions, AppendProperties DEF OutTypes
    <3>. QED BY <2>1, <2>2, <2>4, <3>1, Sessions DEF OutTypes
  <2>. QED BY <2>3, <2>4
<1>. QED BY <1>1, <1>2

LEMMA ReadsTyped ==
    ASSUME InTypes, NEW s \in Ids, Reads(s)
    PROVE  InTypes' /\ (phase[WebId] # "open" => in'[WebId] = in[WebId])
<1>1. /\ DOMAIN in' = Ids /\ in'[s] = Tail(in[s]) /\ in[s] # <<>> /\ phase[s] = "open"
      /\ \A q \in Ids : q # s => in'[q] = in[q]
  BY DEF Reads, InTypes
<1>2. CASE s = WebId
  <2>1. Tail(in[s]) \in Seq(WebSays) BY <1>1, <1>2, HeadTailProperties DEF InTypes
  <2>. QED BY <1>1, <1>2, <2>1, Sessions DEF InTypes
<1>3. CASE s # WebId
  <2>1. Tail(in[s]) \in Seq(ClientSays) BY <1>1, <1>3, Sessions, HeadTailProperties DEF InTypes
  <2>. QED BY <1>1, <1>3, <2>1, Sessions DEF InTypes
<1>. QED BY <1>2, <1>3

\* A message from the peer of s.
LEMMA ArrivesTyped ==
    ASSUME InTypes, NEW s \in Ids, NEW m, in' = [in EXCEPT ![s] = Append(@, m)],
           s = WebId => m \in WebSays, s # WebId => m \in ClientSays
    PROVE  InTypes' /\ (s # WebId => in'[WebId] = in[WebId])
<1>1. /\ DOMAIN in' = Ids /\ in'[s] = Append(in[s], m)
      /\ \A q \in Ids : q # s => in'[q] = in[q]
  BY DEF InTypes
<1>2. CASE s = WebId
  <2>1. Append(in[s], m) \in Seq(WebSays) BY <1>2, AppendProperties DEF InTypes
  <2>. QED BY <1>1, <1>2, <2>1, Sessions DEF InTypes
<1>3. CASE s # WebId
  <2>1. Append(in[s], m) \in Seq(ClientSays) BY <1>3, Sessions, AppendProperties DEF InTypes
  <2>. QED BY <1>1, <1>3, <2>1, Sessions DEF InTypes
<1>. QED BY <1>2, <1>3

\* The message a handler reads is one that the peer of its session sends.
LEMMA HeadTyped ==
    ASSUME InTypes, NEW s \in Ids, in[s] # <<>>
    PROVE  /\ s = WebId => Head(in[s]) \in WebSays
           /\ s # WebId => Head(in[s]) \in ClientSays
<1>1. CASE s = WebId BY <1>1, HeadTailProperties DEF InTypes
<1>2. CASE s # WebId BY <1>2, Sessions, HeadTailProperties DEF InTypes
<1>. QED BY <1>1, <1>2

LEMMA PushInvInit == Init => PushInv
<1> SUFFICES ASSUME Init PROVE PushInv OBVIOUS
<1>1. FirstId \in Client /\ WebId \in Ids /\ Client \subseteq Ids /\ Ids = Lifecycle!Ids
  BY Sessions DEF Ids, Lifecycle!Ids
<1>2. DOMAIN phase = Ids /\ directory = {} /\ phase[WebId] # "open"
  BY <1>1 DEF Init, Lifecycle!LifecycleInit, WebId, FirstId
<1>3. accepting = [step |-> accepting.step, id |-> accepting.id] /\ accepting.id \in Client
  BY <1>1 DEF Init
<1>4. InTypes /\ OutTypes /\ in[WebId] = <<>> /\ out[WebId] = <<>> BY <1>1 DEF Init, InTypes, OutTypes
<1>5. chunk = 0 BY DEF Init
<1>. QED BY <1>2, <1>3, <1>4, <1>5 DEF PushInv, PushTypes, WebQuiet, WebLinked

\* The sessions of clients come and go, and the connection to the web server stays.
LEMMA ClientMoves ==
    ASSUME PushInv, UNCHANGED <<in, out>>,
           DOMAIN phase' = Ids, phase'[WebId] = phase[WebId],
           directory' \in SUBSET Ids, directory \cap {WebId} \subseteq directory',
           accepting' = [step |-> accepting'.step, id |-> accepting'.id], accepting'.id \in Client,
           webConID' = webConID, chunk = 0 => chunk' = 0
    PROVE  PushInv'
BY DEF PushInv, PushTypes, InTypes, OutTypes, WebQuiet, WebLinked

\* Messages come and go, and no session does.
LEMMA MessagesMove ==
    ASSUME PushInv, UNCHANGED <<phase, directory, webConID, chunk>>,
           accepting' = [step |-> accepting'.step, id |-> accepting'.id], accepting'.id = accepting.id,
           InTypes', OutTypes',
           phase[WebId] # "open" => in'[WebId] = in[WebId] /\ out'[WebId] = out[WebId]
    PROVE  PushInv'
BY DEF PushInv, PushTypes, WebQuiet, WebLinked

LEMMA AcceptingInv == PushInv /\ Accepting => PushInv'
<1> SUFFICES ASSUME PushInv, Accepting PROVE PushInv' OBVIOUS
<1>0. /\ DOMAIN phase = Ids /\ directory \subseteq Ids
      /\ accepting = [step |-> accepting.step, id |-> accepting.id] /\ accepting.id \in Client
      /\ InTypes /\ OutTypes
  BY DEF PushInv, PushTypes
<1>1. accepting.id \in Ids /\ accepting.id # WebId BY <1>0, Sessions
<1>2. CASE AcceptClient
  <2>1. /\ DOMAIN phase' = Ids /\ phase'[WebId] = phase[WebId]
        /\ directory' = directory \cup {accepting.id}
    BY <1>0, <1>1, <1>2, Sessions DEF AcceptClient, Lifecycle!Open, Lifecycle!Move
  <2>2. UNCHANGED <<in, out, webConID, chunk>> /\ accepting' = [accepting EXCEPT !.step = "on_accept"]
    BY <1>2 DEF AcceptClient
  <2>3. accepting' = [step |-> accepting'.step, id |-> accepting'.id] /\ accepting'.id \in Client
    BY <1>0, <2>2
  <2>. QED BY <1>0, <1>1, <2>1, <2>2, <2>3, ClientMoves
<1>3. CASE AcceptPeerGone
  <2>1. DOMAIN phase' = Ids /\ phase'[WebId] = phase[WebId] /\ directory' = directory
    BY <1>0, <1>1, <1>3, Sessions DEF AcceptPeerGone, Lifecycle!Shut, Lifecycle!Move
  <2>2. UNCHANGED <<in, out, webConID, chunk>> /\ accepting' = [accepting EXCEPT !.step = "reaccept"]
    BY <1>3 DEF AcceptPeerGone
  <2>3. accepting' = [step |-> accepting'.step, id |-> accepting'.id] /\ accepting'.id \in Client
    BY <1>0, <2>2
  <2>. QED BY <1>0, <2>1, <2>2, <2>3, ClientMoves
<1>4. CASE AcceptFails
  <2>1. DOMAIN phase' = Ids /\ phase'[WebId] = phase[WebId] /\ directory' = directory
    BY <1>0, <1>1, <1>4, Sessions DEF AcceptFails, Lifecycle!Abandon, Lifecycle!Move
  <2>2. UNCHANGED <<in, out, webConID, chunk>> /\ accepting' = [accepting EXCEPT !.step = "stopped"]
    BY <1>4 DEF AcceptFails
  <2>3. accepting' = [step |-> accepting'.step, id |-> accepting'.id] /\ accepting'.id \in Client
    BY <1>0, <2>2
  <2>. QED BY <1>0, <2>1, <2>2, <2>3, ClientMoves
<1>5. CASE OnAccept
  <2>1. /\ Send(accepting.id, Msg("SVR_READY")) /\ UNCHANGED <<phase, directory, webConID, chunk, in>>
        /\ accepting' = [accepting EXCEPT !.step = "reaccept"]
    BY <1>5 DEF OnAccept, sessions
  <2>2. OutTypes' /\ (phase[WebId] # "open" => out'[WebId] = out[WebId])
    BY <1>0, <1>1, <2>1, MessageSets, SendTyped
  <2>3. InTypes' /\ in'[WebId] = in[WebId] BY <1>0, <2>1 DEF InTypes
  <2>4. accepting' = [step |-> accepting'.step, id |-> accepting'.id] /\ accepting'.id = accepting.id
    BY <1>0, <2>1
  <2>. QED BY <2>1, <2>2, <2>3, <2>4, MessagesMove
<1>6. CASE Reaccept
  <2>1. PICK c \in Client : /\ Lifecycle!Create(c) /\ accepting' = [step |-> "wait", id |-> c]
                            /\ chunk' \in IF chunk = 0 THEN {0} ELSE {chunk, c}
    BY <1>6 DEF Reaccept
  <2>2. DOMAIN phase' = Ids /\ phase'[WebId] = phase[WebId] /\ directory' = directory
    BY <1>0, <2>1, Sessions DEF Lifecycle!Create, Lifecycle!Move
  <2>3. UNCHANGED <<in, out, webConID>> BY <1>6 DEF Reaccept
  <2>4. accepting' = [step |-> accepting'.step, id |-> accepting'.id] /\ accepting'.id \in Client
    BY <2>1
  <2>. QED BY <1>0, <2>1, <2>2, <2>3, <2>4, ClientMoves
<1>. QED BY <1>2, <1>3, <1>4, <1>5, <1>6 DEF Accepting

LEMMA ConnectingInv == PushInv /\ Connecting => PushInv'
<1> SUFFICES ASSUME PushInv, Connecting PROVE PushInv' OBVIOUS
<1>0. DOMAIN phase = Ids /\ directory \subseteq Ids /\ WebId \in Ids
  BY Sessions DEF PushInv, PushTypes
<1>1. UNCHANGED <<in, out, accepting>>
  BY DEF Connecting, Connect, ConnectFails, OnConnectError
<1>2. CASE Connect
  <2>1. /\ phase[WebId] = "pending" /\ DOMAIN phase' = Ids /\ phase'[WebId] = "open"
        /\ directory' = directory \cup {WebId} /\ webConID' = WebId /\ chunk' = chunk
    BY <1>0, <1>2 DEF Connect, Lifecycle!Open, Lifecycle!Move
  <2>. QED BY <1>0, <1>1, <2>1 DEF PushInv, PushTypes, InTypes, OutTypes, WebQuiet, WebLinked
<1>3. CASE ConnectFails
  <2>1. /\ phase[WebId] = "pending" /\ DOMAIN phase' = Ids /\ phase'[WebId] = "gone"
        /\ directory' = directory
    BY <1>0, <1>3 DEF ConnectFails, Lifecycle!Abandon, Lifecycle!Move
  <2>. QED BY <1>0, <1>1, <2>1 DEF PushInv, PushTypes, InTypes, OutTypes, WebQuiet, WebLinked
<1>4. CASE OnConnectError
  <2>1. UNCHANGED <<phase, directory>> /\ chunk # 0 /\ chunk' = 0
    BY <1>4 DEF OnConnectError, sessions
  <2>. QED BY <1>0, <1>1, <2>1 DEF PushInv, PushTypes, InTypes, OutTypes, WebQuiet, WebLinked
<1>. QED BY <1>2, <1>3, <1>4 DEF Connecting

LEMMA ServerOfClientInv ==
    ASSUME PushInv, NEW c \in Client, ServerOfClient(c)
    PROVE  PushInv'
<1>0. /\ DOMAIN phase = Ids /\ directory \subseteq Ids
      /\ accepting = [step |-> accepting.step, id |-> accepting.id] /\ accepting.id \in Client
      /\ InTypes /\ OutTypes /\ c \in Ids /\ c # WebId
  BY Sessions DEF PushInv, PushTypes
<1>1. CASE AuthSyn(c) \/ TestOrderSyn(c) \/ KickUser(c) \/ Unhandled(c)
  <2>1. Reads(c) /\ UNCHANGED <<phase, directory, webConID, chunk, accepting>>
    BY <1>1 DEF AuthSyn, TestOrderSyn, KickUser, Unhandled, Receives, sessions
  <2>2. InTypes' /\ (phase[WebId] # "open" => in'[WebId] = in[WebId]) BY <1>0, <2>1, ReadsTyped
  <2>3. OutTypes' /\ (phase[WebId] # "open" => out'[WebId] = out[WebId])
    <3>1. CASE AuthSyn(c)
      <4>1. Send(c, Msg("AUTH_ACK")) BY <3>1 DEF AuthSyn
      <4>. QED BY <1>0, <4>1, MessageSets, SendTyped
    <3>2. CASE TestOrderSyn(c)
      <4>1. PICK m : m = Head(in[c]) OBVIOUS
      <4>2. Send(webConID, OrderMsg("S2W_ORDER", c, m.no)) /\ m.type = "ORDER_SYN" /\ in[c] # <<>>
        BY <3>2, <4>1 DEF TestOrderSyn, Receives, Reads
      <4>3. m \in ClientSays BY <1>0, <4>1, <4>2, HeadTyped
      <4>4. m.no \in OrderNo BY <4>2, <4>3, PushAssumption DEF ClientSays
      <4>5. OrderMsg("S2W_ORDER", c, m.no) \in WebHears \cap ClientHears BY <4>4, MessageSets
      <4>. QED BY <1>0, <4>2, <4>5, SendTyped
    <3>3. CASE KickUser(c) \/ Unhandled(c)
      <4>1. out' = out BY <3>3 DEF KickUser, Unhandled
      <4>. QED BY <1>0, <4>1 DEF OutTypes
    <3>. QED BY <1>1, <3>1, <3>2, <3>3
  <2>4. accepting' = [step |-> accepting'.step, id |-> accepting'.id] /\ accepting'.id = accepting.id
    BY <1>0, <2>1
  <2>. QED BY <2>1, <2>2, <2>3, <2>4, MessagesMove
<1>2. CASE ExitUser(c) \/ ExitWithdraw(c) \/ ExitDestroy(c)
  <2>1. UNCHANGED <<in, out, accepting, webConID, chunk>>
    BY <1>2 DEF ExitUser, ExitWithdraw, ExitDestroy
  <2>2. /\ DOMAIN phase' = Ids /\ phase'[WebId] = phase[WebId]
        /\ directory' = directory \/ directory' = directory \ {c}
    BY <1>0, <1>2, Sessions
    DEF ExitUser, ExitWithdraw, ExitDestroy, Lifecycle!Shut, Lifecycle!Withdraw, Lifecycle!Free, Lifecycle!Move
  <2>3. directory' \in SUBSET Ids /\ directory \cap {WebId} \subseteq directory' BY <1>0, <2>2
  <2>4. accepting' = [step |-> accepting'.step, id |-> accepting'.id] /\ accepting'.id \in Client
    BY <1>0, <2>1
  <2>. QED BY <2>1, <2>2, <2>3, <2>4, ClientMoves
<1>. QED BY <1>1, <1>2 DEF ServerOfClient

LEMMA ServerOfWebInv == PushInv /\ ServerOfWeb => PushInv'
<1> SUFFICES ASSUME PushInv, ServerOfWeb PROVE PushInv' OBVIOUS
<1>0. /\ directory \subseteq Ids /\ InTypes /\ OutTypes /\ WebId \in Ids
      /\ accepting = [step |-> accepting.step, id |-> accepting.id]
  BY Sessions DEF PushInv, PushTypes
<1>1. Reads(WebId) /\ UNCHANGED <<phase, directory, webConID, chunk, accepting>>
  BY DEF ServerOfWeb, WsConnected, AuthResult, NewOrderBrd, Receives, sessions
<1>2. InTypes' /\ (phase[WebId] # "open" => in'[WebId] = in[WebId]) BY <1>0, <1>1, ReadsTyped
<1>3. OutTypes' /\ (phase[WebId] # "open" => out'[WebId] = out[WebId])
  <2>1. CASE WsConnected
    <3>1. Send(WebId, Msg("PUSHSVR_AUTH")) BY <2>1 DEF WsConnected
    <3>. QED BY <1>0, <3>1, MessageSets, SendTyped, Sessions
  <2>2. CASE AuthResult
    <3>1. out' = out BY <2>2 DEF AuthResult
    <3>. QED BY <1>0, <3>1 DEF OutTypes
  <2>3. CASE NewOrderBrd
    <3>1. PICK m : m = Head(in[WebId]) OBVIOUS
    <3>2. Send(m.usr, Msg("ORDER_ACK")) /\ m.type = "NEWORDERBRD" /\ in[WebId] # <<>>
      BY <2>3, <3>1 DEF NewOrderBrd, Receives, Reads
    <3>3. m \in WebSays BY <1>0, <3>1, <3>2, HeadTyped
    <3>4. m.usr \in Client BY <3>2, <3>3 DEF WebSays
    <3>5. m.usr # WebId BY <3>4, Sessions
    <3>. QED BY <1>0, <3>2, <3>5, MessageSets, SendTyped
  <2>. QED BY <2>1, <2>2, <2>3 DEF ServerOfWeb
<1>4. accepting' = [step |-> accepting'.step, id |-> accepting'.id] /\ accepting'.id = accepting.id
  BY <1>0, <1>1
<1>. QED BY <1>1, <1>2, <1>3, <1>4, MessagesMove

LEMMA PeersInv ==
    ASSUME PushInv, WebAccepts \/ WebHandles \/ WebDies \/ \E c \in Client : ClientSends(c)
    PROVE  PushInv'
<1>0. /\ directory \subseteq Ids /\ InTypes /\ OutTypes /\ WebId \in Ids
      /\ accepting = [step |-> accepting.step, id |-> accepting.id] /\ WebQuiet
  BY Sessions DEF PushInv, PushTypes
<1>1. UNCHANGED <<phase, directory, webConID, chunk, accepting>>
  BY DEF WebAccepts, WebHandles, WebDies, ClientSends, sessions
<1>2. accepting' = [step |-> accepting'.step, id |-> accepting'.id] /\ accepting'.id = accepting.id
  BY <1>0, <1>1
<1>3. CASE WebAccepts
  <2>1. /\ in' = [in EXCEPT ![WebId] = Append(@, Msg("WSCONNECTED"))] /\ out' = out
        /\ phase[WebId] = "open"
    BY <1>3 DEF WebAccepts
  <2>2. InTypes' BY <1>0, <2>1, MessageSets, ArrivesTyped
  <2>3. OutTypes' BY <1>0, <2>1 DEF OutTypes
  <2>. QED BY <1>1, <1>2, <2>1, <2>2, <2>3, MessagesMove
<1>4. CASE WebHandles
  <2>1. PICK m : m = IF Head(out[WebId]).type = "PUSHSVR_AUTH" THEN Msg("AUTH_RESULT")
                     ELSE OrderMsg("NEWORDERBRD", Head(out[WebId]).usr, Head(out[WebId]).no)
    OBVIOUS
  <2>2. /\ in' = [in EXCEPT ![WebId] = Append(@, m)]
        /\ out' = [out EXCEPT ![WebId] = Tail(@)] /\ out[WebId] # <<>>
    BY <1>4, <2>1 DEF WebHandles
  <2>3. phase[WebId] = "open" BY <1>0, <2>2 DEF WebQuiet
  <2>4. Head(out[WebId]) \in WebHears /\ Tail(out[WebId]) \in Seq(WebHears)
    BY <1>0, <2>2, HeadTailProperties DEF OutTypes
  <2>5. m \in WebSays
    <3>1. CASE Head(out[WebId]).type = "PUSHSVR_AUTH" BY <2>1, <3>1, MessageSets
    <3>2. CASE Head(out[WebId]).type # "PUSHSVR_AUTH"
      <4>1. Head(out[WebId]).usr \in Client /\ Head(out[WebId]).no \in OrderNo
        BY <2>4, <3>2 DEF WebHears
      <4>. QED BY <2>1, <3>2, <4>1, MessageSets
    <3>. QED BY <3>1, <3>2
  <2>6. InTypes' BY <1>0, <2>2, <2>5, ArrivesTyped
  <2>7. OutTypes' BY <1>0, <2>2, <2>4, Sessions DEF OutTypes
  <2>. QED BY <1>1, <1>2, <2>3, <2>6, <2>7, MessagesMove
<1>5. CASE WebDies
  <2>1. in' = in /\ out' = out BY <1>5 DEF WebDies
  <2>. QED BY <1>0, <1>1, <1>2, <2>1, MessagesMove DEF InTypes, OutTypes
<1>6. ASSUME NEW c \in Client, ClientSends(c) PROVE PushInv'
  <2>1. /\ out' = out
        /\ \/ \E type \in {"AUTH_SYN", "WRONG_SIZE"} \cup OtherTypes :
                 in' = [in EXCEPT ![c] = Append(@, Msg(type))]
           \/ \E n \in OrderNo : in' = [in EXCEPT ![c] = Append(@, OrderMsg("ORDER_SYN", 0, n))]
    BY <1>6 DEF ClientSends
  <2>2. PICK m \in ClientSays : in' = [in EXCEPT ![c] = Append(@, m)] BY <2>1, MessageSets
  <2>3. c \in Ids /\ c # WebId BY Sessions
  <2>4. InTypes' /\ in'[WebId] = in[WebId] BY <1>0, <2>2, <2>3, ArrivesTyped
  <2>5. OutTypes' BY <1>0, <2>1 DEF OutTypes
  <2>. QED BY <1>1, <1>2, <2>1, <2>4, <2>5, MessagesMove
<1>. QED BY <1>3, <1>4, <1>5, <1>6

LEMMA PushInvNext == PushInv /\ [Next]_vars => PushInv'
<1> SUFFICES ASSUME PushInv, [Next]_vars PROVE PushInv' OBVIOUS
<1>1. CASE UNCHANGED vars
  BY <1>1 DEF vars, sessions, PushInv, PushTypes, InTypes, OutTypes, WebQuiet, WebLinked
<1>2. CASE Accepting BY <1>2, AcceptingInv
<1>3. CASE Connecting BY <1>3, ConnectingInv
<1>4. ASSUME NEW c \in Client, ServerOfClient(c) PROVE PushInv' BY <1>4, ServerOfClientInv
<1>5. CASE ServerOfWeb BY <1>5, ServerOfWebInv
<1>6. CASE WebAccepts \/ WebHandles \/ WebDies \/ \E c \in Client : ClientSends(c) BY <1>6, PeersInv
<1>. QED BY <1>1, <1>2, <1>3, <1>4, <1>5, <1>6 DEF Next

-----------------------------------------------------------------------------
(* PushServer implements OrderService                                      *)

\* Where the orders of client c are, and what it has been answered.
ToServer(c) == InTransit(in[c], "ORDER_SYN", 0)
ToWeb(c)    == InTransit(out[WebId], "S2W_ORDER", c)
FromWeb(c)  == InTransit(in[WebId], "NEWORDERBRD", c)
Told(c)     == InTransit(out[c], "ORDER_ACK", 0)

PlacesNumbers ==
    \A c \in Client : /\ ToServer(c) \in Seq(Nat) /\ ToWeb(c) \in Seq(Nat)
                      /\ FromWeb(c) \in Seq(Nat) /\ Told(c) \in Seq(Nat)

LEMMA PlacesTyped == PushInv => PlacesNumbers
<1> SUFFICES ASSUME PushInv, NEW c \in Client
             PROVE  /\ ToServer(c) \in Seq(Nat) /\ ToWeb(c) \in Seq(Nat)
                    /\ FromWeb(c) \in Seq(Nat) /\ Told(c) \in Seq(Nat)
  BY DEF PlacesNumbers
<1>1. in[c] \in Queues /\ out[c] \in Queues /\ in[WebId] \in Queues /\ out[WebId] \in Queues
  BY Sessions, QueuesTyped DEF PushInv, PushTypes
<1>. QED BY <1>1, SiftType DEF ToServer, ToWeb, FromWeb, Told

LEMMA PlacesTypedNext == PushInv' => PlacesNumbers'
BY PlacesTyped, PTL

OnWay(c) == Way(FromWeb(c), ToWeb(c), ToServer(c))

LEMMA MappedOrders ==
    /\ DOMAIN Pending = Client /\ Pending = [c \in Client |-> OnWay(c)]
    /\ DOMAIN Answers = Client /\ Answers = [c \in Client |-> Len(Told(c))]
BY DEF Pending, Answers, OnWay, Way, FromWeb, ToWeb, ToServer, Told

\* What has not been read or sent stays where it is.
LEMMA InKept ==
    ASSUME PushInv, NEW s \in Ids, Reads(s),
           s = WebId => Head(in[s]).type # "NEWORDERBRD",
           s # WebId => Head(in[s]).type # "ORDER_SYN"
    PROVE  \A c \in Client : FromWeb(c)' = FromWeb(c) /\ ToServer(c)' = ToServer(c)
<1>1. in' = [in EXCEPT ![s] = Tail(@)] /\ in[s] # <<>> /\ DOMAIN in = Ids
  BY DEF Reads, PushInv, PushTypes, InTypes
<1>2. PICK m : m = Head(in[s]) OBVIOUS
<1>3. Takes(in, in', s, m)
  <2>1. in[s] \in Queues BY QueuesTyped DEF PushInv, PushTypes
  <2>2. Takes(in, [in EXCEPT ![s] = Tail(@)], s, Head(in[s])) BY <1>1, <2>1, QueueTakes
  <2>. QED BY <1>1, <1>2, <2>2
<1>4. ASSUME NEW c \in Client PROVE FromWeb(c)' = FromWeb(c) /\ ToServer(c)' = ToServer(c)
  <2>1. c \in Ids /\ c # WebId /\ WebId \in Ids BY Sessions
  <2>2. InTransit(in[WebId], "NEWORDERBRD", c) = InTransit(in'[WebId], "NEWORDERBRD", c)
    BY <1>2, <1>3, <2>1 DEF Takes, Matches
  <2>3. InTransit(in[c], "ORDER_SYN", 0) = InTransit(in'[c], "ORDER_SYN", 0)
    BY <1>2, <1>3, <2>1 DEF Takes, Matches
  <2>. QED BY <2>2, <2>3 DEF FromWeb, ToServer
<1>. QED BY <1>4

LEMMA SendAdds ==
    ASSUME PushInv, NEW s, NEW m \in Message, Send(s, m)
    PROVE  IF Reaches(s) THEN s \in Ids /\ Adds(out, out', s, m) ELSE out' = out
<1>1. CASE ~Reaches(s) BY <1>1 DEF Send
<1>2. CASE Reaches(s)
  <2>1. s \in Ids /\ DOMAIN out = Ids BY <1>2 DEF Reaches, PushInv, PushTypes, OutTypes
  <2>2. out[s] \in Queues BY <2>1, QueuesTyped DEF PushInv, PushTypes
  <2>3. out' = [out EXCEPT ![s] = Append(@, m)] BY <1>2 DEF Send
  <2>4. Adds(out, [out EXCEPT ![s] = Append(@, m)], s, m) BY <2>1, <2>2, QueueAdds
  <2>. QED BY <1>2, <2>1, <2>3, <2>4
<1>. QED BY <1>1, <1>2

LEMMA OutKept ==
    ASSUME PushInv, NEW s, NEW m \in Message, Send(s, m)
    PROVE  \A c \in Client :
              /\ m.type # "S2W_ORDER" \/ m.usr # c \/ s # WebId => ToWeb(c)' = ToWeb(c)
              /\ m.type # "ORDER_ACK" \/ s # c \/ ~Reaches(s) => Told(c)' = Told(c)
<1>1. IF Reaches(s) THEN s \in Ids /\ Adds(out, out', s, m) ELSE out' = out BY SendAdds
<1>2. CASE ~Reaches(s) BY <1>1, <1>2 DEF ToWeb, Told
<1>3. CASE Reaches(s)
  <2>1. s \in Ids /\ Adds(out, out', s, m) BY <1>1, <1>3
  <2>2. ASSUME NEW c \in Client
        PROVE  /\ m.type # "S2W_ORDER" \/ m.usr # c \/ s # WebId => ToWeb(c)' = ToWeb(c)
               /\ m.type # "ORDER_ACK" \/ s # c \/ ~Reaches(s) => Told(c)' = Told(c)
    <3>1. c \in Ids /\ WebId \in Ids BY Sessions
    <3>2. ASSUME m.type # "S2W_ORDER" \/ m.usr # c \/ s # WebId PROVE ToWeb(c)' = ToWeb(c)
      <4>1. InTransit(out'[WebId], "S2W_ORDER", c) = InTransit(out[WebId], "S2W_ORDER", c)
        BY <2>1, <3>1, <3>2 DEF Adds, Matches
      <4>. QED BY <4>1 DEF ToWeb
    <3>3. ASSUME m.type # "ORDER_ACK" \/ s # c PROVE Told(c)' = Told(c)
      <4>1. InTransit(out'[c], "ORDER_ACK", 0) = InTransit(out[c], "ORDER_ACK", 0)
        BY <2>1, <3>1, <3>3 DEF Adds, Matches
      <4>. QED BY <4>1 DEF Told
    <3>. QED BY <1>3, <3>2, <3>3
  <2>. QED BY <2>2
<1>. QED BY <1>2, <1>3

-----------------------------------------------------------------------------
\* No client's orders and answers change.
LEMMA NothingSettled ==
    ASSUME \A c \in Client : OnWay(c)' = OnWay(c) /\ Told(c)' = Told(c)
    PROVE  Pending' = Pending /\ Answers' = Answers
<1>1. Pending' = [c \in Client |-> OnWay(c)'] /\ Answers' = [c \in Client |-> Len(Told(c)')]
  BY DEF Pending, Answers, OnWay, Way, FromWeb, ToWeb, ToServer, Told
<1>. QED BY <1>1, MappedOrders

LEMMA QuietIn ==
    ASSUME UNCHANGED <<in, out>>
    PROVE  Pending' = Pending /\ Answers' = Answers
BY DEF Pending, Answers

\* The oldest order of client c leaves.
LEMMA OneSettled ==
    ASSUME NEW c \in Client, OnWay(c) # <<>>, OnWay(c)' = Tail(OnWay(c)),
           \A e \in Client : e # c => OnWay(e)' = OnWay(e)
    PROVE  Orders!Settle(c)
<1>1. Pending' = [e \in Client |-> OnWay(e)'] BY DEF Pending, OnWay, Way, FromWeb, ToWeb, ToServer
<1>2. Pending[c] = OnWay(c) /\ Pending' = [Pending EXCEPT ![c] = Tail(@)] BY <1>1, MappedOrders
<1>. QED BY <1>2 DEF Orders!Settle

LEMMA OneLost ==
    ASSUME NEW c \in Client, Orders!Settle(c), \A e \in Client : Told(e)' = Told(e)
    PROVE  Orders!OrderNext
<1>1. Answers' = [e \in Client |-> Len(Told(e)')] BY DEF Answers, Told
<1>2. Answers' = Answers BY <1>1, MappedOrders
<1>. QED BY <1>2 DEF Orders!OrderNext, Orders!Lose

LEMMA OneAnswered ==
    ASSUME NEW c \in Client, Orders!Settle(c), Len(Told(c)') = Len(Told(c)) + 1,
           \A e \in Client : e # c => Told(e)' = Told(e)
    PROVE  Orders!OrderNext
<1>1. Answers' = [e \in Client |-> Len(Told(e)')] BY DEF Answers, Told
<1>2. Answers' = [Answers EXCEPT ![c] = @ + 1] BY <1>1, MappedOrders
<1>. QED BY <1>2 DEF Orders!OrderNext, Orders!Answer

LEMMA OnePlaced ==
    ASSUME NEW c \in Client, NEW n \in OrderNo, OnWay(c)' = Append(OnWay(c), n),
           \A e \in Client : e # c => OnWay(e)' = OnWay(e),
           \A e \in Client : Told(e)' = Told(e)
    PROVE  Orders!OrderNext
<1>1. /\ Pending' = [e \in Client |-> OnWay(e)'] /\ Answers' = [e \in Client |-> Len(Told(e)')]
  BY DEF Pending, Answers, OnWay, Way, FromWeb, ToWeb, ToServer, Told
<1>2. Pending' = [Pending EXCEPT ![c] = Append(@, n)] /\ Answers' = Answers BY <1>1, MappedOrders
<1>. QED BY <1>2 DEF Orders!OrderNext, Orders!Place

-----------------------------------------------------------------------------
\* An order is passed on to the web server, or lost when there is none to reach.
LEMMA TestOrderSynStep ==
    ASSUME PushInv, PushInv', NEW c \in Client, TestOrderSyn(c)
    PROVE  Orders!OrderNext \/ (Pending' = Pending /\ Answers' = Answers)
<1>1. PICK h : h = Head(in[c]) OBVIOUS
<1>2. /\ Reads(c) /\ h.type = "ORDER_SYN" /\ Send(webConID, OrderMsg("S2W_ORDER", c, h.no))
      /\ phase' = phase /\ in[c] # <<>> /\ in' = [in EXCEPT ![c] = Tail(@)]
  BY <1>1 DEF TestOrderSyn, Receives, Reads, sessions
<1>3. c \in Ids /\ c # WebId /\ WebId \in Ids /\ 0 \notin Client
  BY Sessions
<1>4. h \in ClientSays /\ in[c] \in Queues
  BY <1>1, <1>2, <1>3, HeadTyped, QueuesTyped DEF PushInv, PushTypes
<1>5. PICK n \in Nat : n = h.no /\ n \in OrderNo /\ h.usr = 0
  BY <1>2, <1>4, PushAssumption DEF ClientSays
<1>6. PICK m \in Message : m = OrderMsg("S2W_ORDER", c, n) BY <1>5, MessageSets
<1>7. m.type = "S2W_ORDER" /\ m.usr = c /\ m.no = n BY <1>6 DEF OrderMsg
<1>8. Send(webConID, m) BY <1>2, <1>5, <1>6
<1>9. Takes(in, in', c, h)
  <2>1. Takes(in, [in EXCEPT ![c] = Tail(@)], c, Head(in[c]))
    BY <1>2, <1>3, <1>4, QueueTakes DEF PushInv, PushTypes, InTypes
  <2>. QED BY <1>1, <1>2, <2>1
<1>10. ToServer(c) = Before(n, ToServer(c)')
  <2>1. InTransit(in[c], "ORDER_SYN", 0) = Before(n, InTransit(in'[c], "ORDER_SYN", 0))
    BY <1>2, <1>3, <1>5, <1>9 DEF Takes, Matches
  <2>. QED BY <2>1 DEF ToServer
<1>11. ASSUME NEW e \in Client PROVE FromWeb(e)' = FromWeb(e) /\ (e # c => ToServer(e)' = ToServer(e))
  <2>1. InTransit(in[WebId], "NEWORDERBRD", e) = InTransit(in'[WebId], "NEWORDERBRD", e)
    BY <1>3, <1>9 DEF Takes
  <2>2. e # c => InTransit(in[e], "ORDER_SYN", 0) = InTransit(in'[e], "ORDER_SYN", 0)
    BY <1>9, Sessions DEF Takes
  <2>. QED BY <2>1, <2>2 DEF FromWeb, ToServer
<1>12. \A e \in Client : Told(e)' = Told(e) /\ (e # c => ToWeb(e)' = ToWeb(e))
  BY <1>7, <1>8, OutKept
<1>13. \A e \in Client : e # c => OnWay(e)' = OnWay(e)
  BY <1>11, <1>12 DEF OnWay
<1>14. PlacesNumbers /\ PlacesNumbers' BY PlacesTyped, PlacesTypedNext
<1>15. PICK a \in Seq(Nat), b \in Seq(Nat), d \in Seq(Nat) : a = FromWeb(c) /\ b = ToWeb(c) /\ d = ToServer(c)'
  BY <1>14 DEF PlacesNumbers
<1>16. CASE phase[WebId] = "open"
  <2>1. webConID = WebId /\ Reaches(WebId) BY <1>16 DEF PushInv, WebLinked, Reaches
  <2>2. Adds(out, out', WebId, m) BY <1>8, <2>1, SendAdds
  <2>3. InTransit(out'[WebId], "S2W_ORDER", c) = Append(InTransit(out[WebId], "S2W_ORDER", c), n)
    BY <1>3, <1>7, <2>2 DEF Adds, Matches
  <2>4. ToWeb(c)' = Append(b, n) BY <1>15, <2>3 DEF ToWeb
  <2>5. OnWay(c)' = Way(a, Append(b, n), d) BY <1>11, <1>15, <2>4 DEF OnWay
  <2>6. OnWay(c) = Way(a, b, Before(n, d)) BY <1>10, <1>15 DEF OnWay
  <2>7. Way(a, Append(b, n), d) = Way(a, b, Before(n, d)) BY WayMoved
  <2>8. OnWay(c)' = OnWay(c) BY <2>5, <2>6, <2>7
  <2>9. \A e \in Client : OnWay(e)' = OnWay(e) /\ Told(e)' = Told(e) BY <1>12, <1>13, <2>8
  <2>. QED BY <2>9, NothingSettled
<1>17. CASE phase[WebId] # "open"
  <2>1. in[WebId] = <<>> /\ out[WebId] = <<>> /\ in'[WebId] = <<>> /\ out'[WebId] = <<>>
    BY <1>2, <1>17 DEF PushInv, WebQuiet
  <2>2. a = <<>> /\ b = <<>> /\ FromWeb(c)' = <<>> /\ ToWeb(c)' = <<>>
    BY <1>15, <2>1, SiftEmpty DEF FromWeb, ToWeb
  <2>3. OnWay(c) = Way(<<>>, <<>>, Before(n, d)) BY <1>10, <1>15, <2>2 DEF OnWay
  <2>4. OnWay(c)' = Way(<<>>, <<>>, d) BY <1>15, <2>2 DEF OnWay
  <2>5. OnWay(c) # <<>> /\ OnWay(c)' = Tail(OnWay(c))
    <3>1. /\ Way(<<>>, <<>>, Before(n, d)) # <<>>
          /\ Tail(Way(<<>>, <<>>, Before(n, d))) = Way(<<>>, <<>>, d)
      BY WayLost
    <3>. QED BY <2>3, <2>4, <3>1
  <2>6. Orders!Settle(c) BY <1>13, <2>5, OneSettled
  <2>. QED BY <1>12, <2>6, OneLost
<1>. QED BY <1>16, <1>17

\* The answer of the web server: the client has it unless it is closed.
LEMMA NewOrderBrdStep ==
    ASSUME PushInv, PushInv', NewOrderBrd
    PROVE  Orders!OrderNext
<1>1. PICK h : h = Head(in[WebId]) OBVIOUS
<1>2. /\ h.type = "NEWORDERBRD" /\ Send(h.usr, Msg("ORDER_ACK"))
      /\ in[WebId] # <<>> /\ in' = [in EXCEPT ![WebId] = Tail(@)]
  BY <1>1 DEF NewOrderBrd, Receives, Reads
<1>3. h \in WebSays /\ in[WebId] \in Queues
  BY <1>1, <1>2, Sessions, HeadTyped, QueuesTyped DEF PushInv, PushTypes
<1>4. PICK c \in Client : c = h.usr BY <1>2, <1>3 DEF WebSays
<1>5. PICK n \in Nat : n = h.no BY <1>2, <1>3, PushAssumption DEF WebSays
<1>6. c \in Ids /\ c # WebId /\ WebId \in Ids BY Sessions
<1>7. PICK m \in Message : m = Msg("ORDER_ACK") BY MessageSets
<1>8. m.type = "ORDER_ACK" /\ m.usr = 0 /\ m.no = 0 /\ Send(c, m) BY <1>2, <1>4, <1>7 DEF Msg
<1>9. Takes(in, in', WebId, h)
  <2>1. Takes(in, [in EXCEPT ![WebId] = Tail(@)], WebId, Head(in[WebId]))
    BY <1>2, <1>3, <1>6, QueueTakes DEF PushInv, PushTypes, InTypes
  <2>. QED BY <1>1, <1>2, <2>1
<1>10. FromWeb(c) = Before(n, FromWeb(c)')
  <2>1. InTransit(in[WebId], "NEWORDERBRD", c) = Before(n, InTransit(in'[WebId], "NEWORDERBRD", c))
    BY <1>2, <1>4, <1>5, <1>6, <1>9 DEF Takes, Matches
  <2>. QED BY <2>1 DEF FromWeb
<1>11. ASSUME NEW e \in Client PROVE ToServer(e)' = ToServer(e) /\ (e # c => FromWeb(e)' = FromWeb(e))
  <2>1. e \in Ids /\ e # WebId BY Sessions
  <2>2. InTransit(in[e], "ORDER_SYN", 0) = InTransit(in'[e], "ORDER_SYN", 0) BY <1>9, <2>1 DEF Takes
  <2>3. e # c => InTransit(in[WebId], "NEWORDERBRD", e) = InTransit(in'[WebId], "NEWORDERBRD", e)
    BY <1>4, <1>6, <1>9 DEF Takes, Matches
  <2>. QED BY <2>2, <2>3 DEF FromWeb, ToServer
<1>12. \A e \in Client : /\ ToWeb(e)' = ToWeb(e)
                         /\ e # c \/ ~Reaches(c) => Told(e)' = Told(e)
  BY <1>8, OutKept
<1>13. PlacesNumbers /\ PlacesNumbers' BY PlacesTyped, PlacesTypedNext
<1>14. PICK a \in Seq(Nat), b \in Seq(Nat), d \in Seq(Nat) : a = FromWeb(c)' /\ b = ToWeb(c) /\ d = ToServer(c)
  BY <1>13 DEF PlacesNumbers
<1>15. OnWay(c) = Way(Before(n, a), b, d) BY <1>10, <1>14 DEF OnWay
<1>16. OnWay(c)' = Way(a, b, d) BY <1>11, <1>12, <1>14 DEF OnWay
<1>17. /\ Way(Before(n, a), b, d) # <<>>
       /\ Tail(Way(Before(n, a), b, d)) = Way(a, b, d)
  BY WayTaken
<1>18. \A e \in Client : e # c => OnWay(e)' = OnWay(e) BY <1>11, <1>12 DEF OnWay
<1>19. Orders!Settle(c)
  <2>1. OnWay(c) # <<>> /\ OnWay(c)' = Tail(OnWay(c)) BY <1>15, <1>16, <1>17
  <2>. QED BY <1>18, <2>1, OneSettled
<1>20. CASE Reaches(c)
  <2>1. Adds(out, out', c, m) BY <1>8, <1>20, SendAdds
  <2>2. InTransit(out'[c], "ORDER_ACK", 0) = Append(InTransit(out[c], "ORDER_ACK", 0), 0)
    BY <1>6, <1>8, <2>1 DEF Adds, Matches
  <2>3. PICK q \in Seq(Nat) : q = Told(c) BY <1>13 DEF PlacesNumbers
  <2>4. Told(c)' = Append(q, 0) BY <2>2, <2>3 DEF Told
  <2>5. Len(Told(c)') = Len(Told(c)) + 1
    <3>1. Len(Append(q, 0)) = Len(q) + 1 OBVIOUS
    <3>. QED BY <2>3, <2>4, <3>1
  <2>. QED BY <1>12, <1>19, <2>5, OneAnswered
<1>21. CASE ~Reaches(c)
  <2>1. \A e \in Client : Told(e)' = Told(e) BY <1>12, <1>21
  <2>. QED BY <1>19, <2>1, OneLost
<1>. QED BY <1>20, <1>21

\* The web server turns an order into its answer.
LEMMA WebHandlesStep ==
    ASSUME PushInv, PushInv', WebHandles
    PROVE  Pending' = Pending /\ Answers' = Answers
<1>1. PICK h : h = Head(out[WebId]) OBVIOUS
<1>2. PICK m : m = IF h.type = "PUSHSVR_AUTH" THEN Msg("AUTH_RESULT") ELSE OrderMsg("NEWORDERBRD", h.usr, h.no)
  OBVIOUS
<1>3. /\ in' = [in EXCEPT ![WebId] = Append(@, m)]
      /\ out' = [out EXCEPT ![WebId] = Tail(@)] /\ out[WebId] # <<>>
  BY <1>1, <1>2 DEF WebHandles
<1>4. WebId \in Ids /\ in[WebId] \in Queues /\ out[WebId] \in Queues
  BY Sessions, QueuesTyped DEF PushInv, PushTypes
<1>5. h \in WebHears BY <1>1, <1>3, HeadTailProperties DEF PushInv, PushTypes, OutTypes
<1>6. h.type # "PUSHSVR_AUTH" => h.type = "S2W_ORDER" /\ h.usr \in Client /\ h.no \in OrderNo
  BY <1>5 DEF WebHears
<1>7. m \in Message
  <2>1. m \in WebSays BY <1>2, <1>6, MessageSets
  <2>. QED BY <2>1, MessageSets
<1>8. Adds(in, in', WebId, m)
  <2>1. Adds(in, [in EXCEPT ![WebId] = Append(@, m)], WebId, m)
    BY <1>4, <1>7, QueueAdds DEF PushInv, PushTypes, InTypes
  <2>. QED BY <1>3, <2>1
<1>9. Takes(out, out', WebId, h)
  <2>1. Takes(out, [out EXCEPT ![WebId] = Tail(@)], WebId, Head(out[WebId]))
    BY <1>3, <1>4, QueueTakes DEF PushInv, PushTypes, OutTypes
  <2>. QED BY <1>1, <1>3, <2>1
<1>10. PlacesNumbers /\ PlacesNumbers' BY PlacesTyped, PlacesTypedNext
<1>11. ASSUME NEW c \in Client PROVE OnWay(c)' = OnWay(c) /\ Told(c)' = Told(c)
  <2>1. c \in Ids /\ c # WebId BY Sessions
  <2>2. /\ InTransit(in'[c], "ORDER_SYN", 0) = InTransit(in[c], "ORDER_SYN", 0)
        /\ InTransit(out[c], "ORDER_ACK", 0) = InTransit(out'[c], "ORDER_ACK", 0)
    BY <1>8, <1>9, <2>1 DEF Adds, Takes
  <2>3. ToServer(c)' = ToServer(c) /\ Told(c)' = Told(c) BY <2>2 DEF ToServer, Told
  <2>4. CASE Matches(h, "S2W_ORDER", c)
    <3>1. PICK n \in Nat : n = h.no BY <1>6, <2>4, PushAssumption DEF Matches
    <3>2. m.type = "NEWORDERBRD" /\ m.usr = c /\ m.no = n BY <1>2, <2>4, <3>1 DEF Matches, OrderMsg
    <3>3. /\ InTransit(out[WebId], "S2W_ORDER", c) = Before(n, InTransit(out'[WebId], "S2W_ORDER", c))
          /\ InTransit(in'[WebId], "NEWORDERBRD", c) = Append(InTransit(in[WebId], "NEWORDERBRD", c), n)
      BY <1>4, <1>8, <1>9, <2>4, <3>1, <3>2 DEF Adds, Takes, Matches
    <3>4. PICK a \in Seq(Nat), b \in Seq(Nat), d \in Seq(Nat) : a = FromWeb(c) /\ b = ToWeb(c)' /\ d = ToServer(c)
      BY <1>10 DEF PlacesNumbers
    <3>5. ToWeb(c) = Before(n, b) /\ FromWeb(c)' = Append(a, n) BY <3>3, <3>4 DEF ToWeb, FromWeb
    <3>6. OnWay(c) = Way(a, Before(n, b), d) /\ OnWay(c)' = Way(Append(a, n), b, d)
      BY <2>3, <3>4, <3>5 DEF OnWay
    <3>7. Way(Append(a, n), b, d) = Way(a, Before(n, b), d) BY WayMoved
    <3>. QED BY <2>3, <3>6, <3>7
  <2>5. CASE ~Matches(h, "S2W_ORDER", c)
    <3>1. ~Matches(m, "NEWORDERBRD", c)
      <4>1. CASE h.type = "PUSHSVR_AUTH" BY <1>2, <4>1 DEF Msg, Matches
      <4>2. CASE h.type # "PUSHSVR_AUTH" BY <1>2, <1>6, <2>5, <4>2 DEF OrderMsg, Matches
      <4>. QED BY <4>1, <4>2
    <3>2. /\ InTransit(out[WebId], "S2W_ORDER", c) = InTransit(out'[WebId], "S2W_ORDER", c)
          /\ InTransit(in'[WebId], "NEWORDERBRD", c) = InTransit(in[WebId], "NEWORDERBRD", c)
      BY <1>4, <1>8, <1>9, <2>5, <3>1 DEF Adds, Takes
    <3>3. ToWeb(c)' = ToWeb(c) /\ FromWeb(c)' = FromWeb(c) BY <3>2 DEF ToWeb, FromWeb
    <3>. QED BY <2>3, <3>3 DEF OnWay
  <2>. QED BY <2>4, <2>5
<1>. QED BY <1>11, NothingSettled

\* A message of the peer of s; only an order of a client is one.
LEMMA ArrivesStep ==
    ASSUME PushInv, NEW s \in Ids, NEW m \in Message, in' = [in EXCEPT ![s] = Append(@, m)], out' = out,
           s = WebId => m.type # "NEWORDERBRD"
    PROVE  IF s # WebId /\ Matches(m, "ORDER_SYN", 0)
           THEN m.no \in OrderNo => Orders!OrderNext
           ELSE Pending' = Pending /\ Answers' = Answers
<1>1. Adds(in, in', s, m)
  <2>1. in[s] \in Queues /\ DOMAIN in = Ids BY QueuesTyped DEF PushInv, PushTypes, InTypes
  <2>2. Adds(in, [in EXCEPT ![s] = Append(@, m)], s, m) BY <2>1, QueueAdds
  <2>. QED BY <2>2
<1>2. ASSUME NEW c \in Client
      PROVE  /\ ToWeb(c)' = ToWeb(c) /\ FromWeb(c)' = FromWeb(c) /\ Told(c)' = Told(c)
             /\ c # s \/ ~Matches(m, "ORDER_SYN", 0) => ToServer(c)' = ToServer(c)
  <2>1. c \in Ids /\ WebId \in Ids BY Sessions
  <2>2. InTransit(in'[WebId], "NEWORDERBRD", c) = InTransit(in[WebId], "NEWORDERBRD", c)
    BY <1>1, <2>1 DEF Adds, Matches
  <2>3. c # s \/ ~Matches(m, "ORDER_SYN", 0) =>
            InTransit(in'[c], "ORDER_SYN", 0) = InTransit(in[c], "ORDER_SYN", 0)
    BY <1>1, <2>1 DEF Adds
  <2>. QED BY <2>2, <2>3 DEF ToWeb, FromWeb, Told, ToServer
<1>3. CASE ~(s # WebId /\ Matches(m, "ORDER_SYN", 0))
  <2>1. \A c \in Client : OnWay(c)' = OnWay(c) /\ Told(c)' = Told(c)
    BY <1>2, <1>3, Sessions DEF OnWay
  <2>2. Pending' = Pending /\ Answers' = Answers BY <2>1, NothingSettled
  <2>. QED BY <1>3, <2>2
<1>4. ASSUME s # WebId, Matches(m, "ORDER_SYN", 0), m.no \in OrderNo PROVE Orders!OrderNext
  <2>1. s \in Client BY <1>4, Sessions
  <2>2. PICK n \in Nat : n = m.no /\ n \in OrderNo BY <1>4, PushAssumption
  <2>3. InTransit(in'[s], "ORDER_SYN", 0) = Append(InTransit(in[s], "ORDER_SYN", 0), n)
    BY <1>1, <1>4, <2>2 DEF Adds
  <2>4. PlacesNumbers BY PlacesTyped
  <2>5. PICK a \in Seq(Nat), b \in Seq(Nat), d \in Seq(Nat) : a = FromWeb(s) /\ b = ToWeb(s) /\ d = ToServer(s)
    BY <2>1, <2>4 DEF PlacesNumbers
  <2>6. ToServer(s)' = Append(d, n) BY <2>3, <2>5 DEF ToServer
  <2>7. OnWay(s) = Way(a, b, d) /\ OnWay(s)' = Way(a, b, Append(d, n))
    BY <1>2, <2>1, <2>5, <2>6 DEF OnWay
  <2>8. Way(a, b, Append(d, n)) = Append(Way(a, b, d), n) BY WayPlaced
  <2>9. OnWay(s)' = Append(OnWay(s), n) BY <2>7, <2>8
  <2>10. \A c \in Client : /\ c # s => OnWay(c)' = OnWay(c)
                           /\ Told(c)' = Told(c)
    BY <1>2 DEF OnWay
  <2>. QED BY <2>1, <2>2, <2>9, <2>10, OnePlaced
<1>. QED BY <1>3, <1>4

-----------------------------------------------------------------------------
LEMMA OrdersInit == Init => Orders!OrderInit
<1> SUFFICES ASSUME Init PROVE Orders!OrderInit OBVIOUS
<1>1. \A c \in Client : OnWay(c) = <<>> /\ Told(c) = <<>>
  <2>1. ASSUME NEW c \in Client
        PROVE  ToServer(c) = <<>> /\ ToWeb(c) = <<>> /\ FromWeb(c) = <<>> /\ Told(c) = <<>>
    <3>1. in[c] = <<>> /\ out[c] = <<>> /\ in[WebId] = <<>> /\ out[WebId] = <<>>
      BY Sessions DEF Init
    <3>. QED BY <3>1, SiftEmpty DEF ToServer, ToWeb, FromWeb, Told
  <2>2. Way(<<>>, <<>>, <<>>) = <<>> BY DEF Way
  <2>. QED BY <2>1, <2>2 DEF OnWay
<1>2. Len(<<>>) = 0 OBVIOUS
<1>3. Pending = [c \in Client |-> <<>>] /\ Answers = [c \in Client |-> 0] BY <1>1, <1>2, MappedOrders
<1>. QED BY <1>3 DEF Orders!OrderInit

LEMMA ServerOfClientStep ==
    ASSUME PushInv, PushInv', NEW c \in Client, ServerOfClient(c)
    PROVE  Orders!OrderNext \/ (Pending' = Pending /\ Answers' = Answers)
<1>0. c \in Ids /\ c # WebId BY Sessions
<1>1. CASE TestOrderSyn(c) BY <1>1, TestOrderSynStep
<1>2. CASE AuthSyn(c) \/ KickUser(c) \/ Unhandled(c)
  <2>1. Reads(c) /\ Head(in[c]).type # "ORDER_SYN"
    BY <1>2 DEF AuthSyn, KickUser, Unhandled, Receives, FuncMap_CS
  <2>2. \A e \in Client : FromWeb(e)' = FromWeb(e) /\ ToServer(e)' = ToServer(e)
    BY <1>0, <2>1, InKept
  <2>3. \A e \in Client : ToWeb(e)' = ToWeb(e) /\ Told(e)' = Told(e)
    <3>1. CASE AuthSyn(c)
      <4>1. PICK m \in Message : m = Msg("AUTH_ACK") BY MessageSets
      <4>2. Send(c, m) /\ m.type = "AUTH_ACK" BY <3>1, <4>1 DEF AuthSyn, Msg
      <4>. QED BY <4>2, OutKept
    <3>2. CASE KickUser(c) \/ Unhandled(c)
      <4>1. out' = out BY <3>2 DEF KickUser, Unhandled
      <4>. QED BY <4>1 DEF ToWeb, Told
    <3>. QED BY <1>2, <3>1, <3>2
  <2>4. \A e \in Client : OnWay(e)' = OnWay(e) /\ Told(e)' = Told(e) BY <2>2, <2>3 DEF OnWay
  <2>. QED BY <2>4, NothingSettled
<1>3. CASE ExitUser(c) \/ ExitWithdraw(c) \/ ExitDestroy(c)
  <2>1. UNCHANGED <<in, out>> BY <1>3 DEF ExitUser, ExitWithdraw, ExitDestroy
  <2>. QED BY <2>1, QuietIn
<1>. QED BY <1>1, <1>2, <1>3 DEF ServerOfClient

LEMMA ServerOfWebStep ==
    ASSUME PushInv, PushInv', ServerOfWeb
    PROVE  Orders!OrderNext \/ (Pending' = Pending /\ Answers' = Answers)
<1>0. WebId \in Ids BY Sessions
<1>1. CASE NewOrderBrd BY <1>1, NewOrderBrdStep
<1>2. CASE WsConnected \/ AuthResult
  <2>1. Reads(WebId) /\ Head(in[WebId]).type # "NEWORDERBRD"
    BY <1>2 DEF WsConnected, AuthResult, Receives
  <2>2. \A e \in Client : FromWeb(e)' = FromWeb(e) /\ ToServer(e)' = ToServer(e)
    BY <1>0, <2>1, InKept
  <2>3. \A e \in Client : ToWeb(e)' = ToWeb(e) /\ Told(e)' = Told(e)
    <3>1. CASE WsConnected
      <4>1. PICK m \in Message : m = Msg("PUSHSVR_AUTH") BY MessageSets
      <4>2. Send(WebId, m) /\ m.type = "PUSHSVR_AUTH" BY <3>1, <4>1 DEF WsConnected, Msg
      <4>. QED BY <4>2, OutKept
    <3>2. CASE AuthResult
      <4>1. out' = out BY <3>2 DEF AuthResult
      <4>. QED BY <4>1 DEF ToWeb, Told
    <3>. QED BY <1>2, <3>1, <3>2
  <2>4. \A e \in Client : OnWay(e)' = OnWay(e) /\ Told(e)' = Told(e) BY <2>2, <2>3 DEF OnWay
  <2>. QED BY <2>4, NothingSettled
<1>. QED BY <1>1, <1>2 DEF ServerOfWeb

LEMMA AcceptingStep ==
    ASSUME PushInv, Accepting
    PROVE  Pending' = Pending /\ Answers' = Answers
<1>1. CASE OnAccept
  <2>1. PICK m \in Message : m = Msg("SVR_READY") BY MessageSets
  <2>2. Send(accepting.id, m) /\ m.type = "SVR_READY" /\ in' = in BY <1>1, <2>1 DEF OnAccept, Msg
  <2>3. \A e \in Client : ToWeb(e)' = ToWeb(e) /\ Told(e)' = Told(e) BY <2>2, OutKept
  <2>4. \A e \in Client : OnWay(e)' = OnWay(e) /\ Told(e)' = Told(e)
    BY <2>2, <2>3 DEF OnWay, FromWeb, ToServer
  <2>. QED BY <2>4, NothingSettled
<1>2. CASE AcceptClient \/ AcceptPeerGone \/ AcceptFails \/ Reaccept
  <2>1. UNCHANGED <<in, out>> BY <1>2 DEF AcceptClient, AcceptPeerGone, AcceptFails, Reaccept
  <2>. QED BY <2>1, QuietIn
<1>. QED BY <1>1, <1>2 DEF Accepting

LEMMA PeersStep ==
    ASSUME PushInv, PushInv', WebAccepts \/ WebHandles \/ WebDies \/ \E c \in Client : ClientSends(c)
    PROVE  Orders!OrderNext \/ (Pending' = Pending /\ Answers' = Answers)
<1>1. CASE WebAccepts
  <2>1. PICK m \in Message : m = Msg("WSCONNECTED") BY MessageSets
  <2>2. in' = [in EXCEPT ![WebId] = Append(@, m)] /\ out' = out /\ m.type = "WSCONNECTED"
    BY <1>1, <2>1 DEF WebAccepts, Msg
  <2>3. WebId \in Ids BY Sessions
  <2>. QED BY <2>2, <2>3, ArrivesStep
<1>2. CASE WebHandles BY <1>2, WebHandlesStep
<1>3. CASE WebDies
  <2>1. UNCHANGED <<in, out>> BY <1>3 DEF WebDies
  <2>. QED BY <2>1, QuietIn
<1>4. ASSUME NEW c \in Client, ClientSends(c)
      PROVE  Orders!OrderNext \/ (Pending' = Pending /\ Answers' = Answers)
  <2>1. /\ out' = out
        /\ \/ \E type \in {"AUTH_SYN", "WRONG_SIZE"} \cup OtherTypes :
                 in' = [in EXCEPT ![c] = Append(@, Msg(type))]
           \/ \E n \in OrderNo : in' = [in EXCEPT ![c] = Append(@, OrderMsg("ORDER_SYN", 0, n))]
    BY <1>4 DEF ClientSends
  <2>2. PICK m \in ClientSays : in' = [in EXCEPT ![c] = Append(@, m)] BY <2>1, MessageSets
  <2>3. m \in Message /\ (Matches(m, "ORDER_SYN", 0) => m.no \in OrderNo)
    BY <2>2, MessageSets, PushAssumption DEF ClientSays, Matches
  <2>4. c \in Ids /\ c # WebId BY Sessions
  <2>5. IF c # WebId /\ Matches(m, "ORDER_SYN", 0)
        THEN m.no \in OrderNo => Orders!OrderNext
        ELSE Pending' = Pending /\ Answers' = Answers
    BY <2>1, <2>2, <2>3, <2>4, ArrivesStep
  <2>. QED BY <2>3, <2>5
<1>. QED BY <1>1, <1>2, <1>3, <1>4

LEMMA OrdersNext == PushInv /\ PushInv' /\ [Next]_vars => [Orders!OrderNext]_<<Pending, Answers>>
<1> SUFFICES ASSUME PushInv, PushInv', [Next]_vars
             PROVE  Orders!OrderNext \/ (Pending' = Pending /\ Answers' = Answers)
  OBVIOUS
<1>1. CASE UNCHANGED vars
  <2>1. UNCHANGED <<in, out>> BY <1>1 DEF vars
  <2>. QED BY <2>1, QuietIn
<1>2. CASE Accepting BY <1>2, AcceptingStep
<1>3. CASE Connecting
  <2>1. UNCHANGED <<in, out>> BY <1>3 DEF Connecting, Connect, ConnectFails, OnConnectError
  <2>. QED BY <2>1, QuietIn
<1>4. ASSUME NEW c \in Client, ServerOfClient(c)
      PROVE  Orders!OrderNext \/ (Pending' = Pending /\ Answers' = Answers)
  BY <1>4, ServerOfClientStep
<1>5. CASE ServerOfWeb BY <1>5, ServerOfWebStep
<1>6. CASE WebAccepts \/ WebHandles \/ WebDies \/ \E c \in Client : ClientSends(c) BY <1>6, PeersStep
<1>. QED BY <1>1, <1>2, <1>3, <1>4, <1>5, <1>6 DEF Next

\* Every answer goes to the client that placed the order, once, in the order in which
\* it placed them, for every number of connections and messages: each step of the
\* server and of its peers is one of the service, or none.
THEOREM OrdersServed == Spec => OrderServiceImplemented
<1>1. Init => Orders!OrderInit BY OrdersInit
<1>2. PushInv /\ PushInv' /\ [Next]_vars => [Orders!OrderNext]_<<Pending, Answers>> BY OrdersNext
<1>. QED BY <1>1, <1>2, PushInvInit, PushInvNext, PTL DEF Spec, OrderServiceImplemented, Orders!OrderSpec, Orders!orderVars
=============================================================================
