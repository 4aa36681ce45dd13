-------------------------- MODULE MemoryPoolProofs ---------------------------
(* The pool never fails and never hands an object out twice, for every     *)
(* choice of band sizes and every sequence of calls; a list over it is the *)
(* sequence of its calls and holds what the pool has handed out.           *)
EXTENDS PoolList, FiniteSetTheorems, SequenceTheorems, WellFoundedInduction, TLAPS

Band == [max : Nat \ {0}, stack : Seq(Object)]

\* p is an object of one of the bands.
Has(all, p) == \E b \in 1 .. Len(all) : \E k \in 1 .. all[b].max : p = <<b, k>>

\* p is free in one of the bands.
IsFree(all, p) ==
    \E b \in 1 .. Len(all) : \E i \in 1 .. Len(all[b].stack) : all[b].stack[i] = p

\* Every object of the bands is free in one place or held, and not both.
Good(all, h) ==
    /\ all \in Seq(Band)
    /\ \A b \in 1 .. Len(all) : Len(all[b].stack) <= all[b].max
    /\ \A p : IsFree(all, p) => Has(all, p)
    /\ \A p \in h : Has(all, p)
    /\ \A b, c \in 1 .. Len(all) :
          \A i \in 1 .. Len(all[b].stack), j \in 1 .. Len(all[c].stack) :
             all[b].stack[i] = all[c].stack[j] => b = c /\ i = j
    /\ \A p \in h : ~IsFree(all, p)
    /\ \A p : Has(all, p) => p \in h \/ IsFree(all, p)

\* What popping band b changes.
LEMMA PopShape ==
  ASSUME NEW all \in Seq(Band), NEW b \in 1 .. Len(all), Len(all[b].stack) > 0
  PROVE  LET new == [all EXCEPT ![b] = Popped(@)]
             n == Len(all[b].stack)
         IN  /\ new \in Seq(Band)
             /\ Len(new) = Len(all)
             /\ \A c \in 1 .. Len(all) : c # b => new[c] = all[c]
             /\ new[b].max = all[b].max
             /\ Len(new[b].stack) = n - 1
             /\ \A i \in 1 .. n - 1 : new[b].stack[i] = all[b].stack[i]
             /\ Top(all[b]) = all[b].stack[n]
<1> DEFINE old == all[b]
           n == Len(old.stack)
           left == SubSeq(old.stack, 1, n - 1)
           new == [all EXCEPT ![b] = Popped(@)]
<1>1. old \in Band OBVIOUS
<1>2. old.stack \in Seq(Object) /\ n \in Nat /\ n > 0 BY <1>1 DEF Band
<1>3. left \in Seq(Object) /\ Len(left) = n - 1 /\ \A i \in 1 .. n - 1 : left[i] = old.stack[i]
  BY <1>2
<1>4. /\ Popped(old) \in Band
      /\ Popped(old).max = old.max
      /\ Popped(old).stack = left
  <2>1. Popped(old) = [old EXCEPT !.stack = left] BY DEF Popped
  <2>. HIDE DEF old, left
  <2>. QED BY <1>1, <1>3, <2>1 DEF Band
<1>5. new \in Seq(Band) /\ Len(new) = Len(all) /\ new[b] = Popped(old)
  <2>. HIDE DEF old
  <2>. QED BY <1>4 DEF old
<1>6. \A c \in 1 .. Len(all) : c # b => new[c] = all[c] OBVIOUS
<1>7. Top(old) = old.stack[n] BY DEF Top, Available
<1>. QED BY <1>3, <1>4, <1>5, <1>6, <1>7

\* Alloc from a band that is not empty.
LEMMA PopGood ==
  ASSUME NEW all, NEW h, Good(all, h), NEW b \in 1 .. Len(all), Len(all[b].stack) > 0
  PROVE  /\ Good([all EXCEPT ![b] = Popped(@)], h \cup {Top(all[b])})
         /\ Top(all[b]) \notin h
<1> DEFINE new == [all EXCEPT ![b] = Popped(@)]
           n == Len(all[b].stack)
           top == Top(all[b])
<1>0. all \in Seq(Band) BY DEF Good
<1>1. /\ new \in Seq(Band)
      /\ Len(new) = Len(all)
      /\ \A c \in 1 .. Len(all) : c # b => new[c] = all[c]
      /\ new[b].max = all[b].max
      /\ Len(new[b].stack) = n - 1
      /\ \A i \in 1 .. n - 1 : new[b].stack[i] = all[b].stack[i]
      /\ top = all[b].stack[n]
  BY <1>0, PopShape
<1>2. n \in Nat /\ n > 0 /\ Len(all) \in Nat BY <1>0 DEF Band
<1>2a. \A c \in 1 .. Len(all) : Len(all[c].stack) \in Nat /\ all[c].max \in Nat
  <2>1. \A c \in 1 .. Len(all) : all[c] \in Band BY <1>0
  <2>. QED BY <2>1 DEF Band
<1> HIDE DEF new, n, top
<1>3. \A c \in 1 .. Len(all) : new[c].max = all[c].max BY <1>1
<1>4. \A p : Has(new, p) <=> Has(all, p) BY <1>1, <1>3 DEF Has
<1>5. ASSUME NEW c \in 1 .. Len(all), NEW i \in 1 .. Len(new[c].stack)
      PROVE  /\ i \in 1 .. Len(all[c].stack)
             /\ new[c].stack[i] = all[c].stack[i]
             /\ ~(c = b /\ i = n)
  <2>1. CASE c # b BY <1>1, <2>1
  <2>2. CASE c = b BY <1>1, <1>2, <2>2 DEF n
  <2>. QED BY <2>1, <2>2
<1>6. \A c \in 1 .. Len(all) : \A i \in 1 .. Len(all[c].stack) :
         ~(c = b /\ i = n) => i \in 1 .. Len(new[c].stack)
  BY <1>1, <1>2, <1>2a DEF n
<1>7. n \in 1 .. Len(all[b].stack) BY <1>2 DEF n
<1>8. \A p : IsFree(new, p) <=> IsFree(all, p) /\ p # top
  <2>1. ASSUME NEW p, IsFree(new, p) PROVE IsFree(all, p) /\ p # top
    <3>1. PICK c \in 1 .. Len(all) : \E i \in 1 .. Len(new[c].stack) : new[c].stack[i] = p
      BY <2>1, <1>1 DEF IsFree
    <3>2. PICK i \in 1 .. Len(new[c].stack) : new[c].stack[i] = p BY <3>1
    <3>3. i \in 1 .. Len(all[c].stack) /\ all[c].stack[i] = p /\ ~(c = b /\ i = n) BY <1>5, <3>2
    <3>. QED BY <3>3, <1>1, <1>7 DEF IsFree, Good
  <2>2. ASSUME NEW p, IsFree(all, p), p # top PROVE IsFree(new, p)
    <3>1. PICK c \in 1 .. Len(all) : \E i \in 1 .. Len(all[c].stack) : all[c].stack[i] = p
      BY <2>2 DEF IsFree
    <3>2. PICK i \in 1 .. Len(all[c].stack) : all[c].stack[i] = p BY <3>1
    <3>3. ~(c = b /\ i = n) BY <3>2, <2>2, <1>1
    <3>4. i \in 1 .. Len(new[c].stack) BY <1>6, <3>3
    <3>. QED BY <3>2, <3>4, <1>5, <1>1 DEF IsFree
  <2>. QED BY <2>1, <2>2
<1>9. IsFree(all, top) BY <1>1, <1>7 DEF IsFree
<1>10. top \notin h /\ Has(all, top) BY <1>9 DEF Good
<1>11. \A c \in 1 .. Len(new) : Len(new[c].stack) <= new[c].max
  BY <1>1, <1>2, <1>2a, <1>3 DEF Good, n
<1>12. \A c, d \in 1 .. Len(new) :
          \A i \in 1 .. Len(new[c].stack), j \in 1 .. Len(new[d].stack) :
             new[c].stack[i] = new[d].stack[j] => c = d /\ i = j
  BY <1>1, <1>5 DEF Good
<1>13. Good(new, h \cup {top}) BY SMTT(20), <1>1, <1>4, <1>8, <1>10, <1>11, <1>12 DEF Good
<1>. QED BY <1>10, <1>13 DEF new, top

\* What pushing p on band b changes.
LEMMA PushShape ==
  ASSUME NEW all \in Seq(Band), NEW b \in 1 .. Len(all), NEW p \in Object
  PROVE  LET new == [all EXCEPT ![b] = Pushed(@, p)]
             n == Len(all[b].stack)
         IN  /\ new \in Seq(Band)
             /\ Len(new) = Len(all)
             /\ \A c \in 1 .. Len(all) : c # b => new[c] = all[c]
             /\ new[b].max = all[b].max
             /\ Len(new[b].stack) = n + 1
             /\ \A i \in 1 .. n : new[b].stack[i] = all[b].stack[i]
             /\ new[b].stack[n + 1] = p
<1> DEFINE old == all[b]
           n == Len(old.stack)
           more == Append(old.stack, p)
           new == [all EXCEPT ![b] = Pushed(@, p)]
<1>1. old \in Band OBVIOUS
<1>2. old.stack \in Seq(Object) /\ n \in Nat BY <1>1 DEF Band
<1>3. /\ more \in Seq(Object) /\ Len(more) = n + 1
      /\ \A i \in 1 .. n : more[i] = old.stack[i]
      /\ more[n + 1] = p
  BY <1>2
<1>4. /\ Pushed(old, p) \in Band
      /\ Pushed(old, p).max = old.max
      /\ Pushed(old, p).stack = more
  <2>1. Pushed(old, p) = [old EXCEPT !.stack = more] BY DEF Pushed
  <2>. HIDE DEF old, more
  <2>. QED BY <1>1, <1>3, <2>1 DEF Band
<1>5. new \in Seq(Band) /\ Len(new) = Len(all) /\ new[b] = Pushed(old, p)
  <2>. HIDE DEF old
  <2>. QED BY <1>4 DEF old
<1>6. \A c \in 1 .. Len(all) : c # b => new[c] = all[c] OBVIOUS
<1>. QED BY <1>3, <1>4, <1>5, <1>6

\* Objects are pairs.
LEMMA HasObject ==
  ASSUME NEW all \in Seq(Band), NEW p, Has(all, p)
  PROVE  p \in Object
<1>1. PICK b \in 1 .. Len(all) : \E k \in 1 .. all[b].max : p = <<b, k>> BY DEF Has
<1>2. all[b] \in Band OBVIOUS
<1>3. all[b].max \in Nat /\ Len(all) \in Nat BY <1>2 DEF Band
<1>. QED BY <1>1, <1>3 DEF Object

\* Free to a band that is not full.
LEMMA PushGood ==
  ASSUME NEW all, NEW h, Good(all, h), NEW b \in 1 .. Len(all),
         Len(all[b].stack) < all[b].max, NEW p \in h
  PROVE  Good([all EXCEPT ![b] = Pushed(@, p)], h \ {p})
<1> DEFINE new == [all EXCEPT ![b] = Pushed(@, p)]
           n == Len(all[b].stack)
<1>0. all \in Seq(Band) /\ Has(all, p) /\ ~IsFree(all, p) BY DEF Good
<1>0a. p \in Object BY <1>0, HasObject
<1>1. /\ new \in Seq(Band)
      /\ Len(new) = Len(all)
      /\ \A c \in 1 .. Len(all) : c # b => new[c] = all[c]
      /\ new[b].max = all[b].max
      /\ Len(new[b].stack) = n + 1
      /\ \A i \in 1 .. n : new[b].stack[i] = all[b].stack[i]
      /\ new[b].stack[n + 1] = p
  BY <1>0, <1>0a, PushShape
<1>2. \A c \in 1 .. Len(all) : Len(all[c].stack) \in Nat /\ all[c].max \in Nat
  <2>1. \A c \in 1 .. Len(all) : all[c] \in Band BY <1>0
  <2>. QED BY <2>1 DEF Band
<1>2a. n \in Nat BY <1>2
<1> HIDE DEF new, n
<1>3. \A c \in 1 .. Len(all) : new[c].max = all[c].max BY <1>1
<1>4. \A q : Has(new, q) <=> Has(all, q) BY <1>1, <1>3 DEF Has
<1>5. ASSUME NEW c \in 1 .. Len(all), NEW i \in 1 .. Len(new[c].stack)
      PROVE  \/ c = b /\ i = n + 1 /\ new[c].stack[i] = p
             \/ i \in 1 .. Len(all[c].stack) /\ new[c].stack[i] = all[c].stack[i]
  <2>1. CASE c # b BY <1>1, <2>1
  <2>2. CASE c = b BY <1>1, <1>2a, <2>2 DEF n
  <2>. QED BY <2>1, <2>2
<1>6. ASSUME NEW c \in 1 .. Len(all), NEW i \in 1 .. Len(all[c].stack)
      PROVE  i \in 1 .. Len(new[c].stack) /\ new[c].stack[i] = all[c].stack[i]
  <2>1. CASE c # b BY <1>1, <2>1
  <2>2. CASE c = b BY <1>1, <1>2a, <2>2 DEF n
  <2>. QED BY <2>1, <2>2
<1>7. n + 1 \in 1 .. Len(new[b].stack) BY <1>1, <1>2a
<1>8. \A q : IsFree(new, q) <=> IsFree(all, q) \/ q = p
  <2>1. ASSUME NEW q, IsFree(new, q) PROVE IsFree(all, q) \/ q = p
    <3>1. PICK c \in 1 .. Len(all) : \E i \in 1 .. Len(new[c].stack) : new[c].stack[i] = q
      BY <2>1, <1>1 DEF IsFree
    <3>. QED BY <3>1, <1>5 DEF IsFree
  <2>2. ASSUME NEW q, IsFree(all, q) PROVE IsFree(new, q)
    <3>1. PICK c \in 1 .. Len(all) : \E i \in 1 .. Len(all[c].stack) : all[c].stack[i] = q
      BY <2>2 DEF IsFree
    <3>. QED BY <3>1, <1>6, <1>1 DEF IsFree
  <2>3. IsFree(new, p) BY <1>1, <1>7 DEF IsFree
  <2>. QED BY <2>1, <2>2, <2>3
<1>9. ASSUME NEW c \in 1 .. Len(new) PROVE Len(new[c].stack) <= new[c].max
  <2>1. CASE c # b BY <1>1, <2>1 DEF Good
  <2>2. CASE c = b BY <1>1, <1>2, <1>2a, <2>2 DEF n
  <2>. QED BY <2>1, <2>2
<1>10. ASSUME NEW c \in 1 .. Len(new), NEW d \in 1 .. Len(new),
              NEW i \in 1 .. Len(new[c].stack), NEW j \in 1 .. Len(new[d].stack),
              new[c].stack[i] = new[d].stack[j]
       PROVE  c = d /\ i = j
  <2>1. c \in 1 .. Len(all) /\ d \in 1 .. Len(all) BY <1>1
  <2>2. \/ c = b /\ i = n + 1 /\ new[c].stack[i] = p
        \/ i \in 1 .. Len(all[c].stack) /\ new[c].stack[i] = all[c].stack[i]
    BY <1>5, <2>1
  <2>3. \/ d = b /\ j = n + 1 /\ new[d].stack[j] = p
        \/ j \in 1 .. Len(all[d].stack) /\ new[d].stack[j] = all[d].stack[j]
    BY <1>5, <2>1
  <2>4. \A e \in 1 .. Len(all) : \A k \in 1 .. Len(all[e].stack) : all[e].stack[k] # p
    BY <1>0 DEF IsFree
  <2>. QED BY SMTT(40), <1>10, <2>1, <2>2, <2>3, <2>4 DEF Good
<1>11. Good(new, h \ {p}) BY <1>0, <1>1, <1>4, <1>8, <1>9, <1>10 DEF Good
<1>. QED BY <1>11 DEF new

\* A new band, all its objects free.
LEMMA AppendGood ==
  ASSUME NEW all, NEW h, Good(all, h), NEW size \in Nat \ {0}
  PROVE  /\ Good(Append(all, NewBand(Len(all) + 1, size)), h)
         /\ NewBand(Len(all) + 1, size).max = size
         /\ Len(NewBand(Len(all) + 1, size).stack) = size
<1> DEFINE N == Len(all) + 1
           band == NewBand(N, size)
           new == Append(all, band)
<1>0. all \in Seq(Band) /\ N \in Nat \ {0} /\ Len(all) \in Nat BY DEF Good
<1>1. /\ band.max = size /\ band.stack = [i \in 1 .. size |-> <<N, i>>]
      /\ band = [max |-> band.max, stack |-> band.stack]
  BY DEF NewBand
<1>2. band.stack \in Seq(Object) /\ Len(band.stack) = size
  <2>1. \A i \in 1 .. size : <<N, i>> \in Object BY <1>0 DEF Object
  <2>2. [i \in 1 .. size |-> <<N, i>>] \in Seq(Object) /\ Len([i \in 1 .. size |-> <<N, i>>]) = size
    BY <2>1
  <2>. QED BY <1>1, <2>2
<1>3. \A i \in 1 .. size : band.stack[i] = <<N, i>> BY <1>1
<1>4. band \in Band BY <1>1, <1>2 DEF Band
<1> HIDE DEF band
<1>5. /\ new \in Seq(Band) /\ Len(new) = N /\ new[N] = band
      /\ \A b \in 1 .. Len(all) : b \in 1 .. N /\ b # N /\ new[b] = all[b]
      /\ \A b \in 1 .. N : b # N => b \in 1 .. Len(all)
      /\ N \in 1 .. N
  BY <1>0, <1>4
<1> HIDE DEF new
<1>6. \A p : Has(new, p) <=> Has(all, p) \/ \E k \in 1 .. size : p = <<N, k>>
  BY <1>1, <1>5 DEF Has
<1>7. \A p : IsFree(new, p) <=> IsFree(all, p) \/ \E k \in 1 .. size : p = <<N, k>>
  <2>1. ASSUME NEW p, IsFree(new, p)
        PROVE  IsFree(all, p) \/ \E k \in 1 .. size : p = <<N, k>>
    <3>1. PICK b \in 1 .. N : \E i \in 1 .. Len(new[b].stack) : new[b].stack[i] = p
      BY <2>1, <1>5 DEF IsFree
    <3>2. CASE b = N BY <3>1, <3>2, <1>2, <1>3, <1>5
    <3>3. CASE b # N BY <3>1, <3>3, <1>5 DEF IsFree
    <3>. QED BY <3>2, <3>3
  <2>2. ASSUME NEW p, IsFree(all, p) PROVE IsFree(new, p) BY <2>2, <1>5 DEF IsFree
  <2>3. ASSUME NEW k \in 1 .. size PROVE IsFree(new, <<N, k>>)
    BY <1>2, <1>3, <1>5 DEF IsFree
  <2>. QED BY <2>1, <2>2, <2>3
<1>8. \A k : ~Has(all, <<N, k>>) BY <1>0 DEF Has
<1>9. ASSUME NEW b \in 1 .. Len(new) PROVE Len(new[b].stack) <= new[b].max
  <2>1. CASE b = N BY <2>1, <1>1, <1>2, <1>5
  <2>2. CASE b # N BY <2>2, <1>5 DEF Good
  <2>. QED BY <2>1, <2>2
<1>10. ASSUME NEW b \in 1 .. Len(new), NEW c \in 1 .. Len(new),
              NEW i \in 1 .. Len(new[b].stack), NEW j \in 1 .. Len(new[c].stack),
              new[b].stack[i] = new[c].stack[j]
       PROVE  b = c /\ i = j
  <2>1. ASSUME NEW d \in 1 .. N, d # N, NEW k \in 1 .. Len(new[d].stack)
        PROVE  Has(all, new[d].stack[k])
    BY <1>5, <2>1 DEF Good, IsFree
  <2>0. b \in 1 .. N /\ c \in 1 .. N BY <1>5
  <2>2. CASE b = N /\ c = N BY <1>10, <2>2, <1>2, <1>3, <1>5
  <2>3. CASE b = N /\ c # N
    <3>1. new[b].stack[i] = <<N, i>> BY <2>3, <1>2, <1>3, <1>5
    <3>2. Has(all, new[c].stack[j]) BY <2>0, <2>1, <2>3
    <3>. QED BY <3>1, <3>2, <1>8, <1>10
  <2>4. CASE b # N /\ c = N
    <3>1. new[c].stack[j] = <<N, j>> BY <2>4, <1>2, <1>3, <1>5
    <3>2. Has(all, new[b].stack[i]) BY <2>0, <2>1, <2>4
    <3>. QED BY <3>1, <3>2, <1>8, <1>10
  <2>5. CASE b # N /\ c # N
    <3>1. /\ b \in 1 .. Len(all) /\ new[b] = all[b]
          /\ c \in 1 .. Len(all) /\ new[c] = all[c]
      BY <2>0, <2>5, <1>5
    <3>2. /\ i \in 1 .. Len(all[b].stack) /\ j \in 1 .. Len(all[c].stack)
          /\ all[b].stack[i] = all[c].stack[j]
      BY <3>1, <1>10
    <3>. QED BY <3>1, <3>2 DEF Good
  <2>. QED BY <2>2, <2>3, <2>4, <2>5
<1>11. \A p \in h : Has(new, p) /\ ~IsFree(new, p) BY <1>6, <1>7, <1>8 DEF Good
<1>12. \A p : IsFree(new, p) => Has(new, p) BY <1>6, <1>7 DEF Good
<1>13. \A p : Has(new, p) => p \in h \/ IsFree(new, p) BY <1>6, <1>7 DEF Good
<1>14. Good(new, h) BY <1>5, <1>9, <1>10, <1>11, <1>12, <1>13 DEF Good
<1>. QED BY <1>14, <1>1, <1>2 DEF new, band

Objects(all) == UNION {{<<b, k>> : k \in 1 .. all[b].max} : b \in 1 .. Len(all)}

\* A pool has finitely many objects.
LEMMA FinitelyMany ==
  ASSUME NEW all \in Seq(Band)
  PROVE  /\ IsFiniteSet(Objects(all))
         /\ \A p : p \in Objects(all) <=> Has(all, p)
<1> DEFINE Of(b) == {<<b, k>> : k \in 1 .. all[b].max}
           Bs == 1 .. Len(all)
           All == {Of(b) : b \in Bs}
           f == [b \in Bs |-> Of(b)]
<1>1. IsFiniteSet(Bs) BY FS_Interval
<1>2. f \in Surjection(Bs, All) BY DEF Surjection
<1>3. IsFiniteSet(All)
  <2>. HIDE DEF Bs, All, f
  <2>. QED BY <1>1, <1>2, FS_Surjection
<1>4. ASSUME NEW b \in Bs PROVE IsFiniteSet(Of(b))
  <2>1. all[b].max \in Nat
    <3>1. all[b] \in Band BY <1>4
    <3>. QED BY <3>1 DEF Band
  <2>2. IsFiniteSet(1 .. all[b].max)
    <3>1. 1 \in Int /\ all[b].max \in Int BY <2>1
    <3>. QED BY <3>1, FS_Interval, Zenon
  <2>3. IsFiniteSet({b}) BY FS_Singleton
  <2>4. IsFiniteSet({b} \X (1 .. all[b].max)) BY <2>2, <2>3, FS_Product
  <2>5. Of(b) \in SUBSET ({b} \X (1 .. all[b].max)) OBVIOUS
  <2>. HIDE DEF Of
  <2>. QED BY <2>4, <2>5, FS_Subset
<1>5. \A T \in All : IsFiniteSet(T) BY <1>4
<1>6. IsFiniteSet(UNION All)
  <2>. HIDE DEF All
  <2>. QED BY <1>3, <1>5, FS_UNION
<1>. QED BY <1>6 DEF Objects, Has

\* When every band is full nobody holds an object: there are as many objects as
\* places for them.
LEMMA FullMeansNoneHeld ==
  ASSUME NEW all, NEW h, Good(all, h),
         \A b \in 1 .. Len(all) : Len(all[b].stack) = all[b].max
  PROVE  h = {}
<1> DEFINE A == Objects(all)
           f == [s \in A |-> all[s[1]].stack[s[2]]]
<1>0. all \in Seq(Band) BY DEF Good
<1>1. IsFiniteSet(A) /\ \A p : p \in A <=> Has(all, p)
  BY <1>0, FinitelyMany
<1>. HIDE DEF A
<1>2. ASSUME NEW s \in A
      PROVE  /\ s = <<s[1], s[2]>>
             /\ s[1] \in 1 .. Len(all) /\ s[2] \in 1 .. Len(all[s[1]].stack)
             /\ f[s] \in A /\ IsFree(all, f[s])
  <2>1. PICK b \in 1 .. Len(all) : \E k \in 1 .. all[b].max : s = <<b, k>> BY <1>1 DEF Has
  <2>2. s = <<s[1], s[2]>> /\ s[1] \in 1 .. Len(all) /\ s[2] \in 1 .. Len(all[s[1]].stack)
    BY <2>1
  <2>3. IsFree(all, f[s]) BY <2>2 DEF IsFree
  <2>. QED BY <2>2, <2>3, <1>1 DEF Good
<1>3. f \in [A -> A] BY <1>2
<1>4. ASSUME NEW s \in A, NEW t \in A, f[s] = f[t] PROVE s = t
  <2>1. all[s[1]].stack[s[2]] = all[t[1]].stack[t[2]] BY <1>4
  <2>2. s[1] = t[1] /\ s[2] = t[2] BY <1>2, <2>1 DEF Good
  <2>. QED BY <1>2, <2>2
<1>5. f \in Injection(A, A) BY <1>3, <1>4 DEF Injection, IsInjective
<1>6. f \in Surjection(A, A)
  <2>. HIDE DEF f
  <2>. QED BY <1>1, <1>5, FS_Injection
<1>7. \A p \in A : \E s \in A : f[s] = p BY <1>6 DEF Surjection
<1>8. \A p \in A : IsFree(all, p)
  <2>. HIDE DEF f
  <2>. QED BY <1>2, <1>7
<1>. QED BY <1>1, <1>8 DEF Good

-----------------------------------------------------------------------------
\* The inductive invariant.  Ordered is what makes the walk of Alloc and Free find
\* a band at once; that the objects and their places are as many, in Good, is what
\* leaves no object to free when every band is full.
PoolInv ==
    /\ Good(bands, held)
    /\ bands = <<>> => free = 0
    /\ bands # <<>> => free \in 1 .. Len(bands) /\ extend > 0
    /\ extend \in Nat /\ inits \in 0 .. MaxInits /\ failed = FALSE
    /\ Ordered

LEMMA BandFacts ==
  ASSUME NEW all \in Seq(Band)
  PROVE  /\ Len(all) \in Nat /\ DOMAIN all = 1 .. Len(all)
         /\ all # <<>> => Len(all) > 0
         /\ \A b \in 1 .. Len(all) : /\ all[b].max \in Nat \ {0}
                                      /\ Len(all[b].stack) \in Nat
<1>1. \A b \in 1 .. Len(all) : all[b] \in Band OBVIOUS
<1>. QED BY <1>1 DEF Band

LEMMA PoolInit ==
  ASSUME Init
  PROVE  PoolInv
<1>1. Good(<<>>, {}) BY DEF Good, Has, IsFree
<1>. QED BY <1>1, PoolAssumption DEF Init, PoolInv, Ordered

\* Alloc from band b of a pool in order.
LEMMA TakeGood ==
  ASSUME NEW all, NEW b \in 1 .. Len(all), Good(all, held), Len(all[b].stack) > 0,
         PoolInv, TakeFrom(all, b), extend > 0,
         \A c \in 1 .. Len(all) : /\ c < b => Len(all[c].stack) = 0
                                  /\ c > b => Len(all[c].stack) = all[c].max
  PROVE  PoolInv'
<1>0. all \in Seq(Band) BY DEF Good
<1>1. ~Empty(all[b]) BY <1>0, BandFacts DEF Empty, Available
<1>2. /\ bands' = [all EXCEPT ![b] = Popped(@)]
      /\ held' = held \cup {Top(all[b])}
      /\ free' = b /\ failed' = failed /\ extend' = extend /\ inits' = inits
  <2>1. failed \in BOOLEAN BY DEF PoolInv
  <2>. QED BY <1>1, <2>1 DEF TakeFrom, PoolInv
<1>3. Good(bands', held') BY <1>2, PopGood
<1>4. /\ bands' \in Seq(Band) /\ Len(bands') = Len(all)
      /\ \A c \in 1 .. Len(all) : c # b => bands'[c] = all[c]
  BY <1>0, <1>2, PopShape
<1>5. DOMAIN bands' = 1 .. Len(all) /\ bands' # <<>> BY <1>4
<1>6. Ordered'
  <2>1. ASSUME NEW c \in 1 .. Len(all)
        PROVE  /\ c < b => Available(bands'[c]) = 0
               /\ c > b => Available(bands'[c]) = bands'[c].max
    BY <1>4 DEF Available
  <2>. QED BY <2>1, <1>2, <1>5 DEF Ordered
<1>. QED BY <1>2, <1>3, <1>4, <1>5, <1>6 DEF PoolInv

\* Free to band b of a pool in order.
LEMMA GiveGood ==
  ASSUME NEW p \in held, NEW b \in 1 .. Len(bands), Len(bands[b].stack) < bands[b].max,
         PoolInv, GiveTo(b, p),
         \A c \in 1 .. Len(bands) : /\ c < b => Len(bands[c].stack) = 0
                                    /\ c > b => Len(bands[c].stack) = bands[c].max
  PROVE  PoolInv'
<1>0. Good(bands, held) /\ bands \in Seq(Band) BY DEF Good, PoolInv
<1>1. ~Full(bands[b]) BY <1>0, BandFacts DEF Full, Available
<1>2. /\ bands' = [bands EXCEPT ![b] = Pushed(@, p)]
      /\ held' = held \ {p}
      /\ free' = b /\ failed' = failed /\ extend' = extend /\ inits' = inits
  <2>1. failed \in BOOLEAN BY DEF PoolInv
  <2>. QED BY <1>1, <2>1 DEF GiveTo, PoolInv
<1>3. Good(bands', held') BY <1>0, <1>2, PushGood
<1>4. /\ bands' \in Seq(Band) /\ Len(bands') = Len(bands)
      /\ \A c \in 1 .. Len(bands) : c # b => bands'[c] = bands[c]
  <2>1. p \in Object BY <1>0, HasObject DEF Good
  <2>. QED BY <1>0, <1>2, <2>1, PushShape
<1>5. DOMAIN bands' = 1 .. Len(bands) /\ bands' # <<>> /\ bands # <<>> BY <1>0, <1>4
<1>6. Ordered'
  <2>1. ASSUME NEW c \in 1 .. Len(bands)
        PROVE  /\ c < b => Available(bands'[c]) = 0
               /\ c > b => Available(bands'[c]) = bands'[c].max
    BY <1>4 DEF Available
  <2>. QED BY <2>1, <1>2, <1>5 DEF Ordered
<1>. QED BY <1>2, <1>3, <1>4, <1>5, <1>6 DEF PoolInv

LEMMA PoolStep ==
  ASSUME PoolInv, [Next]_vars
  PROVE  PoolInv'
<1>0. Good(bands, held) /\ bands \in Seq(Band) BY DEF PoolInv, Good
<1>1. /\ Len(bands) \in Nat /\ DOMAIN bands = 1 .. Len(bands)
      /\ bands # <<>> => Len(bands) > 0
      /\ \A b \in 1 .. Len(bands) : /\ bands[b].max \in Nat \ {0}
                                     /\ Len(bands[b].stack) \in Nat
  BY <1>0, BandFacts
<1>2. \A c \in 1 .. Len(bands) : /\ c < free => Len(bands[c].stack) = 0
                                 /\ c > free => Len(bands[c].stack) = bands[c].max
  BY <1>1 DEF PoolInv, Ordered, Available
<1>3. bands # <<>> => free \in 1 .. Len(bands) /\ extend > 0 BY DEF PoolInv
<1>4. CASE Initialize
  <2>1. PICK basic \in Sizes :
           /\ extend' \in ExtendSizes(basic)
           /\ \/ /\ bands = <<>>
                 /\ bands' = <<NewBand(1, basic)>>
                 /\ free' = 1
              \/ /\ bands # <<>>
                 /\ UNCHANGED <<bands, free>>
    BY <1>4 DEF Initialize
  <2>2. inits' \in 0 .. MaxInits /\ failed' = failed /\ held' = held
    BY <1>4, PoolAssumption DEF Initialize, PoolInv
  <2>3. basic \in Nat \ {0} /\ extend' \in Nat /\ extend' > 0
    BY <2>1, PoolAssumption DEF ExtendSizes
  <2>4. CASE bands # <<>>
    BY <2>1, <2>2, <2>3, <2>4 DEF PoolInv, Ordered
  <2>5. CASE bands = <<>>
    <3>1. bands' = Append(bands, NewBand(Len(bands) + 1, basic)) BY <2>1, <2>5
    <3>2. Good(bands', held') BY <1>0, <2>2, <2>3, <3>1, AppendGood
    <3>3. Len(bands') = 1 /\ bands' # <<>> /\ DOMAIN bands' = 1 .. 1 /\ free' = 1 BY <2>1, <2>5
    <3>4. Ordered' BY <3>3 DEF Ordered
    <3>. QED BY <2>2, <2>3, <3>2, <3>3, <3>4 DEF PoolInv
  <2>. QED BY <2>4, <2>5
<1>5. CASE Release
  <2>1. Good(<<>>, {}) BY DEF Good, Has, IsFree
  <2>. QED BY <1>5, <2>1 DEF Release, PoolInv, Ordered
<1>6. CASE AllocCurrent
  <2>1. bands # <<>> /\ ~Empty(bands[free]) /\ TakeFrom(bands, free) BY <1>6 DEF AllocCurrent
  <2>2. free \in 1 .. Len(bands) /\ extend > 0 BY <1>3, <2>1
  <2>3. Len(bands[free].stack) > 0 BY <1>1, <2>1, <2>2 DEF Empty, Available
  <2>. QED BY <1>0, <1>2, <2>1, <2>2, <2>3, TakeGood
<1>7. CASE AllocExtends
  <2> DEFINE all == Append(bands, NewBand(free + 1, extend))
  <2>1. /\ bands # <<>> /\ Empty(bands[free]) /\ free = Len(bands)
        /\ TakeFrom(all, free + 1)
    BY <1>7 DEF AllocExtends
  <2>2. extend \in Nat \ {0} /\ free + 1 = Len(bands) + 1 BY <1>3, <2>1 DEF PoolInv
  <2>3. /\ Good(all, held)
        /\ Len(NewBand(free + 1, extend).stack) = extend
    BY <1>0, <2>2, AppendGood
  <2>4. /\ Len(all) = free + 1 /\ all[free + 1] = NewBand(free + 1, extend)
        /\ \A c \in 1 .. Len(bands) : all[c] = bands[c]
    BY <1>0, <2>1
  <2>5. Len(all[free + 1].stack) > 0 BY <2>2, <2>3, <2>4
  <2>6. ASSUME NEW c \in 1 .. Len(all)
        PROVE  /\ c < free + 1 => Len(all[c].stack) = 0
               /\ c > free + 1 => Len(all[c].stack) = all[c].max
    <3>1. ~(c > free + 1) BY <2>4
    <3>2. CASE c < free + 1
      <4>1. c \in 1 .. Len(bands) /\ all[c] = bands[c] BY <1>1, <2>1, <2>4, <3>2
      <4>2. CASE c = free BY <4>1, <4>2, <2>1 DEF Empty, Available
      <4>3. CASE c # free BY <4>1, <4>3, <2>1, <3>2, <1>1, <1>2
      <4>. QED BY <3>1, <4>2, <4>3
    <3>. QED BY <3>1, <3>2
  <2>7. free + 1 \in 1 .. Len(all) BY <1>1, <2>1, <2>4
  <2>. HIDE DEF all
  <2>. QED BY <2>1, <2>2, <2>3, <2>5, <2>6, <2>7, TakeGood
<1>8. CASE AllocFromNewer
  <2>1. bands # <<>> /\ Empty(bands[free]) /\ free < Len(bands) /\ TakeFrom(bands, free + 1)
    BY <1>8 DEF AllocFromNewer, Newer
  <2>2. free \in 1 .. Len(bands) /\ extend > 0 /\ free + 1 \in 1 .. Len(bands)
    BY <1>1, <1>3, <2>1
  <2>3. Len(bands[free + 1].stack) > 0 BY <1>1, <1>2, <2>2
  <2>4. ASSUME NEW c \in 1 .. Len(bands)
        PROVE  /\ c < free + 1 => Len(bands[c].stack) = 0
               /\ c > free + 1 => Len(bands[c].stack) = bands[c].max
    <3>1. CASE c = free BY <2>1, <3>1 DEF Empty, Available
    <3>2. CASE c # free BY <1>2, <2>2, <3>2
    <3>. QED BY <3>1, <3>2
  <2>. QED BY <1>0, <2>1, <2>2, <2>3, <2>4, TakeGood
<1>9. CASE Free
  <2>1. PICK p \in held : FreeCurrent(p) \/ FreeToOlder(p) BY <1>9 DEF Free
  <2>2. bands # <<>> /\ free \in 1 .. Len(bands)
    <3>1. Has(bands, p) BY <1>0, <2>1 DEF Good
    <3>2. bands # <<>> BY <3>1 DEF Has
    <3>. QED BY <1>3, <3>2
  <2>3. CASE FreeCurrent(p)
    <3>1. GiveTo(free, p) /\ Len(bands[free].stack) < bands[free].max
      BY <1>1, <2>2, <2>3 DEF FreeCurrent, Full, Available
    <3>. QED BY <1>2, <2>1, <2>2, <3>1, GiveGood
  <2>4. CASE FreeToOlder(p)
    <3>1. Len(bands[free].stack) = bands[free].max
      BY <1>0, <1>1, <2>2, <2>4 DEF FreeToOlder, Full, Available, Good
    <3>2. free > 1
      <4>1. SUFFICES ASSUME free = 1 PROVE FALSE BY <1>1, <2>2
      <4>2. \A c \in 1 .. Len(bands) : Len(bands[c].stack) = bands[c].max
        BY <1>1, <1>2, <3>1, <4>1
      <4>. QED BY <1>0, <2>1, <4>2, FullMeansNoneHeld
    <3>3. GiveTo(free - 1, p) BY <2>4, <3>2 DEF FreeToOlder
    <3>4. free - 1 \in 1 .. Len(bands) /\ Len(bands[free - 1].stack) < bands[free - 1].max
      BY <1>1, <1>2, <2>2, <3>2
    <3>5. ASSUME NEW c \in 1 .. Len(bands)
          PROVE  /\ c < free - 1 => Len(bands[c].stack) = 0
                 /\ c > free - 1 => Len(bands[c].stack) = bands[c].max
      <4>1. CASE c = free BY <2>2, <3>1, <4>1
      <4>2. CASE c # free BY <1>2, <2>2, <4>2
      <4>. QED BY <4>1, <4>2
    <3>. QED BY <2>1, <3>3, <3>4, <3>5, GiveGood
  <2>. QED BY <2>1, <2>3, <2>4
<1>10. CASE UNCHANGED vars BY <1>10 DEF vars, PoolInv, Ordered
<1>. QED BY <1>4, <1>5, <1>6, <1>7, <1>8, <1>9, <1>10 DEF Next

\* The inductive invariant holds in every pool, however many bands it has.
THEOREM PoolInvHolds == Spec => []PoolInv
<1>1. Init => PoolInv BY PoolInit
<1>2. PoolInv /\ [Next]_vars => PoolInv' BY PoolStep
<1>. QED BY <1>1, <1>2, PTL DEF Spec

\* Alloc never returns NULL and Free is never refused: MemoryPoolFactory's message
\* and SafeMemoryPoolFactory's breakpoint are not reached.
THEOREM PoolNeverFails == Spec => []NeverFails
<1>1. PoolInv => NeverFails BY DEF PoolInv, NeverFails
<1>. QED BY <1>1, PoolInvHolds, PTL

\* The places of the free objects, by band and index.
LEMMA SlotsOf ==
  ASSUME PoolInv, NEW s \in Slots
  PROVE  \E b \in 1 .. Len(bands) : \E i \in 1 .. Len(bands[b].stack) :
            s = <<b, i>> /\ At(s) = bands[b].stack[i]
<1>1. bands \in Seq(Band) BY DEF PoolInv, Good
<1>2. DOMAIN bands = 1 .. Len(bands) BY <1>1
<1>3. PICK b \in 1 .. Len(bands) : \E i \in 1 .. Len(bands[b].stack) : s = <<b, i>>
  BY <1>2 DEF Slots, Available
<1>. QED BY <1>3 DEF At

\* No object is handed out twice.
THEOREM HandedOutOnce == Spec => []NoneTwice
<1>1. ASSUME PoolInv PROVE NoneTwice
  <2>0. \A b, c \in 1 .. Len(bands) :
           \A i \in 1 .. Len(bands[b].stack), j \in 1 .. Len(bands[c].stack) :
              bands[b].stack[i] = bands[c].stack[j] => b = c /\ i = j
    BY <1>1 DEF PoolInv, Good
  <2>1. ASSUME NEW s \in Slots, NEW t \in Slots, At(s) = At(t) PROVE s = t
    <3>1. PICK b \in 1 .. Len(bands) : \E i \in 1 .. Len(bands[b].stack) :
             s = <<b, i>> /\ At(s) = bands[b].stack[i]
      BY <1>1, SlotsOf
    <3>2. PICK i \in 1 .. Len(bands[b].stack) : s = <<b, i>> /\ At(s) = bands[b].stack[i]
      BY <3>1
    <3>3. PICK c \in 1 .. Len(bands) : \E j \in 1 .. Len(bands[c].stack) :
             t = <<c, j>> /\ At(t) = bands[c].stack[j]
      BY <1>1, SlotsOf
    <3>4. PICK j \in 1 .. Len(bands[c].stack) : t = <<c, j>> /\ At(t) = bands[c].stack[j]
      BY <3>3
    <3>5. b = c /\ i = j
      <4>1. bands[b].stack[i] = bands[c].stack[j] BY <2>1, <3>2, <3>4
      <4>. QED BY <2>0, <4>1
    <3>. QED BY <3>2, <3>4, <3>5
  <2>2. ASSUME NEW s \in Slots PROVE At(s) \notin held
    <3>1. IsFree(bands, At(s)) BY <1>1, SlotsOf DEF IsFree
    <3>. QED BY <1>1, <3>1 DEF PoolInv, Good
  <2>. QED BY <2>1, <2>2 DEF NoneTwice
<1>. QED BY <1>1, PoolInvHolds, PTL

\* No object is lost.
THEOREM NoObjectLost == Spec => []NoneLost
<1>1. ASSUME PoolInv PROVE NoneLost
  <2>0. bands \in Seq(Band) BY <1>1 DEF PoolInv, Good
  <2>1. DOMAIN bands = 1 .. Len(bands) BY <2>0
  <2>2. ASSUME NEW p \in AllObjects PROVE Has(bands, p) BY <2>1 DEF AllObjects, Has
  <2>3. ASSUME NEW p, IsFree(bands, p) PROVE p \in {At(s) : s \in Slots}
    <3>1. PICK b \in 1 .. Len(bands) : \E i \in 1 .. Len(bands[b].stack) : bands[b].stack[i] = p
      BY <2>3 DEF IsFree
    <3>2. PICK i \in 1 .. Len(bands[b].stack) : bands[b].stack[i] = p BY <3>1
    <3>3. <<b, i>> \in Slots BY <2>1 DEF Slots, Available
    <3>4. At(<<b, i>>) = p BY <3>2 DEF At
    <3>. QED BY <3>3, <3>4
  <2>. QED BY <1>1, <2>2, <2>3 DEF NoneLost, PoolInv, Good
<1>. QED BY <1>1, PoolInvHolds, PTL


\* Each object is free in one band or held by one caller, whatever band it went back to.
THEOREM ObjectsAreOnce == Spec => []ObjectsOnce
<1>1. NoneTwice /\ NoneLost => ObjectsOnce BY DEF ObjectsOnce
<1>. QED BY <1>1, HandedOutOnce, NoObjectLost, PTL

\* Alloc and Free, which look one band further and no more, find the pool in an order in
\* which that is enough.
THEOREM BandsOrdered == Spec => []Ordered
<1>1. PoolInv => Ordered BY DEF PoolInv
<1>. QED BY <1>1, PoolInvHolds, PTL

-----------------------------------------------------------------------------
(* CList                                                                   *)

LEMMA Least ==
    ASSUME NEW T \in SUBSET Nat, T # {}
    PROVE  \E x \in T : \A y \in T : x <= y
<1> DEFINE R == OpToRel(<, Nat)
<1>1. IsWellFoundedOn(R, Nat) BY NatLessThanWellFounded
<1>2. \A x, y \in Nat : <<y, x>> \in R <=> y < x BY Zenon DEF OpToRel
<1> HIDE DEF R
<1>3. PICK x \in T : \A y \in T : ~ (<<y, x>> \in R) BY <1>1, WFMin
<1>4. \A y \in T : ~(y < x) BY <1>2, <1>3
<1>5. x \in Nat /\ \A y \in T : y \in Nat OBVIOUS
<1>. QED BY <1>4, <1>5

-----------------------------------------------------------------------------
(* The nodes of a list                                                     *)

Node(e, p, n) == [element |-> e, prev |-> p, next |-> n]

NodesOnly(nodes) ==
    nodes = [q \in DOMAIN nodes |-> Node(nodes[q].element, nodes[q].prev, nodes[q].next)]

AsList(h, t, c, n) == [head |-> h, tail |-> t, count |-> c, nodes |-> n]

\* A list has the fields of one, and so have its nodes.
IsList(l) ==
    /\ l = AsList(l.head, l.tail, l.count, l.nodes)
    /\ NodesOnly(l.nodes)

LEMMA NodeIs ==
    \A e, p, n : Node(e, p, n).element = e /\ Node(e, p, n).prev = p /\ Node(e, p, n).next = n
BY DEF Node

LEMMA AsListIs ==
    \A h, t, c, n : /\ AsList(h, t, c, n).head = h /\ AsList(h, t, c, n).tail = t
                    /\ AsList(h, t, c, n).count = c /\ AsList(h, t, c, n).nodes = n
BY DEF AsList

LEMMA ListOf ==
    ASSUME NEW h, NEW t, NEW c, NEW n, NodesOnly(n)
    PROVE  IsList(AsList(h, t, c, n))
<1>1. PICK l : l = AsList(h, t, c, n) OBVIOUS
<1>2. l.head = h /\ l.tail = t /\ l.count = c /\ l.nodes = n BY <1>1, AsListIs
<1>3. IsList(l) BY <1>1, <1>2 DEF IsList
<1>. QED BY <1>1, <1>3

LEMMA HeadSet ==
    ASSUME NEW l, IsList(l), NEW h
    PROVE  [l EXCEPT !.head = h] = AsList(h, l.tail, l.count, l.nodes)
BY DEF IsList, AsList

LEMMA TailSet ==
    ASSUME NEW l, IsList(l), NEW t
    PROVE  [l EXCEPT !.tail = t] = AsList(l.head, t, l.count, l.nodes)
BY DEF IsList, AsList

LEMMA CountNodesSet ==
    ASSUME NEW l, IsList(l), NEW c, NEW n
    PROVE  [l EXCEPT !.count = c, !.nodes = n] = AsList(l.head, l.tail, c, n)
<1> DEFINE k == [l EXCEPT !.count = c]
<1>1. [l EXCEPT !.count = c, !.nodes = n] = [k EXCEPT !.nodes = n] OBVIOUS
<1>2. k = AsList(l.head, l.tail, c, l.nodes) BY DEF IsList, AsList
<1> HIDE DEF k
<1>3. [k EXCEPT !.nodes = n] = AsList(l.head, l.tail, c, n) BY <1>2 DEF AsList
<1>. QED BY <1>1, <1>3

LEMMA SetPrevIs ==
    ASSUME NEW l, IsList(l), NEW p \in DOMAIN l.nodes, NEW q
    PROVE  LET m == SetPrev(l, p, q) IN
           /\ IsList(m) /\ m.head = l.head /\ m.tail = l.tail /\ m.count = l.count
           /\ DOMAIN m.nodes = DOMAIN l.nodes
           /\ \A x \in DOMAIN l.nodes : /\ m.nodes[x].element = l.nodes[x].element
                                        /\ m.nodes[x].prev = IF x = p THEN q ELSE l.nodes[x].prev
                                        /\ m.nodes[x].next = l.nodes[x].next
<1> DEFINE n == [x \in DOMAIN l.nodes |-> Node(l.nodes[x].element, IF x = p THEN q ELSE l.nodes[x].prev,
                                               l.nodes[x].next)]
<1>1. /\ NodesOnly(n) /\ DOMAIN n = DOMAIN l.nodes
      /\ \A x \in DOMAIN l.nodes : /\ n[x].element = l.nodes[x].element
                                   /\ n[x].prev = IF x = p THEN q ELSE l.nodes[x].prev
                                   /\ n[x].next = l.nodes[x].next
  <2>1. DOMAIN n = DOMAIN l.nodes OBVIOUS
  <2>2. \A x \in DOMAIN l.nodes : /\ n[x].element = l.nodes[x].element
                                  /\ n[x].prev = IF x = p THEN q ELSE l.nodes[x].prev
                                  /\ n[x].next = l.nodes[x].next
    BY NodeIs
  <2>3. n = [x \in DOMAIN l.nodes |-> Node(n[x].element, n[x].prev, n[x].next)] BY <2>2
  <2> HIDE DEF n
  <2>. QED BY <2>1, <2>2, <2>3 DEF NodesOnly
<1>2. [l.nodes EXCEPT ![p].prev = q] = n BY DEF IsList, NodesOnly, Node
<1> HIDE DEF n
<1>3. SetPrev(l, p, q) = AsList(l.head, l.tail, l.count, n) BY <1>2 DEF SetPrev, IsList, AsList
<1>. QED BY <1>1, <1>3, ListOf, AsListIs

LEMMA SetNextIs ==
    ASSUME NEW l, IsList(l), NEW p \in DOMAIN l.nodes, NEW q
    PROVE  LET m == SetNext(l, p, q) IN
           /\ IsList(m) /\ m.head = l.head /\ m.tail = l.tail /\ m.count = l.count
           /\ DOMAIN m.nodes = DOMAIN l.nodes
           /\ \A x \in DOMAIN l.nodes : /\ m.nodes[x].element = l.nodes[x].element
                                        /\ m.nodes[x].prev = l.nodes[x].prev
                                        /\ m.nodes[x].next = IF x = p THEN q ELSE l.nodes[x].next
<1> DEFINE n == [x \in DOMAIN l.nodes |-> Node(l.nodes[x].element, l.nodes[x].prev,
                                               IF x = p THEN q ELSE l.nodes[x].next)]
<1>1. /\ NodesOnly(n) /\ DOMAIN n = DOMAIN l.nodes
      /\ \A x \in DOMAIN l.nodes : /\ n[x].element = l.nodes[x].element
                                   /\ n[x].prev = l.nodes[x].prev
                                   /\ n[x].next = IF x = p THEN q ELSE l.nodes[x].next
  <2>1. DOMAIN n = DOMAIN l.nodes OBVIOUS
  <2>2. \A x \in DOMAIN l.nodes : /\ n[x].element = l.nodes[x].element
                                  /\ n[x].prev = l.nodes[x].prev
                                  /\ n[x].next = IF x = p THEN q ELSE l.nodes[x].next
    BY NodeIs
  <2>3. n = [x \in DOMAIN l.nodes |-> Node(n[x].element, n[x].prev, n[x].next)] BY <2>2
  <2> HIDE DEF n
  <2>. QED BY <2>1, <2>2, <2>3 DEF NodesOnly
<1>2. [l.nodes EXCEPT ![p].next = q] = n BY DEF IsList, NodesOnly, Node
<1> HIDE DEF n
<1>3. SetNext(l, p, q) = AsList(l.head, l.tail, l.count, n) BY <1>2 DEF SetNext, IsList, AsList
<1>. QED BY <1>1, <1>3, ListOf, AsListIs

LEMMA WithNodeIs ==
    ASSUME NEW l, IsList(l), NEW p, NEW e, NEW u, NEW v
    PROVE  LET m == WithNode(l, p, e, u, v) IN
           /\ IsList(m) /\ m.head = l.head /\ m.tail = l.tail /\ m.count = l.count + 1
           /\ DOMAIN m.nodes = DOMAIN l.nodes \cup {p}
           /\ m.nodes[p].element = e /\ m.nodes[p].prev = u /\ m.nodes[p].next = v
           /\ \A x \in DOMAIN l.nodes : x # p => m.nodes[x] = l.nodes[x]
<1> DEFINE D == DOMAIN l.nodes \cup {p}
<1> DEFINE n == [x \in D |-> IF x = p THEN Node(e, u, v) ELSE l.nodes[x]]
<1>1. \A x \in DOMAIN l.nodes :
         l.nodes[x] = Node(l.nodes[x].element, l.nodes[x].prev, l.nodes[x].next)
  BY DEF IsList, NodesOnly
<1>2. /\ NodesOnly(n) /\ DOMAIN n = D /\ n[p] = Node(e, u, v)
      /\ \A x \in DOMAIN l.nodes : x # p => n[x] = l.nodes[x]
  <2>1. DOMAIN n = D /\ n[p] = Node(e, u, v) OBVIOUS
  <2>2. \A x \in DOMAIN l.nodes : x # p => n[x] = l.nodes[x] OBVIOUS
  <2>3. n = [x \in D |-> n[x]] OBVIOUS
  <2> HIDE DEF n
  <2>4. \A x \in D : n[x] = Node(n[x].element, n[x].prev, n[x].next)
    BY <1>1, <2>1, <2>2, NodeIs
  <2>5. n = [x \in D |-> Node(n[x].element, n[x].prev, n[x].next)] BY <2>3, <2>4
  <2>. QED BY <2>1, <2>2, <2>5 DEF NodesOnly
<1>3. WithNode(l, p, e, u, v) = [l EXCEPT !.count = l.count + 1, !.nodes = n]
  BY Zenon DEF WithNode, Node
<1> HIDE DEF n
<1>4. [l EXCEPT !.count = l.count + 1, !.nodes = n] = AsList(l.head, l.tail, l.count + 1, n)
  BY CountNodesSet
<1>. QED BY <1>2, <1>3, <1>4, ListOf, AsListIs, NodeIs

LEMMA WithoutNodeIs ==
    ASSUME NEW l, IsList(l), NEW p
    PROVE  LET m == WithoutNode(l, p) IN
           /\ IsList(m) /\ m.head = l.head /\ m.tail = l.tail /\ m.count = l.count - 1
           /\ DOMAIN m.nodes = DOMAIN l.nodes \ {p}
           /\ \A x \in DOMAIN l.nodes : x # p => m.nodes[x] = l.nodes[x]
<1> DEFINE D == DOMAIN l.nodes \ {p}
<1> DEFINE n == [x \in D |-> l.nodes[x]]
<1>1. \A x \in DOMAIN l.nodes :
         l.nodes[x] = Node(l.nodes[x].element, l.nodes[x].prev, l.nodes[x].next)
  BY DEF IsList, NodesOnly
<1>2. /\ NodesOnly(n) /\ DOMAIN n = D
      /\ \A x \in DOMAIN l.nodes : x # p => n[x] = l.nodes[x]
  <2>1. DOMAIN n = D OBVIOUS
  <2>2. \A x \in DOMAIN l.nodes : x # p => n[x] = l.nodes[x] OBVIOUS
  <2>3. n = [x \in D |-> n[x]] OBVIOUS
  <2> HIDE DEF n
  <2>4. \A x \in D : n[x] = Node(n[x].element, n[x].prev, n[x].next)
    BY <1>1, <2>1, <2>2, NodeIs
  <2>5. n = [x \in D |-> Node(n[x].element, n[x].prev, n[x].next)] BY <2>3, <2>4
  <2>. QED BY <2>1, <2>2, <2>5 DEF NodesOnly
<1>3. WithoutNode(l, p) = [l EXCEPT !.count = l.count - 1, !.nodes = n]
  BY Zenon DEF WithoutNode
<1> HIDE DEF n
<1>4. [l EXCEPT !.count = l.count - 1, !.nodes = n] = AsList(l.head, l.tail, l.count - 1, n)
  BY CountNodesSet
<1>. QED BY <1>2, <1>3, <1>4, ListOf, AsListIs

-----------------------------------------------------------------------------
(* A list as a sequence                                                    *)

\* The nodes of l in turn are those of ns, and s is what they carry.
Chain(l, ns, s) ==
    /\ IsList(l) /\ l.count \in Nat
    /\ ns \in Seq(Object) /\ Len(ns) = l.count
    /\ s \in Seq(Element) /\ Len(s) = l.count
    /\ \A i, j \in 1 .. l.count : ns[i] = ns[j] => i = j
    /\ DOMAIN l.nodes = {ns[i] : i \in 1 .. l.count}
    /\ \A i \in 1 .. l.count :
          /\ l.nodes[ns[i]].element = s[i]
          /\ l.nodes[ns[i]].next = IF i = l.count THEN Nil ELSE ns[i + 1]
    /\ l.head = IF l.count = 0 THEN Nil ELSE ns[1]
    /\ l.tail = IF l.count = 0 THEN Nil ELSE ns[l.count]

LEMMA ChainIs ==
    ASSUME NEW l, NEW ns, NEW s, NEW n \in Nat, IsList(l), l.count = n,
           ns \in Seq(Object), Len(ns) = n, s \in Seq(Element), Len(s) = n,
           \A i, j \in 1 .. n : ns[i] = ns[j] => i = j,
           DOMAIN l.nodes = {ns[i] : i \in 1 .. n},
           \A i \in 1 .. n : /\ l.nodes[ns[i]].element = s[i]
                             /\ l.nodes[ns[i]].next = IF i = n THEN Nil ELSE ns[i + 1],
           l.head = IF n = 0 THEN Nil ELSE ns[1],
           l.tail = IF n = 0 THEN Nil ELSE ns[n]
    PROVE  Chain(l, ns, s)
<1>1. l.count \in Nat OBVIOUS
<1>2. PICK c : c = l.count OBVIOUS
<1>3. c = n BY <1>2
<1>. QED BY <1>1, <1>2, <1>3, SMTT(30) DEF Chain

\* And in turn backward.
Back(l, ns) == \A i \in 1 .. l.count : l.nodes[ns[i]].prev = IF i = 1 THEN Nil ELSE ns[i - 1]

\* s with x at place i.
Into(s, i, x) == [j \in 1 .. Len(s) + 1 |-> IF j < i THEN s[j] ELSE IF j = i THEN x ELSE s[j - 1]]

\* s without place i.
Without(s, i) == [j \in 1 .. Len(s) - 1 |-> IF j < i THEN s[j] ELSE s[j + 1]]

LEMMA IntoIs ==
    ASSUME NEW S, NEW s \in Seq(S), NEW i \in 1 .. Len(s) + 1, NEW x \in S
    PROVE  /\ Into(s, i, x) \in Seq(S) /\ Len(Into(s, i, x)) = Len(s) + 1
           /\ \A j \in 1 .. Len(s) + 1 :
                 Into(s, i, x)[j] = IF j < i THEN s[j] ELSE IF j = i THEN x ELSE s[j - 1]
<1>1. Len(s) \in Nat /\ i \in Nat OBVIOUS
<1>2. ASSUME NEW j \in 1 .. Len(s) + 1
      PROVE  (IF j < i THEN s[j] ELSE IF j = i THEN x ELSE s[j - 1]) \in S
  <2>1. CASE j < i
    <3>1. j \in 1 .. Len(s) BY <1>1, <2>1
    <3>. QED BY <2>1, <3>1
  <2>2. CASE j = i BY <2>2
  <2>3. CASE j > i
    <3>1. j - 1 \in 1 .. Len(s) BY <1>1, <2>3
    <3>. QED BY <1>1, <2>3, <3>1
  <2>. QED BY <1>1, <2>1, <2>2, <2>3
<1>3. Len(s) + 1 \in Nat BY <1>1
<1>. QED BY <1>2, <1>3 DEF Into

\* The same of a name for it.
LEMMA IntoNamed ==
    ASSUME NEW S, NEW s \in Seq(S), NEW i \in 1 .. Len(s) + 1, NEW x \in S, NEW u, u = Into(s, i, x)
    PROVE  /\ u \in Seq(S) /\ Len(u) = Len(s) + 1
           /\ \A j \in 1 .. Len(s) + 1 : u[j] = IF j < i THEN s[j] ELSE IF j = i THEN x ELSE s[j - 1]
<1>1. /\ Into(s, i, x) \in Seq(S) /\ Len(Into(s, i, x)) = Len(s) + 1
      /\ \A j \in 1 .. Len(s) + 1 :
            Into(s, i, x)[j] = IF j < i THEN s[j] ELSE IF j = i THEN x ELSE s[j - 1]
  BY IntoIs, SMTT(30)
<1>. QED BY <1>1

LEMMA WithoutIs ==
    ASSUME NEW S, NEW s \in Seq(S), NEW i \in 1 .. Len(s)
    PROVE  /\ Without(s, i) \in Seq(S) /\ Len(Without(s, i)) = Len(s) - 1
           /\ \A j \in 1 .. Len(s) - 1 : Without(s, i)[j] = IF j < i THEN s[j] ELSE s[j + 1]
<1>1. Len(s) \in Nat /\ i \in Nat OBVIOUS
<1>2. ASSUME NEW j \in 1 .. Len(s) - 1
      PROVE  (IF j < i THEN s[j] ELSE s[j + 1]) \in S
  <2>1. j \in 1 .. Len(s) /\ j + 1 \in 1 .. Len(s) BY <1>1
  <2>. QED BY <2>1
<1>3. Len(s) - 1 \in Nat BY <1>1
<1>. QED BY <1>2, <1>3 DEF Without

\* What has to become of a list's nodes when p is put at place i.
LEMMA ChainInto ==
    ASSUME NEW l, NEW ns, NEW s, Chain(l, ns, s), NEW p \in Object, p \notin DOMAIN l.nodes,
           NEW e \in Element, NEW i \in 1 .. l.count + 1,
           NEW m, IsList(m), m.count = l.count + 1, DOMAIN m.nodes = DOMAIN l.nodes \cup {p},
           m.nodes[p].element = e,
           m.nodes[p].next = IF i = l.count + 1 THEN Nil ELSE ns[i],
           \A j \in 1 .. l.count :
              /\ m.nodes[ns[j]].element = s[j]
              /\ m.nodes[ns[j]].next = IF j = i - 1 THEN p ELSE IF j = l.count THEN Nil ELSE ns[j + 1],
           m.head = IF i = 1 THEN p ELSE ns[1],
           m.tail = IF i = l.count + 1 THEN p ELSE ns[l.count]
    PROVE  Chain(m, Into(ns, i, p), Into(s, i, e))
<1>0. /\ l.count \in Nat /\ ns \in Seq(Object) /\ Len(ns) = l.count
      /\ s \in Seq(Element) /\ Len(s) = l.count /\ i \in Nat
      /\ \A j, k \in 1 .. l.count : ns[j] = ns[k] => j = k
      /\ DOMAIN l.nodes = {ns[j] : j \in 1 .. l.count}
  BY DEF Chain
<1> DEFINE n == l.count
<1> DEFINE t == Into(ns, i, p)
<1> DEFINE u == Into(s, i, e)
<1>1. /\ t \in Seq(Object) /\ Len(t) = n + 1
      /\ \A j \in 1 .. n + 1 : t[j] = IF j < i THEN ns[j] ELSE IF j = i THEN p ELSE ns[j - 1]
  <2>1. ns \in Seq(Object) /\ i \in 1 .. Len(ns) + 1 /\ Len(ns) = n BY <1>0
  <2>2. /\ t \in Seq(Object) /\ Len(t) = Len(ns) + 1
        /\ \A j \in 1 .. Len(ns) + 1 :
              t[j] = IF j < i THEN ns[j] ELSE IF j = i THEN p ELSE ns[j - 1]
    BY <2>1, IntoIs, SMTT(30)
  <2> HIDE DEF t
  <2>. QED BY <2>1, <2>2, Zenon
<1>2. /\ u \in Seq(Element) /\ Len(u) = n + 1
      /\ \A j \in 1 .. n + 1 : u[j] = IF j < i THEN s[j] ELSE IF j = i THEN e ELSE s[j - 1]
  <2>1. s \in Seq(Element) /\ i \in 1 .. Len(s) + 1 /\ Len(s) = n BY <1>0
  <2>2. /\ u \in Seq(Element) /\ Len(u) = Len(s) + 1
        /\ \A j \in 1 .. Len(s) + 1 :
              u[j] = IF j < i THEN s[j] ELSE IF j = i THEN e ELSE s[j - 1]
    BY <2>1, IntoIs, SMTT(30)
  <2> HIDE DEF u
  <2>. QED BY <2>1, <2>2, Zenon
<1> HIDE DEF t, u
<1>3. \A j \in 1 .. n : ns[j] # p BY <1>0
<1>4. \A j \in 1 .. n + 1 : \/ j < i /\ j \in 1 .. n /\ t[j] = ns[j] /\ u[j] = s[j]
                            \/ j = i /\ t[j] = p /\ u[j] = e
                            \/ j > i /\ j - 1 \in 1 .. n /\ t[j] = ns[j - 1] /\ u[j] = s[j - 1]
  <2>1. TAKE j \in 1 .. n + 1
  <2>2. n \in Nat /\ i \in 1 .. n + 1 BY <1>0
  <2>3. CASE j < i
    <3>1. j \in 1 .. n BY <2>2, <2>3
    <3>2. t[j] = ns[j] BY <1>1, <2>3
    <3>3. u[j] = s[j] BY <1>2, <2>3
    <3>. QED BY <2>3, <3>1, <3>2, <3>3
  <2>4. CASE j = i
    <3>1. ~(j < i) BY <2>2, <2>4
    <3>2. t[j] = p BY <1>1, <2>4, <3>1
    <3>3. u[j] = e BY <1>2, <2>4, <3>1
    <3>. QED BY <2>4, <3>2, <3>3
  <2>5. CASE j > i
    <3>1. j - 1 \in 1 .. n /\ ~(j < i) /\ j # i BY <2>2, <2>5
    <3>2. t[j] = ns[j - 1] BY <1>1, <3>1
    <3>3. u[j] = s[j - 1] BY <1>2, <3>1
    <3>. QED BY <2>5, <3>1, <3>2, <3>3
  <2>6. j < i \/ j = i \/ j > i BY <2>2
  <2>. QED BY <2>3, <2>4, <2>5, <2>6
<1>5. ASSUME NEW j \in 1 .. n + 1, NEW k \in 1 .. n + 1, t[j] = t[k] PROVE j = k
  <2>1. CASE j = i
    <3>1. t[k] = p BY <1>4, <1>5, <2>1
    <3>. QED BY <1>3, <1>4, <2>1, <3>1
  <2>2. CASE k = i
    <3>1. t[j] = p BY <1>4, <1>5, <2>2
    <3>. QED BY <1>3, <1>4, <2>2, <3>1
  <2>3. CASE j # i /\ k # i BY <1>0, <1>4, <1>5, <2>3
  <2>. QED BY <2>1, <2>2, <2>3
<1>6. DOMAIN m.nodes = {t[j] : j \in 1 .. n + 1}
  <2>1. ASSUME NEW q \in DOMAIN m.nodes PROVE \E j \in 1 .. n + 1 : q = t[j]
    <3>1. CASE q = p
      <4>1. i \in 1 .. n + 1 /\ t[i] = p BY <1>0, <1>1
      <4>. QED BY <3>1, <4>1
    <3>2. CASE q # p
      <4>1. PICK j \in 1 .. n : q = ns[j] BY <1>0, <3>2
      <4>2. CASE j < i
        <5>1. j \in 1 .. n + 1 /\ t[j] = ns[j] BY <1>0, <1>1, <4>2
        <5>. QED BY <4>1, <5>1
      <4>3. CASE j >= i
        <5>1. j + 1 \in 1 .. n + 1 /\ t[j + 1] = ns[j] BY <1>0, <1>1, <4>3
        <5>. QED BY <4>1, <5>1
      <4>. QED BY <1>0, <4>2, <4>3
    <3>. QED BY <3>1, <3>2
  <2>2. ASSUME NEW j \in 1 .. n + 1 PROVE t[j] \in DOMAIN m.nodes BY <1>0, <1>4
  <2>. QED BY <2>1, <2>2
<1>7. ASSUME NEW j \in 1 .. n + 1
      PROVE  /\ m.nodes[t[j]].element = u[j]
             /\ m.nodes[t[j]].next = IF j = n + 1 THEN Nil ELSE t[j + 1]
  <2>1. CASE j < i
    <3>1. j \in 1 .. n /\ t[j] = ns[j] /\ u[j] = s[j] BY <1>4, <2>1
    <3>2. j + 1 \in 1 .. n + 1 /\ j # n + 1 BY <1>0, <3>1
    <3>3. t[j + 1] = IF j + 1 < i THEN ns[j + 1] ELSE p BY <1>0, <1>1, <2>1, <3>2
    <3>4. j = i - 1 \/ (j + 1 < i /\ j # i - 1 /\ j # n) BY <1>0, <2>1
    <3>. QED BY <1>0, <2>1, <3>1, <3>2, <3>3, <3>4
  <2>2. CASE j = i
    <3>1. t[j] = p /\ u[j] = e BY <1>4, <2>2
    <3>2. CASE j = n + 1 BY <2>2, <3>1, <3>2
    <3>3. CASE j # n + 1
      <4>1. j + 1 \in 1 .. n + 1 /\ t[j + 1] = ns[j] BY <1>0, <1>1, <2>2, <3>3
      <4>. QED BY <2>2, <3>1, <3>3, <4>1
    <3>. QED BY <3>2, <3>3
  <2>3. CASE j > i
    <3>1. j - 1 \in 1 .. n /\ t[j] = ns[j - 1] /\ u[j] = s[j - 1] BY <1>0, <1>4, <2>3
    <3>2. j - 1 # i - 1 /\ (j - 1) + 1 = j BY <1>0, <2>3
    <3>3. CASE j = n + 1
      <4>1. j - 1 = n BY <1>0, <3>3
      <4>. QED BY <3>1, <3>2, <3>3, <4>1
    <3>4. CASE j # n + 1
      <4>0. n \in Nat /\ i \in 1 .. n + 1 BY <1>0
      <4>1. j + 1 \in 1 .. n + 1 /\ j + 1 > i /\ (j + 1) - 1 = j /\ j - 1 # n BY <4>0, <2>3, <3>4
      <4>2. t[j + 1] = ns[j]
        <5>1. ~(j + 1 < i) /\ j + 1 # i BY <4>0, <4>1
        <5>. QED BY <1>1, <4>1, <5>1
      <4>. QED BY <3>1, <3>2, <3>4, <4>1, <4>2
    <3>. QED BY <3>3, <3>4
  <2>. QED BY <1>0, <2>1, <2>2, <2>3
<1>8. /\ m.head = IF m.count = 0 THEN Nil ELSE t[1]
      /\ m.tail = IF m.count = 0 THEN Nil ELSE t[m.count]
  <2>1. n + 1 # 0 /\ 1 \in 1 .. n + 1 /\ n + 1 \in 1 .. n + 1 BY <1>0
  <2>2. t[1] = IF i = 1 THEN p ELSE ns[1] BY <1>0, <1>1, <2>1
  <2>3. t[n + 1] = IF i = n + 1 THEN p ELSE ns[n]
    <3>0. n \in Nat /\ i \in 1 .. n + 1 BY <1>0
    <3>1. CASE i = n + 1
      <4>1. ~(n + 1 < i) BY <3>0, <3>1
      <4>. QED BY <1>1, <2>1, <3>1, <4>1
    <3>2. CASE i # n + 1
      <4>1. ~(n + 1 < i) /\ n + 1 # i /\ (n + 1) - 1 = n BY <3>0, <3>2
      <4>. QED BY <1>1, <2>1, <3>2, <4>1
    <3>. QED BY <3>1, <3>2
  <2>. QED BY <2>1, <2>2, <2>3
<1>9. m.count \in Nat /\ m.count = n + 1 BY <1>0
<1> HIDE DEF n
<1>10. Chain(m, t, u)
  <2>1. m.head = (IF n + 1 = 0 THEN Nil ELSE t[1]) /\ m.tail = (IF n + 1 = 0 THEN Nil ELSE t[n + 1])
    BY <1>8, <1>9
  <2>2. n + 1 \in Nat BY <1>9
  <2>. QED BY <1>1, <1>2, <1>5, <1>6, <1>7, <1>9, <2>1, <2>2, ChainIs, Zenon
<1>. QED BY <1>10 DEF t, u

LEMMA BackInto ==
    ASSUME NEW l, NEW ns, NEW s, Chain(l, ns, s), NEW p \in Object, NEW i \in 1 .. l.count + 1,
           NEW m, m.count = l.count + 1,
           m.nodes[p].prev = IF i = 1 THEN Nil ELSE ns[i - 1],
           \A j \in 1 .. l.count :
              m.nodes[ns[j]].prev = IF j = i THEN p ELSE IF j = 1 THEN Nil ELSE ns[j - 1]
    PROVE  Back(m, Into(ns, i, p))
<1>0. l.count \in Nat /\ ns \in Seq(Object) /\ Len(ns) = l.count /\ i \in Nat BY DEF Chain
<1> DEFINE n == l.count
<1> DEFINE t == Into(ns, i, p)
<1>1. /\ t \in Seq(Object) /\ Len(t) = n + 1
      /\ \A j \in 1 .. n + 1 : t[j] = IF j < i THEN ns[j] ELSE IF j = i THEN p ELSE ns[j - 1]
  <2>1. ns \in Seq(Object) /\ i \in 1 .. Len(ns) + 1 /\ Len(ns) = n BY <1>0
  <2>2. /\ t \in Seq(Object) /\ Len(t) = Len(ns) + 1
        /\ \A j \in 1 .. Len(ns) + 1 :
              t[j] = IF j < i THEN ns[j] ELSE IF j = i THEN p ELSE ns[j - 1]
    BY <2>1, IntoIs, SMTT(30)
  <2> HIDE DEF t
  <2>. QED BY <2>1, <2>2, Zenon
<1> HIDE DEF t
<1>2. ASSUME NEW j \in 1 .. n + 1 PROVE m.nodes[t[j]].prev = IF j = 1 THEN Nil ELSE t[j - 1]
  <2>0. j = 1 \/ (j - 1 \in 1 .. n + 1 /\ j # 1) BY <1>0
  <2>1. CASE j < i
    <3>1. j \in 1 .. n /\ t[j] = ns[j] BY <1>0, <1>1, <2>1
    <3>2. j # 1 => t[j - 1] = ns[j - 1] BY <1>0, <1>1, <2>0, <2>1
    <3>. QED BY <1>0, <2>1, <3>1, <3>2
  <2>2. CASE j = i
    <3>1. t[j] = p BY <1>1, <2>2
    <3>2. j # 1 => t[j - 1] = ns[j - 1] BY <1>0, <1>1, <2>0, <2>2
    <3>. QED BY <2>2, <3>1, <3>2
  <2>3. CASE j > i
    <3>1. j - 1 \in 1 .. n /\ t[j] = ns[j - 1] /\ j # 1 BY <1>0, <1>1, <2>3
    <3>2. t[j - 1] = IF j - 1 = i THEN p ELSE ns[(j - 1) - 1] BY <1>0, <1>1, <2>0, <2>3, <3>1
    <3>3. j - 1 = i \/ j - 1 # 1 BY <1>0, <2>3
    <3>. QED BY <3>1, <3>2, <3>3
  <2>. QED BY <1>0, <2>1, <2>2, <2>3
<1>. QED BY <1>2 DEF Back, t

\* What has to become of them when place i is taken out.
LEMMA ChainOut ==
    ASSUME NEW l, NEW ns, NEW s, Chain(l, ns, s), NEW i \in 1 .. l.count, l.count > 1,
           NEW m, IsList(m), m.count = l.count - 1, DOMAIN m.nodes = DOMAIN l.nodes \ {ns[i]},
           \A j \in 1 .. l.count : j # i =>
              /\ m.nodes[ns[j]].element = s[j]
              /\ m.nodes[ns[j]].next = IF j = i - 1 THEN IF i = l.count THEN Nil ELSE ns[i + 1]
                                       ELSE IF j = l.count THEN Nil ELSE ns[j + 1],
           m.head = IF i = 1 THEN ns[2] ELSE ns[1],
           m.tail = IF i = l.count THEN ns[l.count - 1] ELSE ns[l.count]
    PROVE  Chain(m, Without(ns, i), Without(s, i))
<1>0. /\ l.count \in Nat /\ ns \in Seq(Object) /\ Len(ns) = l.count
      /\ s \in Seq(Element) /\ Len(s) = l.count /\ i \in Nat
      /\ \A j, k \in 1 .. l.count : ns[j] = ns[k] => j = k
      /\ DOMAIN l.nodes = {ns[j] : j \in 1 .. l.count}
  BY DEF Chain
<1> DEFINE n == l.count
<1> DEFINE t == Without(ns, i)
<1> DEFINE u == Without(s, i)
<1>1. /\ t \in Seq(Object) /\ Len(t) = n - 1
      /\ \A j \in 1 .. n - 1 : t[j] = IF j < i THEN ns[j] ELSE ns[j + 1]
  <2>1. ns \in Seq(Object) /\ i \in 1 .. Len(ns) /\ Len(ns) = n BY <1>0
  <2>2. /\ t \in Seq(Object) /\ Len(t) = Len(ns) - 1
        /\ \A j \in 1 .. Len(ns) - 1 : t[j] = IF j < i THEN ns[j] ELSE ns[j + 1]
    BY <2>1, WithoutIs, ZenonT(40)
  <2> HIDE DEF t
  <2>. QED BY <2>1, <2>2, Zenon
<1>2. /\ u \in Seq(Element) /\ Len(u) = n - 1
      /\ \A j \in 1 .. n - 1 : u[j] = IF j < i THEN s[j] ELSE s[j + 1]
  <2>1. s \in Seq(Element) /\ i \in 1 .. Len(s) /\ Len(s) = n BY <1>0
  <2>2. /\ u \in Seq(Element) /\ Len(u) = Len(s) - 1
        /\ \A j \in 1 .. Len(s) - 1 : u[j] = IF j < i THEN s[j] ELSE s[j + 1]
    BY <2>1, WithoutIs, SMTT(30)
  <2> HIDE DEF u
  <2>. QED BY <2>1, <2>2, Zenon
<1> HIDE DEF t, u
<1>4. \A j \in 1 .. n - 1 : \/ j < i /\ j \in 1 .. n /\ t[j] = ns[j] /\ u[j] = s[j]
                            \/ j >= i /\ j + 1 \in 1 .. n /\ t[j] = ns[j + 1] /\ u[j] = s[j + 1]
  <2>1. TAKE j \in 1 .. n - 1
  <2>2. n \in Nat /\ i \in 1 .. n BY <1>0
  <2>3. CASE j < i
    <3>1. j \in 1 .. n BY <2>2
    <3>2. t[j] = ns[j] BY <1>1, <2>3
    <3>3. u[j] = s[j] BY <1>2, <2>3
    <3>. QED BY <2>3, <3>1, <3>2, <3>3
  <2>4. CASE ~(j < i)
    <3>1. j >= i /\ j + 1 \in 1 .. n BY <2>2, <2>4
    <3>2. t[j] = ns[j + 1] BY <1>1, <2>4
    <3>3. u[j] = s[j + 1] BY <1>2, <2>4
    <3>. QED BY <3>1, <3>2, <3>3
  <2>. QED BY <2>3, <2>4
<1>5. ASSUME NEW j \in 1 .. n - 1, NEW k \in 1 .. n - 1, t[j] = t[k] PROVE j = k
  <2>0. n \in Nat /\ i \in 1 .. n BY <1>0
  <2>1. PICK a \in 1 .. n : t[j] = ns[a] /\ ((j < i /\ a = j) \/ (j >= i /\ a = j + 1))
    BY <1>4
  <2>2. PICK b \in 1 .. n : t[k] = ns[b] /\ ((k < i /\ b = k) \/ (k >= i /\ b = k + 1))
    BY <1>4
  <2>3. ns[a] = ns[b] BY <1>5, <2>1, <2>2
  <2>4. a = b BY <1>0, <2>3
  <2>. QED BY <2>0, <2>1, <2>2, <2>4
<1>6. DOMAIN m.nodes = {t[j] : j \in 1 .. n - 1}
  <2>1. ASSUME NEW q \in DOMAIN m.nodes PROVE \E j \in 1 .. n - 1 : q = t[j]
    <3>1. PICK j \in 1 .. n : q = ns[j] /\ j # i BY <1>0
    <3>2. CASE j < i
      <4>1. j \in 1 .. n - 1 /\ t[j] = ns[j] BY <1>0, <1>1, <3>2
      <4>. QED BY <3>1, <4>1
    <3>3. CASE j > i
      <4>1. j - 1 \in 1 .. n - 1 /\ t[j - 1] = ns[j] BY <1>0, <1>1, <3>3, SMTT(30)
      <4>. QED BY <3>1, <4>1
    <3>. QED BY <1>0, <3>1, <3>2, <3>3
  <2>2. ASSUME NEW j \in 1 .. n - 1 PROVE t[j] \in DOMAIN m.nodes
    <3>1. PICK k \in 1 .. n : t[j] = ns[k] /\ k # i BY <1>0, <1>4
    <3>. QED BY <1>0, <3>1
  <2>. QED BY <2>1, <2>2
<1>7. ASSUME NEW j \in 1 .. n - 1
      PROVE  /\ m.nodes[t[j]].element = u[j]
             /\ m.nodes[t[j]].next = IF j = n - 1 THEN Nil ELSE t[j + 1]
  <2>0. j # n - 1 => j + 1 \in 1 .. n - 1 BY <1>0
  <2>1. CASE j < i
    <3>1. j \in 1 .. n /\ t[j] = ns[j] /\ u[j] = s[j] /\ j # i /\ j # n BY <1>0, <1>4, <2>1
    <3>2. CASE j = i - 1
      <4>1. i = j + 1 /\ (i = n <=> j = n - 1) BY <1>0, <3>2
      <4>2. j # n - 1 => t[j + 1] = ns[i + 1] BY <1>0, <1>1, <2>0, <4>1
      <4>. QED BY <3>1, <3>2, <4>1, <4>2
    <3>3. CASE j # i - 1
      <4>1. j + 1 < i /\ j # n - 1 BY <1>0, <2>1, <3>3
      <4>2. t[j + 1] = ns[j + 1] BY <1>1, <2>0, <4>1
      <4>. QED BY <3>1, <3>3, <4>1, <4>2
    <3>. QED BY <3>2, <3>3
  <2>2. CASE j >= i
    <3>1. j + 1 \in 1 .. n /\ t[j] = ns[j + 1] /\ u[j] = s[j + 1] /\ j + 1 # i /\ j + 1 # i - 1
      BY <1>0, <1>4, <2>2
    <3>2. j + 1 = n <=> j = n - 1 BY <1>0
    <3>3. ~(j + 1 < i) BY <1>0, <2>2
    <3>4. j # n - 1 => t[j + 1] = ns[(j + 1) + 1] BY <1>1, <2>0, <3>3, Zenon
    <3>. QED BY <3>1, <3>2, <3>4
  <2>. QED BY <1>0, <2>1, <2>2
<1>8. /\ m.head = IF m.count = 0 THEN Nil ELSE t[1]
      /\ m.tail = IF m.count = 0 THEN Nil ELSE t[m.count]
  <2>1. n - 1 # 0 /\ 1 \in 1 .. n - 1 /\ n - 1 \in 1 .. n - 1 BY <1>0
  <2>2. t[1] = IF i = 1 THEN ns[2] ELSE ns[1] BY <1>0, <1>1, <2>1
  <2>3. t[n - 1] = IF i = n THEN ns[n - 1] ELSE ns[n]
    <3>0. n \in Nat /\ i \in 1 .. n BY <1>0
    <3>1. (n - 1) + 1 = n /\ (i = n <=> n - 1 < i) BY <3>0
    <3>2. t[n - 1] = IF n - 1 < i THEN ns[n - 1] ELSE ns[(n - 1) + 1] BY <1>1, <2>1
    <3>. QED BY <3>1, <3>2
  <2>. QED BY <2>1, <2>2, <2>3
<1>9. m.count \in Nat /\ m.count = n - 1 BY <1>0
<1> HIDE DEF n
<1>10. Chain(m, t, u)
  <2>1. m.head = (IF n - 1 = 0 THEN Nil ELSE t[1]) /\ m.tail = (IF n - 1 = 0 THEN Nil ELSE t[n - 1])
    BY <1>8, <1>9
  <2>2. n - 1 \in Nat BY <1>9
  <2>. QED BY <1>1, <1>2, <1>5, <1>6, <1>7, <1>9, <2>1, <2>2, ChainIs, Zenon
<1>. QED BY <1>10 DEF t, u

LEMMA BackOut ==
    ASSUME NEW l, NEW ns, NEW s, Chain(l, ns, s), NEW i \in 1 .. l.count,
           NEW m, m.count = l.count - 1,
           \A j \in 1 .. l.count : j # i =>
              m.nodes[ns[j]].prev = IF j = i + 1 THEN IF i = 1 THEN Nil ELSE ns[i - 1]
                                    ELSE IF j = 1 THEN Nil ELSE ns[j - 1]
    PROVE  Back(m, Without(ns, i))
<1>0. l.count \in Nat /\ ns \in Seq(Object) /\ Len(ns) = l.count /\ i \in Nat BY DEF Chain
<1> DEFINE n == l.count
<1> DEFINE t == Without(ns, i)
<1>1. /\ t \in Seq(Object) /\ Len(t) = n - 1
      /\ \A j \in 1 .. n - 1 : t[j] = IF j < i THEN ns[j] ELSE ns[j + 1]
  <2>1. ns \in Seq(Object) /\ i \in 1 .. Len(ns) /\ Len(ns) = n BY <1>0
  <2>2. /\ t \in Seq(Object) /\ Len(t) = Len(ns) - 1
        /\ \A j \in 1 .. Len(ns) - 1 : t[j] = IF j < i THEN ns[j] ELSE ns[j + 1]
    BY <2>1, WithoutIs, Zenon
  <2> HIDE DEF t
  <2>. QED BY <2>1, <2>2, Zenon
<1> HIDE DEF t
<1>2. ASSUME NEW j \in 1 .. n - 1 PROVE m.nodes[t[j]].prev = IF j = 1 THEN Nil ELSE t[j - 1]
  <2>0. j = 1 \/ (j - 1 \in 1 .. n - 1 /\ j # 1) BY <1>0
  <2>1. CASE j < i
    <3>1. j \in 1 .. n /\ t[j] = ns[j] /\ j # i /\ j # i + 1 BY <1>0, <1>1, <2>1
    <3>2. j # 1 => t[j - 1] = ns[j - 1] BY <1>0, <1>1, <2>0, <2>1
    <3>. QED BY <3>1, <3>2
  <2>2. CASE j >= i
    <3>1. j + 1 \in 1 .. n /\ t[j] = ns[j + 1] /\ j + 1 # i /\ j + 1 # 1 /\ (j + 1) - 1 = j
      BY <1>0, <1>1, <2>2
    <3>2. CASE j = i
      <4>1. j # 1 => t[j - 1] = ns[i - 1] BY <1>0, <1>1, <2>0, <3>2
      <4>. QED BY <3>1, <3>2, <4>1
    <3>3. CASE j # i
      <4>1. j # 1 /\ j + 1 # i + 1 /\ ~(j - 1 < i) /\ (j - 1) + 1 = j BY <1>0, <2>2, <3>3
      <4>2. t[j - 1] = ns[j] BY <1>1, <2>0, <4>1
      <4>. QED BY <3>1, <4>1, <4>2
    <3>. QED BY <3>2, <3>3
  <2>. QED BY <1>0, <2>1, <2>2
<1>. QED BY <1>2 DEF Back, t

\* The walk over pNext meets the nodes one by one.
LEMMA WalkIs ==
    ASSUME NEW l, NEW ns, NEW s, Chain(l, ns, s), NEW i \in Nat, i < l.count
    PROVE  GetIndexPos(l, i) = ns[i + 1]
<1>0. l.count \in Nat /\ l.count # 0 BY DEF Chain
<1> DEFINE Step[j \in 0 .. i] == IF j = 0 THEN l.head ELSE GetNextPos(l, Step[j - 1])
<1>1. \A j \in 0 .. i : ns[j + 1] = IF j = 0 THEN l.head ELSE GetNextPos(l, ns[j])
  <2>1. ns[0 + 1] = l.head BY <1>0 DEF Chain
  <2>2. ASSUME NEW j \in 1 .. i PROVE ns[j + 1] = l.nodes[ns[j]].next
    <3>1. j \in 1 .. l.count /\ j # l.count BY <1>0
    <3>. QED BY <3>1 DEF Chain
  <2>. QED BY <2>1, <2>2 DEF GetNextPos
<1>2. PICK f : f = [j \in 0 .. i |-> ns[j + 1]] OBVIOUS
<1>3. f = [j \in 0 .. i |-> IF j = 0 THEN l.head ELSE GetNextPos(l, f[j - 1])]
  <2>1. \A j \in 0 .. i : j # 0 => f[j - 1] = ns[j] BY <1>2
  <2>2. \A j \in 0 .. i : ns[j + 1] = IF j = 0 THEN l.head ELSE GetNextPos(l, f[j - 1])
    BY <1>1, <2>1
  <2>. QED BY <1>2, <2>2, Zenon
<1>4. Step = [j \in 0 .. i |-> IF j = 0 THEN l.head ELSE GetNextPos(l, Step[j - 1])]
  BY <1>3, Zenon
<1>5. GetIndexPos(l, i) = Step[i] BY Zenon DEF GetIndexPos
<1> HIDE DEF Step
<1>6. \A j \in 0 .. i : Step[j] = ns[j + 1]
  <2> DEFINE T == {j \in 0 .. i : Step[j] # ns[j + 1]}
  <2>1. SUFFICES ASSUME T # {} PROVE FALSE OBVIOUS
  <2>2. PICK x \in T : \A y \in T : x <= y
    <3>1. T \in SUBSET Nat OBVIOUS
    <3> HIDE DEF T
    <3>. QED BY <2>1, <3>1, Least
  <2>3. Step[x] = IF x = 0 THEN l.head ELSE GetNextPos(l, Step[x - 1]) BY <1>4, Zenon
  <2>4. CASE x = 0 BY <1>1, <2>3, <2>4
  <2>5. CASE x # 0
    <3>1. x - 1 \in 0 .. i /\ ~(x <= x - 1) /\ (x - 1) + 1 = x BY <2>5
    <3>2. Step[x - 1] = ns[x] BY <2>2, <3>1
    <3>. QED BY <1>1, <2>3, <2>5, <3>2
  <2>. QED BY <2>4, <2>5
<1>. QED BY <1>5, <1>6


LEMMA NilApart == Nil \notin Object
BY DEF Nil, Object

LEMMA ChainFacts ==
    ASSUME NEW l, NEW ns, NEW s, Chain(l, ns, s)
    PROVE  /\ IsList(l) /\ l.count \in Nat
           /\ ns \in Seq(Object) /\ Len(ns) = l.count /\ s \in Seq(Element) /\ Len(s) = l.count
           /\ \A i \in 1 .. l.count :
                 /\ ns[i] \in Object /\ ns[i] \in DOMAIN l.nodes /\ ns[i] # Nil
                 /\ l.nodes[ns[i]].element = s[i]
                 /\ l.nodes[ns[i]].next = IF i = l.count THEN Nil ELSE ns[i + 1]
           /\ \A i, j \in 1 .. l.count : ns[i] = ns[j] => i = j
           /\ l.count = 0 => l.head = Nil /\ l.tail = Nil
           /\ l.count # 0 => /\ l.head = ns[1] /\ l.tail = ns[l.count]
                             /\ l.head # Nil /\ l.tail # Nil
<1>1. /\ IsList(l) /\ l.count \in Nat
      /\ ns \in Seq(Object) /\ Len(ns) = l.count /\ s \in Seq(Element) /\ Len(s) = l.count
      /\ \A i, j \in 1 .. l.count : ns[i] = ns[j] => i = j
      /\ DOMAIN l.nodes = {ns[i] : i \in 1 .. l.count}
      /\ \A i \in 1 .. l.count :
            /\ l.nodes[ns[i]].element = s[i]
            /\ l.nodes[ns[i]].next = IF i = l.count THEN Nil ELSE ns[i + 1]
      /\ l.head = IF l.count = 0 THEN Nil ELSE ns[1]
      /\ l.tail = IF l.count = 0 THEN Nil ELSE ns[l.count]
  BY Zenon DEF Chain
<1>2. \A i \in 1 .. l.count : ns[i] \in Object /\ ns[i] \in DOMAIN l.nodes BY <1>1
<1>3. \A i \in 1 .. l.count : ns[i] # Nil BY <1>2, NilApart
<1>4. l.count # 0 => 1 \in 1 .. l.count /\ l.count \in 1 .. l.count BY <1>1
<1>. QED BY <1>1, <1>2, <1>3, <1>4

-----------------------------------------------------------------------------
(* What each call makes of it                                              *)

LEMMA HeadAdded ==
    ASSUME NEW l, NEW ns, NEW s, Chain(l, ns, s), NEW p \in Object, p \notin DOMAIN l.nodes,
           NEW e \in Element
    PROVE  LET m == AddedHead(l, p, e) IN
           /\ Chain(m, Into(ns, 1, p), Into(s, 1, e))
           /\ Back(l, ns) => Back(m, Into(ns, 1, p))
<1>0. /\ IsList(l) /\ l.count \in Nat
      /\ \A j \in 1 .. l.count :
            /\ ns[j] \in DOMAIN l.nodes /\ ns[j] # p
            /\ l.nodes[ns[j]].element = s[j]
            /\ l.nodes[ns[j]].next = IF j = l.count THEN Nil ELSE ns[j + 1]
      /\ \A i, j \in 1 .. l.count : ns[i] = ns[j] => i = j
      /\ l.count = 0 => l.head = Nil /\ l.tail = Nil
      /\ l.count # 0 => l.head = ns[1] /\ l.tail = ns[l.count] /\ l.head # Nil
  BY ChainFacts
<1>1. PICK w : w = WithNode(l, p, e, Nil, l.head) OBVIOUS
<1>2. /\ IsList(w) /\ w.head = l.head /\ w.tail = l.tail /\ w.count = l.count + 1
      /\ DOMAIN w.nodes = DOMAIN l.nodes \cup {p}
      /\ w.nodes[p].element = e /\ w.nodes[p].prev = Nil /\ w.nodes[p].next = l.head
      /\ \A x \in DOMAIN l.nodes : x # p => w.nodes[x] = l.nodes[x]
  BY <1>0, <1>1, WithNodeIs
<1>3. PICK h : h = [w EXCEPT !.head = p] OBVIOUS
<1>4. IsList(h) /\ h.head = p /\ h.tail = l.tail /\ h.count = l.count + 1 /\ h.nodes = w.nodes
  <2>1. h = AsList(p, w.tail, w.count, w.nodes) BY <1>2, <1>3, HeadSet
  <2>2. NodesOnly(w.nodes) BY <1>2 DEF IsList
  <2>. QED BY <1>2, <2>1, <2>2, ListOf, AsListIs
<1>5. PICK m : m = AddedHead(l, p, e) OBVIOUS
<1>6. m = IF l.head = Nil THEN [h EXCEPT !.tail = p] ELSE SetPrev(h, l.head, p)
  BY <1>1, <1>3, <1>5 DEF AddedHead
<1>7. /\ IsList(m) /\ m.head = p /\ m.count = l.count + 1
      /\ m.tail = IF l.count = 0 THEN p ELSE ns[l.count]
      /\ DOMAIN m.nodes = DOMAIN l.nodes \cup {p}
      /\ m.nodes[p].element = e /\ m.nodes[p].prev = Nil /\ m.nodes[p].next = l.head
      /\ \A j \in 1 .. l.count :
            /\ m.nodes[ns[j]].element = s[j]
            /\ m.nodes[ns[j]].next = IF j = l.count THEN Nil ELSE ns[j + 1]
            /\ m.nodes[ns[j]].prev = IF j = 1 THEN p ELSE l.nodes[ns[j]].prev
  <2>1. CASE l.count = 0
    <3>1. m = AsList(p, p, l.count + 1, w.nodes)
      <4>1. m = [h EXCEPT !.tail = p] BY <1>0, <1>6, <2>1
      <4>. QED BY <1>4, <4>1, TailSet
    <3>2. NodesOnly(w.nodes) BY <1>2 DEF IsList
    <3>3. IsList(m) BY <3>1, <3>2, ListOf
    <3>4. m.head = p /\ m.count = l.count + 1 /\ m.tail = p /\ m.nodes = w.nodes BY <3>1, AsListIs
    <3>5. ~ \E j \in 1 .. l.count : TRUE BY <2>1
    <3>. QED BY <1>2, <2>1, <3>3, <3>4, <3>5
  <2>2. CASE l.count # 0
    <3>1. m = SetPrev(h, ns[1], p) /\ ns[1] \in DOMAIN h.nodes /\ 1 \in 1 .. l.count /\ ns[1] # p
      BY <1>0, <1>2, <1>4, <1>6, <2>2
    <3>2. /\ IsList(m) /\ m.head = h.head /\ m.tail = h.tail /\ m.count = h.count
          /\ DOMAIN m.nodes = DOMAIN h.nodes
          /\ \A x \in DOMAIN h.nodes :
                /\ m.nodes[x].element = h.nodes[x].element
                /\ m.nodes[x].prev = IF x = ns[1] THEN p ELSE h.nodes[x].prev
                /\ m.nodes[x].next = h.nodes[x].next
      BY <1>4, <3>1, SetPrevIs
    <3>3. m.nodes[p].element = e /\ m.nodes[p].prev = Nil /\ m.nodes[p].next = l.head
      BY <1>2, <1>4, <3>1, <3>2
    <3>4. ASSUME NEW j \in 1 .. l.count
          PROVE  /\ m.nodes[ns[j]].element = s[j]
                 /\ m.nodes[ns[j]].next = IF j = l.count THEN Nil ELSE ns[j + 1]
                 /\ m.nodes[ns[j]].prev = IF j = 1 THEN p ELSE l.nodes[ns[j]].prev
      <4>1. ns[j] \in DOMAIN h.nodes /\ h.nodes[ns[j]] = l.nodes[ns[j]] BY <1>0, <1>2, <1>4
      <4>2. ns[j] = ns[1] <=> j = 1 BY <1>0, <3>1
      <4>. QED BY <1>0, <3>2, <4>1, <4>2
    <3>. QED BY <1>0, <1>2, <1>4, <2>2, <3>2, <3>3, <3>4
  <2>. QED BY <2>1, <2>2
<1>8. 1 \in 1 .. l.count + 1 /\ (1 = l.count + 1 <=> l.count = 0) BY <1>0
<1>9. Chain(m, Into(ns, 1, p), Into(s, 1, e))
  <2>1. m.nodes[p].next = IF 1 = l.count + 1 THEN Nil ELSE ns[1] BY <1>0, <1>7, <1>8
  <2>2. \A j \in 1 .. l.count :
           /\ m.nodes[ns[j]].element = s[j]
           /\ m.nodes[ns[j]].next = IF j = 1 - 1 THEN p ELSE IF j = l.count THEN Nil ELSE ns[j + 1]
    <3>1. \A j \in 1 .. l.count : j # 1 - 1 BY <1>0
    <3>. QED BY <1>7, <3>1
  <2>3. m.head = IF 1 = 1 THEN p ELSE ns[1] BY <1>7
  <2>4. m.tail = IF 1 = l.count + 1 THEN p ELSE ns[l.count] BY <1>7, <1>8
  <2>. QED BY <1>7, <1>8, <2>1, <2>2, <2>3, <2>4, ChainInto
<1>10. ASSUME Back(l, ns) PROVE Back(m, Into(ns, 1, p))
  <2>1. m.nodes[p].prev = IF 1 = 1 THEN Nil ELSE ns[1 - 1] BY <1>7
  <2>2. \A j \in 1 .. l.count :
           m.nodes[ns[j]].prev = IF j = 1 THEN p ELSE IF j = 1 THEN Nil ELSE ns[j - 1]
    BY <1>7, <1>10 DEF Back
  <2>. QED BY <1>7, <1>8, <2>1, <2>2, BackInto
<1>. QED BY <1>5, <1>9, <1>10

LEMMA TailAdded ==
    ASSUME NEW l, NEW ns, NEW s, Chain(l, ns, s), NEW p \in Object, p \notin DOMAIN l.nodes,
           NEW e \in Element
    PROVE  LET m == AddedTail(l, p, e) IN
           /\ Chain(m, Into(ns, l.count + 1, p), Into(s, l.count + 1, e))
           /\ Back(l, ns) => Back(m, Into(ns, l.count + 1, p))
<1>0. /\ IsList(l) /\ l.count \in Nat
      /\ \A j \in 1 .. l.count :
            /\ ns[j] \in DOMAIN l.nodes /\ ns[j] # p
            /\ l.nodes[ns[j]].element = s[j]
            /\ l.nodes[ns[j]].next = IF j = l.count THEN Nil ELSE ns[j + 1]
      /\ \A i, j \in 1 .. l.count : ns[i] = ns[j] => i = j
      /\ l.count = 0 => l.head = Nil /\ l.tail = Nil
      /\ l.count # 0 => l.head = ns[1] /\ l.tail = ns[l.count] /\ l.tail # Nil
  BY ChainFacts
<1>1. PICK w : w = WithNode(l, p, e, l.tail, Nil) OBVIOUS
<1>2. /\ IsList(w) /\ w.head = l.head /\ w.tail = l.tail /\ w.count = l.count + 1
      /\ DOMAIN w.nodes = DOMAIN l.nodes \cup {p}
      /\ w.nodes[p].element = e /\ w.nodes[p].prev = l.tail /\ w.nodes[p].next = Nil
      /\ \A x \in DOMAIN l.nodes : x # p => w.nodes[x] = l.nodes[x]
  BY <1>0, <1>1, WithNodeIs
<1>3. PICK h : h = [w EXCEPT !.tail = p] OBVIOUS
<1>4. IsList(h) /\ h.head = l.head /\ h.tail = p /\ h.count = l.count + 1 /\ h.nodes = w.nodes
  <2>1. h = AsList(w.head, p, w.count, w.nodes) BY <1>2, <1>3, TailSet
  <2>2. NodesOnly(w.nodes) BY <1>2 DEF IsList
  <2>. QED BY <1>2, <2>1, <2>2, ListOf, AsListIs
<1>5. PICK m : m = AddedTail(l, p, e) OBVIOUS
<1>6. m = IF l.tail = Nil THEN [h EXCEPT !.head = p] ELSE SetNext(h, l.tail, p)
  BY <1>1, <1>3, <1>5 DEF AddedTail
<1>7. /\ IsList(m) /\ m.tail = p /\ m.count = l.count + 1
      /\ m.head = IF l.count = 0 THEN p ELSE ns[1]
      /\ DOMAIN m.nodes = DOMAIN l.nodes \cup {p}
      /\ m.nodes[p].element = e /\ m.nodes[p].prev = l.tail /\ m.nodes[p].next = Nil
      /\ \A j \in 1 .. l.count :
            /\ m.nodes[ns[j]].element = s[j]
            /\ m.nodes[ns[j]].next = IF j = l.count THEN p ELSE ns[j + 1]
            /\ m.nodes[ns[j]].prev = l.nodes[ns[j]].prev
  <2>1. CASE l.count = 0
    <3>1. m = AsList(p, p, l.count + 1, w.nodes)
      <4>1. m = [h EXCEPT !.head = p] BY <1>0, <1>6, <2>1
      <4>. QED BY <1>4, <4>1, HeadSet
    <3>2. NodesOnly(w.nodes) BY <1>2 DEF IsList
    <3>3. IsList(m) BY <3>1, <3>2, ListOf
    <3>4. m.head = p /\ m.count = l.count + 1 /\ m.tail = p /\ m.nodes = w.nodes BY <3>1, AsListIs
    <3>5. ~ \E j \in 1 .. l.count : TRUE BY <2>1
    <3>. QED BY <1>2, <2>1, <3>3, <3>4, <3>5
  <2>2. CASE l.count # 0
    <3>1. /\ m = SetNext(h, ns[l.count], p) /\ ns[l.count] \in DOMAIN h.nodes
          /\ l.count \in 1 .. l.count /\ ns[l.count] # p
      BY <1>0, <1>2, <1>4, <1>6, <2>2
    <3>2. /\ IsList(m) /\ m.head = h.head /\ m.tail = h.tail /\ m.count = h.count
          /\ DOMAIN m.nodes = DOMAIN h.nodes
          /\ \A x \in DOMAIN h.nodes :
                /\ m.nodes[x].element = h.nodes[x].element
                /\ m.nodes[x].prev = h.nodes[x].prev
                /\ m.nodes[x].next = IF x = ns[l.count] THEN p ELSE h.nodes[x].next
      BY <1>4, <3>1, SetNextIs
    <3>3. m.nodes[p].element = e /\ m.nodes[p].prev = l.tail /\ m.nodes[p].next = Nil
      BY <1>2, <1>4, <3>1, <3>2
    <3>4. ASSUME NEW j \in 1 .. l.count
          PROVE  /\ m.nodes[ns[j]].element = s[j]
                 /\ m.nodes[ns[j]].next = IF j = l.count THEN p ELSE ns[j + 1]
                 /\ m.nodes[ns[j]].prev = l.nodes[ns[j]].prev
      <4>1. ns[j] \in DOMAIN h.nodes /\ h.nodes[ns[j]] = l.nodes[ns[j]] BY <1>0, <1>2, <1>4
      <4>2. ns[j] = ns[l.count] <=> j = l.count BY <1>0, <3>1
      <4>. QED BY <1>0, <3>2, <4>1, <4>2
    <3>. QED BY <1>0, <1>2, <1>4, <2>2, <3>2, <3>3, <3>4
  <2>. QED BY <2>1, <2>2
<1>8. l.count + 1 \in 1 .. l.count + 1 /\ (l.count + 1 = 1 <=> l.count = 0) /\ (l.count + 1) - 1 = l.count
  BY <1>0
<1>9. Chain(m, Into(ns, l.count + 1, p), Into(s, l.count + 1, e))
  <2> DEFINE i == l.count + 1
  <2>1. m.nodes[p].next = IF i = l.count + 1 THEN Nil ELSE ns[i] BY <1>7
  <2>2. \A j \in 1 .. l.count :
           /\ m.nodes[ns[j]].element = s[j]
           /\ m.nodes[ns[j]].next = IF j = i - 1 THEN p ELSE IF j = l.count THEN Nil ELSE ns[j + 1]
    BY <1>7, <1>8
  <2>3. m.head = IF i = 1 THEN p ELSE ns[1] BY <1>7, <1>8
  <2>4. m.tail = IF i = l.count + 1 THEN p ELSE ns[l.count] BY <1>7, <1>8
  <2>5. i \in 1 .. l.count + 1 BY <1>8
  <2>6. Chain(m, Into(ns, i, p), Into(s, i, e))
    <3> HIDE DEF i
    <3>. QED BY <1>7, <2>1, <2>2, <2>3, <2>4, <2>5, ChainInto
  <2>. QED BY <2>6
<1>10. ASSUME Back(l, ns) PROVE Back(m, Into(ns, l.count + 1, p))
  <2> DEFINE i == l.count + 1
  <2>1. m.nodes[p].prev = IF i = 1 THEN Nil ELSE ns[i - 1] BY <1>0, <1>7, <1>8
  <2>2. \A j \in 1 .. l.count :
           m.nodes[ns[j]].prev = IF j = i THEN p ELSE IF j = 1 THEN Nil ELSE ns[j - 1]
    <3>1. \A j \in 1 .. l.count : j # i BY <1>0
    <3>. QED BY <1>7, <1>10, <3>1 DEF Back
  <2>3. i \in 1 .. l.count + 1 BY <1>8
  <2>4. Back(m, Into(ns, i, p))
    <3> HIDE DEF i
    <3>. QED BY <1>7, <2>1, <2>2, <2>3, BackInto
  <2>. QED BY <2>4
<1>. QED BY <1>5, <1>9, <1>10


\* A node put between two others: the links forward decide what the list is, those back whether
\* it reads the same from its tail.
LEMMA Linked ==
    ASSUME NEW l, NEW ns, NEW s, Chain(l, ns, s), NEW p \in Object, p \notin DOMAIN l.nodes,
           NEW e \in Element, NEW i \in 2 .. l.count, NEW x \in 1 .. l.count, NEW q,
           NEW m, m = SetNext(SetPrev(WithNode(l, p, e, q, ns[i]), ns[x], p), ns[i - 1], p)
    PROVE  /\ Chain(m, Into(ns, i, p), Into(s, i, e))
           /\ (x = i /\ q = ns[i - 1] /\ Back(l, ns)) => Back(m, Into(ns, i, p))
<1>0. /\ IsList(l) /\ l.count \in Nat
      /\ \A j \in 1 .. l.count :
            /\ ns[j] \in DOMAIN l.nodes /\ ns[j] # p
            /\ l.nodes[ns[j]].element = s[j]
            /\ l.nodes[ns[j]].next = IF j = l.count THEN Nil ELSE ns[j + 1]
      /\ \A j, k \in 1 .. l.count : ns[j] = ns[k] => j = k
      /\ l.count # 0 => l.head = ns[1] /\ l.tail = ns[l.count]
  BY ChainFacts
<1>1. /\ i \in 1 .. l.count /\ i - 1 \in 1 .. l.count /\ i \in 1 .. l.count + 1
      /\ i # 1 /\ i # l.count + 1 /\ l.count # 0
  <2>1. l.count \in Nat BY <1>0
  <2>. QED BY <2>1
<1>2. PICK w : w = WithNode(l, p, e, q, ns[i]) OBVIOUS
<1>3. /\ IsList(w) /\ w.head = l.head /\ w.tail = l.tail /\ w.count = l.count + 1
      /\ DOMAIN w.nodes = DOMAIN l.nodes \cup {p}
      /\ w.nodes[p].element = e /\ w.nodes[p].prev = q /\ w.nodes[p].next = ns[i]
      /\ \A y \in DOMAIN l.nodes : y # p => w.nodes[y] = l.nodes[y]
  BY <1>0, <1>2, WithNodeIs
<1>4. PICK v : v = SetPrev(w, ns[x], p) OBVIOUS
<1>5. /\ IsList(v) /\ v.head = w.head /\ v.tail = w.tail /\ v.count = w.count
      /\ DOMAIN v.nodes = DOMAIN w.nodes
      /\ \A y \in DOMAIN w.nodes :
            /\ v.nodes[y].element = w.nodes[y].element
            /\ v.nodes[y].prev = IF y = ns[x] THEN p ELSE w.nodes[y].prev
            /\ v.nodes[y].next = w.nodes[y].next
  <2>1. ns[x] \in DOMAIN w.nodes BY <1>0, <1>3
  <2>. QED BY <1>3, <1>4, <2>1, SetPrevIs
<1>6. m = SetNext(v, ns[i - 1], p) BY <1>2, <1>4
<1>7. /\ IsList(m) /\ m.head = v.head /\ m.tail = v.tail /\ m.count = v.count
      /\ DOMAIN m.nodes = DOMAIN v.nodes
      /\ \A y \in DOMAIN v.nodes :
            /\ m.nodes[y].element = v.nodes[y].element
            /\ m.nodes[y].prev = v.nodes[y].prev
            /\ m.nodes[y].next = IF y = ns[i - 1] THEN p ELSE v.nodes[y].next
  <2>1. ns[i - 1] \in DOMAIN v.nodes BY <1>0, <1>1, <1>3, <1>5
  <2>. QED BY <1>5, <1>6, <2>1, SetNextIs
<1>8. /\ IsList(m) /\ m.head = ns[1] /\ m.tail = ns[l.count] /\ m.count = l.count + 1
      /\ DOMAIN m.nodes = DOMAIN l.nodes \cup {p}
      /\ m.nodes[p].element = e /\ m.nodes[p].prev = q /\ m.nodes[p].next = ns[i]
  <2>1. p \in DOMAIN w.nodes /\ p \in DOMAIN v.nodes BY <1>3, <1>5
  <2>2. p # ns[x] /\ p # ns[i - 1] BY <1>0, <1>1
  <2>. QED BY <1>0, <1>1, <1>3, <1>5, <1>7, <2>1, <2>2
<1>9. ASSUME NEW j \in 1 .. l.count
      PROVE  /\ m.nodes[ns[j]].element = s[j]
             /\ m.nodes[ns[j]].next = IF j = i - 1 THEN p ELSE IF j = l.count THEN Nil ELSE ns[j + 1]
             /\ m.nodes[ns[j]].prev = IF j = x THEN p ELSE l.nodes[ns[j]].prev
  <2>1. /\ ns[j] \in DOMAIN w.nodes /\ ns[j] \in DOMAIN v.nodes
        /\ w.nodes[ns[j]] = l.nodes[ns[j]]
    BY <1>0, <1>3, <1>5
  <2>2. ns[j] = ns[i - 1] <=> j = i - 1 BY <1>0, <1>1
  <2>3. ns[j] = ns[x] <=> j = x BY <1>0
  <2>. QED BY <1>0, <1>5, <1>7, <2>1, <2>2, <2>3
<1>10. Chain(m, Into(ns, i, p), Into(s, i, e))
  <2>1. m.nodes[p].next = IF i = l.count + 1 THEN Nil ELSE ns[i] BY <1>1, <1>8
  <2>2. m.head = IF i = 1 THEN p ELSE ns[1] BY <1>1, <1>8
  <2>3. m.tail = IF i = l.count + 1 THEN p ELSE ns[l.count] BY <1>1, <1>8
  <2>4. \A j \in 1 .. l.count :
           /\ m.nodes[ns[j]].element = s[j]
           /\ m.nodes[ns[j]].next = IF j = i - 1 THEN p ELSE IF j = l.count THEN Nil ELSE ns[j + 1]
    BY <1>9, Zenon
  <2>5. /\ IsList(m) /\ m.count = l.count + 1 /\ DOMAIN m.nodes = DOMAIN l.nodes \cup {p}
        /\ m.nodes[p].element = e /\ i \in 1 .. l.count + 1
    BY <1>1, <1>8, Zenon
  <2>. QED BY <2>1, <2>2, <2>3, <2>4, <2>5, ChainInto, SMTT(30)
<1>11. ASSUME x = i, q = ns[i - 1], Back(l, ns) PROVE Back(m, Into(ns, i, p))
  <2>1. m.nodes[p].prev = IF i = 1 THEN Nil ELSE ns[i - 1] BY <1>1, <1>8, <1>11
  <2>2. \A j \in 1 .. l.count :
           m.nodes[ns[j]].prev = IF j = i THEN p ELSE IF j = 1 THEN Nil ELSE ns[j - 1]
    BY <1>9, <1>11 DEF Back
  <2>. QED BY <1>1, <1>8, <2>1, <2>2, BackInto
<1>. QED BY <1>10, <1>11

LEMMA BeforeAdded ==
    ASSUME NEW l, NEW ns, NEW s, Chain(l, ns, s), NEW p \in Object, p \notin DOMAIN l.nodes,
           NEW e \in Element, NEW index \in 1 .. l.count - 1
    PROVE  LET m == AddedBefore(l, p, e, index) IN
           /\ Chain(m, Into(ns, index + 1, p), Into(s, index + 1, e))
           /\ Back(l, ns) => Back(m, Into(ns, index + 1, p))
<1> DEFINE i == index + 1
<1>0. l.count \in Nat BY ChainFacts
<1>1. /\ i \in 2 .. l.count /\ i \in 1 .. l.count /\ i - 1 = index /\ i # 1
      /\ index - 1 \in Nat /\ index - 1 < l.count /\ (index - 1) + 1 = index
      /\ index \in Nat /\ index < l.count
  BY <1>0
<1>2. GetIndexPos(l, index - 1) = ns[i - 1] /\ GetIndexPos(l, index) = ns[i]
  <2>1. GetIndexPos(l, index - 1) = ns[(index - 1) + 1] BY <1>1, WalkIs
  <2>2. GetIndexPos(l, index) = ns[index + 1] BY <1>1, WalkIs
  <2>. QED BY <1>1, <2>1, <2>2
<1> HIDE DEF i
<1>3. PICK q : q = l.nodes[ns[i]].prev OBVIOUS
<1>4. AddedBefore(l, p, e, index)
        = SetNext(SetPrev(WithNode(l, p, e, q, ns[i]), ns[i], p), ns[i - 1], p)
  BY <1>2, <1>3 DEF AddedBefore, GetPrevPos
<1>5. PICK x \in 1 .. l.count : x = i BY <1>1
<1>6. AddedBefore(l, p, e, index)
        = SetNext(SetPrev(WithNode(l, p, e, q, ns[i]), ns[x], p), ns[i - 1], p)
  BY <1>4, <1>5
<1>7. /\ Chain(AddedBefore(l, p, e, index), Into(ns, i, p), Into(s, i, e))
      /\ (x = i /\ q = ns[i - 1] /\ Back(l, ns)) => Back(AddedBefore(l, p, e, index), Into(ns, i, p))
  BY <1>1, <1>6, Linked, Zenon
<1>8. Back(l, ns) => q = ns[i - 1] BY <1>1, <1>3 DEF Back
<1>. QED BY <1>5, <1>7, <1>8 DEF i

LEMMA AfterAdded ==
    ASSUME NEW l, NEW ns, NEW s, Chain(l, ns, s), NEW p \in Object, p \notin DOMAIN l.nodes,
           NEW e \in Element, NEW index \in 1 .. l.count - 2
    PROVE  Chain(AddedAfter(l, p, e, index), Into(ns, index + 2, p), Into(s, index + 2, e))
<1> DEFINE i == index + 2
<1>0. l.count \in Nat BY ChainFacts
<1>1. /\ i \in 2 .. l.count /\ i - 1 = index + 1 /\ i - 1 \in 1 .. l.count /\ i - 1 # l.count
      /\ (i - 1) + 1 = i /\ index \in 1 .. l.count
      /\ index - 1 \in Nat /\ index - 1 < l.count /\ (index - 1) + 1 = index
      /\ index \in Nat /\ index < l.count
  BY <1>0
<1>2. GetIndexPos(l, index - 1) = ns[index] /\ GetIndexPos(l, index) = ns[i - 1]
  <2>1. GetIndexPos(l, index - 1) = ns[(index - 1) + 1] BY <1>1, WalkIs
  <2>2. GetIndexPos(l, index) = ns[index + 1] BY <1>1, WalkIs
  <2>. QED BY <1>1, <2>1, <2>2
<1> HIDE DEF i
<1>3. l.nodes[ns[i - 1]].next = ns[i] BY <1>1, ChainFacts
<1>4. AddedAfter(l, p, e, index)
        = SetNext(SetPrev(WithNode(l, p, e, ns[i - 1], ns[i]), ns[index], p), ns[i - 1], p)
  BY <1>2, <1>3 DEF AddedAfter, GetNextPos
<1>5. Chain(AddedAfter(l, p, e, index), Into(ns, i, p), Into(s, i, e)) BY <1>1, <1>4, Linked
<1>. QED BY <1>5 DEF i


\* The list of a CList that has been emptied.
LEMMA Emptied ==
    ASSUME NEW ns, NEW s, ns \in Seq(Object), s \in Seq(Element), Len(ns) = 1, Len(s) = 1
    PROVE  /\ Chain(NoList, Without(ns, 1), Without(s, 1))
           /\ Back(NoList, Without(ns, 1))
<1>1. NoList = AsList(Nil, Nil, 0, <<>>) BY DEF NoList, AsList
<1>2. NodesOnly(<<>>) /\ DOMAIN <<>> = {} BY DEF NodesOnly
<1>3. /\ IsList(NoList) /\ NoList.count = 0 /\ NoList.head = Nil /\ NoList.tail = Nil
      /\ NoList.nodes = <<>>
  BY <1>1, <1>2, ListOf, AsListIs
<1>4. 1 \in 1 .. Len(ns) /\ 1 \in 1 .. Len(s) OBVIOUS
<1>5. Without(ns, 1) \in Seq(Object) /\ Len(Without(ns, 1)) = Len(ns) - 1 BY <1>4, WithoutIs, Zenon
<1>6. Without(s, 1) \in Seq(Element) /\ Len(Without(s, 1)) = Len(s) - 1 BY <1>4, WithoutIs, Zenon
<1>7. PICK t : t = Without(ns, 1) OBVIOUS
<1>8. PICK u : u = Without(s, 1) OBVIOUS
<1>9. t \in Seq(Object) /\ Len(t) = 0 /\ u \in Seq(Element) /\ Len(u) = 0
  BY <1>5, <1>6, <1>7, <1>8
<1>10. 0 \in Nat /\ ~ \E j \in 1 .. 0 : TRUE OBVIOUS
<1>11. DOMAIN NoList.nodes = {t[j] : j \in 1 .. 0} BY <1>2, <1>3
<1>12. /\ \A j, k \in 1 .. 0 : t[j] = t[k] => j = k
       /\ \A j \in 1 .. 0 : /\ NoList.nodes[t[j]].element = u[j]
                            /\ NoList.nodes[t[j]].next = IF j = 0 THEN Nil ELSE t[j + 1]
       /\ NoList.head = (IF 0 = 0 THEN Nil ELSE t[1]) /\ NoList.tail = (IF 0 = 0 THEN Nil ELSE t[0])
  BY <1>3, <1>10
<1>13. Chain(NoList, t, u)
  <2> DEFINE l == NoList
  <2>1. /\ IsList(l) /\ l.count = 0 /\ DOMAIN l.nodes = {t[j] : j \in 1 .. 0}
        /\ \A j, k \in 1 .. 0 : t[j] = t[k] => j = k
        /\ \A j \in 1 .. 0 : /\ l.nodes[t[j]].element = u[j]
                             /\ l.nodes[t[j]].next = IF j = 0 THEN Nil ELSE t[j + 1]
        /\ l.head = (IF 0 = 0 THEN Nil ELSE t[1]) /\ l.tail = (IF 0 = 0 THEN Nil ELSE t[0])
    BY <1>3, <1>11, <1>12
  <2> HIDE DEF l
  <2>2. Chain(l, t, u) BY <1>9, <1>10, <2>1, ChainIs
  <2>. QED BY <2>2 DEF l
<1>14. Back(NoList, t) BY <1>3, <1>10 DEF Back
<1>. QED BY <1>7, <1>8, <1>13, <1>14

LEMMA HeadDeleted ==
    ASSUME NEW l, NEW ns, NEW s, Chain(l, ns, s), l.head # Nil
    PROVE  LET m == DeletedHead(l) IN
           /\ l.count # 0 /\ l.head = ns[1]
           /\ Chain(m, Without(ns, 1), Without(s, 1))
           /\ Back(l, ns) => Back(m, Without(ns, 1))
<1>0. /\ IsList(l) /\ l.count \in Nat /\ ns \in Seq(Object) /\ s \in Seq(Element)
      /\ Len(ns) = l.count /\ Len(s) = l.count
      /\ \A j \in 1 .. l.count :
            /\ ns[j] \in DOMAIN l.nodes
            /\ l.nodes[ns[j]].element = s[j]
            /\ l.nodes[ns[j]].next = IF j = l.count THEN Nil ELSE ns[j + 1]
      /\ \A j, k \in 1 .. l.count : ns[j] = ns[k] => j = k
      /\ l.count = 0 => l.head = Nil
      /\ l.count # 0 => l.head = ns[1] /\ l.tail = ns[l.count]
  BY ChainFacts
<1>1. l.count # 0 /\ 1 \in 1 .. l.count /\ l.count \in 1 .. l.count
  <2>1. l.count \in Nat /\ l.count # 0 BY <1>0
  <2>. QED BY <2>1
<1>2. l.head = l.tail <=> l.count = 1 BY <1>0, <1>1
<1>3. CASE l.count = 1
  <2>1. DeletedHead(l) = NoList BY <1>2, <1>3 DEF DeletedHead
  <2>2. Chain(NoList, Without(ns, 1), Without(s, 1)) /\ Back(NoList, Without(ns, 1))
    BY <1>0, <1>3, Emptied
  <2>. QED BY <1>0, <1>1, <2>1, <2>2
<1>4. CASE l.count # 1
  <2>0. l.count > 1 /\ 2 \in 1 .. l.count /\ 1 # l.count
    <3>1. l.count \in Nat BY <1>0
    <3>. QED BY <1>1, <1>4, <3>1
  <2>1. PICK h : h = [l EXCEPT !.head = ns[2]] OBVIOUS
  <2>2. IsList(h) /\ h.head = ns[2] /\ h.tail = l.tail /\ h.count = l.count /\ h.nodes = l.nodes
    <3>1. h = AsList(ns[2], l.tail, l.count, l.nodes) BY <1>0, <2>1, HeadSet
    <3>2. NodesOnly(l.nodes) BY <1>0 DEF IsList
    <3>. QED BY <3>1, <3>2, ListOf, AsListIs
  <2>3. PICK v : v = SetPrev(h, ns[2], Nil) OBVIOUS
  <2>4. /\ IsList(v) /\ v.head = h.head /\ v.tail = h.tail /\ v.count = h.count
        /\ DOMAIN v.nodes = DOMAIN h.nodes
        /\ \A y \in DOMAIN h.nodes :
              /\ v.nodes[y].element = h.nodes[y].element
              /\ v.nodes[y].prev = IF y = ns[2] THEN Nil ELSE h.nodes[y].prev
              /\ v.nodes[y].next = h.nodes[y].next
    <3>1. ns[2] \in DOMAIN h.nodes BY <1>0, <2>0, <2>2
    <3>. QED BY <2>2, <2>3, <3>1, SetPrevIs
  <2>5. PICK m : m = WithoutNode(v, ns[1]) OBVIOUS
  <2>6. /\ IsList(m) /\ m.head = v.head /\ m.tail = v.tail /\ m.count = v.count - 1
        /\ DOMAIN m.nodes = DOMAIN v.nodes \ {ns[1]}
        /\ \A y \in DOMAIN v.nodes : y # ns[1] => m.nodes[y] = v.nodes[y]
    BY <2>4, <2>5, WithoutNodeIs
  <2>7. DeletedHead(l) = m
    <3>1. GetNextPos(l, l.head) = ns[2]
      <4>1. l.nodes[ns[1]].next = ns[1 + 1] BY <1>0, <1>1, <2>0
      <4>. QED BY <1>0, <1>1, <4>1 DEF GetNextPos
    <3>2. DeletedHead(l) = WithoutNode(SetPrev([l EXCEPT !.head = ns[2]], ns[2], Nil), ns[1])
      BY <1>0, <1>1, <1>2, <1>4, <3>1 DEF DeletedHead
    <3>. QED BY <2>1, <2>3, <2>5, <3>2
  <2>8. ASSUME NEW j \in 1 .. l.count, j # 1
        PROVE  /\ m.nodes[ns[j]].element = s[j]
               /\ m.nodes[ns[j]].next = IF j = l.count THEN Nil ELSE ns[j + 1]
               /\ m.nodes[ns[j]].prev = IF j = 2 THEN Nil ELSE l.nodes[ns[j]].prev
    <3>1. ns[j] # ns[1] /\ (ns[j] = ns[2] <=> j = 2) BY <1>0, <1>1, <2>0, <2>8
    <3>2. ns[j] \in DOMAIN h.nodes /\ ns[j] \in DOMAIN v.nodes BY <1>0, <2>2, <2>4
    <3>3. m.nodes[ns[j]] = v.nodes[ns[j]] /\ h.nodes[ns[j]] = l.nodes[ns[j]]
      BY <2>2, <2>6, <3>1, <3>2
    <3>4. /\ v.nodes[ns[j]].element = h.nodes[ns[j]].element
          /\ v.nodes[ns[j]].prev = IF ns[j] = ns[2] THEN Nil ELSE h.nodes[ns[j]].prev
          /\ v.nodes[ns[j]].next = h.nodes[ns[j]].next
      BY <2>4, <3>2
    <3>. QED BY <1>0, <3>1, <3>3, <3>4
  <2>9. Chain(m, Without(ns, 1), Without(s, 1))
    <3>1. \A j \in 1 .. l.count : j # 1 =>
             /\ m.nodes[ns[j]].element = s[j]
             /\ m.nodes[ns[j]].next = IF j = 1 - 1 THEN IF 1 = l.count THEN Nil ELSE ns[1 + 1]
                                      ELSE IF j = l.count THEN Nil ELSE ns[j + 1]
      <4>1. \A j \in 1 .. l.count : j # 1 - 1 OBVIOUS
      <4>. QED BY <2>8, <4>1
    <3>2. m.head = IF 1 = 1 THEN ns[2] ELSE ns[1] BY <2>2, <2>4, <2>6
    <3>3. m.tail = IF 1 = l.count THEN ns[l.count - 1] ELSE ns[l.count]
      BY <1>0, <1>1, <2>0, <2>2, <2>4, <2>6
    <3>4. m.count = l.count - 1 /\ DOMAIN m.nodes = DOMAIN l.nodes \ {ns[1]}
      BY <2>2, <2>4, <2>6
    <3>. QED BY <1>1, <2>0, <2>6, <3>1, <3>2, <3>3, <3>4, ChainOut
  <2>10. ASSUME Back(l, ns) PROVE Back(m, Without(ns, 1))
    <3>1. \A j \in 1 .. l.count : j # 1 =>
             m.nodes[ns[j]].prev = IF j = 1 + 1 THEN IF 1 = 1 THEN Nil ELSE ns[1 - 1]
                                   ELSE IF j = 1 THEN Nil ELSE ns[j - 1]
      BY <2>8, <2>10 DEF Back
    <3>2. m.count = l.count - 1 BY <2>2, <2>4, <2>6
    <3>. QED BY <1>1, <3>1, <3>2, BackOut
  <2>. QED BY <1>0, <1>1, <2>7, <2>9, <2>10
<1>. QED BY <1>3, <1>4

LEMMA TailDeleted ==
    ASSUME NEW l, NEW ns, NEW s, Chain(l, ns, s), l.tail # Nil
    PROVE  LET m == DeletedTail(l) IN
           /\ l.count # 0 /\ l.tail = ns[l.count]
           /\ Chain(m, Without(ns, l.count), Without(s, l.count))
           /\ Back(l, ns) => Back(m, Without(ns, l.count))
<1>0. /\ IsList(l) /\ l.count \in Nat /\ ns \in Seq(Object) /\ s \in Seq(Element)
      /\ Len(ns) = l.count /\ Len(s) = l.count
      /\ \A j \in 1 .. l.count :
            /\ ns[j] \in DOMAIN l.nodes
            /\ l.nodes[ns[j]].element = s[j]
            /\ l.nodes[ns[j]].next = IF j = l.count THEN Nil ELSE ns[j + 1]
      /\ \A j, k \in 1 .. l.count : ns[j] = ns[k] => j = k
      /\ l.count = 0 => l.tail = Nil
      /\ l.count # 0 => l.head = ns[1] /\ l.tail = ns[l.count]
  BY ChainFacts
<1>1. l.count # 0 /\ 1 \in 1 .. l.count /\ l.count \in 1 .. l.count
  <2>1. l.count \in Nat /\ l.count # 0 BY <1>0
  <2>. QED BY <2>1
<1>2. l.head = l.tail <=> l.count = 1 BY <1>0, <1>1
<1>3. CASE l.count = 1
  <2>1. DeletedTail(l) = NoList BY <1>2, <1>3 DEF DeletedTail
  <2>2. Chain(NoList, Without(ns, 1), Without(s, 1)) /\ Back(NoList, Without(ns, 1))
    BY <1>0, <1>3, Emptied
  <2>. QED BY <1>0, <1>1, <1>3, <2>1, <2>2
<1>4. CASE l.count # 1
  <2> DEFINE n == l.count
  <2>0. /\ l.count > 1 /\ n - 1 \in 1 .. n /\ 1 # n /\ n - 1 # n
        /\ n - 2 \in Nat /\ n - 2 < n /\ (n - 2) + 1 = n - 1
        /\ n - 1 \in Nat /\ n - 1 < n /\ (n - 1) + 1 = n
    <3>1. n \in Nat BY <1>0
    <3>. QED BY <1>1, <1>4, <3>1
  <2>1. PICK h : h = [l EXCEPT !.tail = ns[n - 1]] OBVIOUS
  <2>2. IsList(h) /\ h.head = l.head /\ h.tail = ns[n - 1] /\ h.count = n /\ h.nodes = l.nodes
    <3>1. h = AsList(l.head, ns[n - 1], n, l.nodes) BY <1>0, <2>1, TailSet
    <3>2. NodesOnly(l.nodes) BY <1>0 DEF IsList
    <3>. QED BY <3>1, <3>2, ListOf, AsListIs
  <2>3. PICK v : v = SetNext(h, ns[n - 1], Nil) OBVIOUS
  <2>4. /\ IsList(v) /\ v.head = h.head /\ v.tail = h.tail /\ v.count = h.count
        /\ DOMAIN v.nodes = DOMAIN h.nodes
        /\ \A y \in DOMAIN h.nodes :
              /\ v.nodes[y].element = h.nodes[y].element
              /\ v.nodes[y].prev = h.nodes[y].prev
              /\ v.nodes[y].next = IF y = ns[n - 1] THEN Nil ELSE h.nodes[y].next
    <3>1. ns[n - 1] \in DOMAIN h.nodes BY <1>0, <2>0, <2>2
    <3>. QED BY <2>2, <2>3, <3>1, SetNextIs
  <2>5. PICK m : m = WithoutNode(v, ns[n]) OBVIOUS
  <2>6. /\ IsList(m) /\ m.head = v.head /\ m.tail = v.tail /\ m.count = v.count - 1
        /\ DOMAIN m.nodes = DOMAIN v.nodes \ {ns[n]}
        /\ \A y \in DOMAIN v.nodes : y # ns[n] => m.nodes[y] = v.nodes[y]
    BY <2>4, <2>5, WithoutNodeIs
  <2>7. DeletedTail(l) = m
    <3>1. GetIndexPos(l, n - 2) = ns[n - 1]
      <4>1. GetIndexPos(l, n - 2) = ns[(n - 2) + 1] BY <2>0, WalkIs
      <4>. QED BY <2>0, <4>1
    <3>2. GetIndexPos(l, n - 1) = ns[n]
      <4>1. GetIndexPos(l, n - 1) = ns[(n - 1) + 1] BY <2>0, WalkIs
      <4>. QED BY <2>0, <4>1
    <3>3. DeletedTail(l) = WithoutNode(SetNext([l EXCEPT !.tail = ns[n - 1]], ns[n - 1], Nil), ns[n])
      BY <1>2, <1>4, <3>1, <3>2 DEF DeletedTail
    <3>. QED BY <2>1, <2>3, <2>5, <3>3
  <2>8. ASSUME NEW j \in 1 .. l.count, j # n
        PROVE  /\ m.nodes[ns[j]].element = s[j]
               /\ m.nodes[ns[j]].next = IF j = n - 1 THEN Nil ELSE ns[j + 1]
               /\ m.nodes[ns[j]].prev = l.nodes[ns[j]].prev
    <3>1. ns[j] # ns[n] /\ (ns[j] = ns[n - 1] <=> j = n - 1) BY <1>0, <1>1, <2>0, <2>8
    <3>2. ns[j] \in DOMAIN h.nodes /\ ns[j] \in DOMAIN v.nodes BY <1>0, <2>2, <2>4
    <3>. QED BY <1>0, <2>2, <2>4, <2>6, <2>8, <3>1, <3>2
  <2>9. Chain(m, Without(ns, n), Without(s, n))
    <3>1. \A j \in 1 .. l.count : j # n =>
             /\ m.nodes[ns[j]].element = s[j]
             /\ m.nodes[ns[j]].next = IF j = n - 1 THEN IF n = l.count THEN Nil ELSE ns[n + 1]
                                      ELSE IF j = l.count THEN Nil ELSE ns[j + 1]
      BY <2>8
    <3>2. m.head = IF n = 1 THEN ns[2] ELSE ns[1] BY <1>0, <1>1, <2>0, <2>2, <2>4, <2>6
    <3>3. m.tail = IF n = l.count THEN ns[l.count - 1] ELSE ns[l.count] BY <2>2, <2>4, <2>6
    <3>4. m.count = l.count - 1 /\ DOMAIN m.nodes = DOMAIN l.nodes \ {ns[n]} BY <2>2, <2>4, <2>6
    <3>5. n \in 1 .. l.count BY <1>1
    <3> HIDE DEF n
    <3>. QED BY <2>0, <2>6, <3>1, <3>2, <3>3, <3>4, <3>5, ChainOut
  <2>10. ASSUME Back(l, ns) PROVE Back(m, Without(ns, n))
    <3>1. \A j \in 1 .. l.count : j # n =>
             m.nodes[ns[j]].prev = IF j = n + 1 THEN IF n = 1 THEN Nil ELSE ns[n - 1]
                                   ELSE IF j = 1 THEN Nil ELSE ns[j - 1]
      <4>1. \A j \in 1 .. l.count : j # n + 1 BY <1>0
      <4>. QED BY <2>8, <2>10, <4>1 DEF Back
    <3>2. m.count = l.count - 1 BY <2>2, <2>4, <2>6
    <3>3. n \in 1 .. l.count BY <1>1
    <3> HIDE DEF n
    <3>. QED BY <3>1, <3>2, <3>3, BackOut
  <2>. QED BY <1>0, <1>1, <2>7, <2>9, <2>10
<1>. QED BY <1>3, <1>4


LEMMA BetweenDeleted ==
    ASSUME NEW l, NEW ns, NEW s, Chain(l, ns, s), NEW i \in 2 .. l.count - 1
    PROVE  LET m == DeletedBetween(l, ns[i - 1], ns[i]) IN
           /\ Chain(m, Without(ns, i), Without(s, i))
           /\ Back(l, ns) => Back(m, Without(ns, i))
<1>0. /\ IsList(l) /\ l.count \in Nat
      /\ \A j \in 1 .. l.count :
            /\ ns[j] \in DOMAIN l.nodes
            /\ l.nodes[ns[j]].element = s[j]
            /\ l.nodes[ns[j]].next = IF j = l.count THEN Nil ELSE ns[j + 1]
      /\ \A j, k \in 1 .. l.count : ns[j] = ns[k] => j = k
      /\ l.count # 0 => l.head = ns[1] /\ l.tail = ns[l.count]
  BY ChainFacts
<1>1. /\ i \in 1 .. l.count /\ i - 1 \in 1 .. l.count /\ i + 1 \in 1 .. l.count
      /\ i # 1 /\ i # l.count /\ l.count # 0 /\ l.count > 1
      /\ i - 1 # i /\ i + 1 # i /\ i - 1 # i + 1
  <2>1. l.count \in Nat BY <1>0
  <2>. QED BY <2>1
<1>2. l.nodes[ns[i]].next = ns[i + 1] BY <1>0, <1>1
<1>3. PICK v : v = SetPrev(l, ns[i + 1], ns[i - 1]) OBVIOUS
<1>4. /\ IsList(v) /\ v.head = l.head /\ v.tail = l.tail /\ v.count = l.count
      /\ DOMAIN v.nodes = DOMAIN l.nodes
      /\ \A y \in DOMAIN l.nodes :
            /\ v.nodes[y].element = l.nodes[y].element
            /\ v.nodes[y].prev = IF y = ns[i + 1] THEN ns[i - 1] ELSE l.nodes[y].prev
            /\ v.nodes[y].next = l.nodes[y].next
  <2>1. ns[i + 1] \in DOMAIN l.nodes BY <1>0, <1>1
  <2>. QED BY <1>0, <1>3, <2>1, SetPrevIs
<1>5. PICK w : w = SetNext(v, ns[i - 1], ns[i + 1]) OBVIOUS
<1>6. /\ IsList(w) /\ w.head = v.head /\ w.tail = v.tail /\ w.count = v.count
      /\ DOMAIN w.nodes = DOMAIN v.nodes
      /\ \A y \in DOMAIN v.nodes :
            /\ w.nodes[y].element = v.nodes[y].element
            /\ w.nodes[y].prev = v.nodes[y].prev
            /\ w.nodes[y].next = IF y = ns[i - 1] THEN ns[i + 1] ELSE v.nodes[y].next
  <2>1. ns[i - 1] \in DOMAIN v.nodes BY <1>0, <1>1, <1>4
  <2>. QED BY <1>4, <1>5, <2>1, SetNextIs
<1>7. PICK m : m = WithoutNode(w, ns[i]) OBVIOUS
<1>8. /\ IsList(m) /\ m.head = w.head /\ m.tail = w.tail /\ m.count = w.count - 1
      /\ DOMAIN m.nodes = DOMAIN w.nodes \ {ns[i]}
      /\ \A y \in DOMAIN w.nodes : y # ns[i] => m.nodes[y] = w.nodes[y]
  BY <1>6, <1>7, WithoutNodeIs
<1>9. DeletedBetween(l, ns[i - 1], ns[i]) = m
  BY <1>2, <1>3, <1>5, <1>7 DEF DeletedBetween, GetNextPos
<1>10. ASSUME NEW j \in 1 .. l.count, j # i
       PROVE  /\ m.nodes[ns[j]].element = s[j]
              /\ m.nodes[ns[j]].next = IF j = i - 1 THEN ns[i + 1]
                                       ELSE IF j = l.count THEN Nil ELSE ns[j + 1]
              /\ m.nodes[ns[j]].prev = IF j = i + 1 THEN ns[i - 1] ELSE l.nodes[ns[j]].prev
  <2>1. /\ ns[j] # ns[i] /\ (ns[j] = ns[i - 1] <=> j = i - 1)
        /\ (ns[j] = ns[i + 1] <=> j = i + 1)
    BY <1>0, <1>1, <1>10
  <2>2. ns[j] \in DOMAIN l.nodes /\ ns[j] \in DOMAIN v.nodes /\ ns[j] \in DOMAIN w.nodes
    BY <1>0, <1>4, <1>6
  <2>3. m.nodes[ns[j]] = w.nodes[ns[j]] BY <1>8, <2>1, <2>2
  <2>4. /\ w.nodes[ns[j]].element = v.nodes[ns[j]].element
        /\ w.nodes[ns[j]].prev = v.nodes[ns[j]].prev
        /\ w.nodes[ns[j]].next = IF ns[j] = ns[i - 1] THEN ns[i + 1] ELSE v.nodes[ns[j]].next
    BY <1>6, <2>2
  <2>5. /\ v.nodes[ns[j]].element = l.nodes[ns[j]].element
        /\ v.nodes[ns[j]].prev = IF ns[j] = ns[i + 1] THEN ns[i - 1] ELSE l.nodes[ns[j]].prev
        /\ v.nodes[ns[j]].next = l.nodes[ns[j]].next
    BY <1>4, <2>2
  <2>6. /\ l.nodes[ns[j]].element = s[j]
        /\ l.nodes[ns[j]].next = IF j = l.count THEN Nil ELSE ns[j + 1]
    BY <1>0
  <2>. QED BY <2>1, <2>3, <2>4, <2>5, <2>6
<1>11. m.count = l.count - 1 /\ DOMAIN m.nodes = DOMAIN l.nodes \ {ns[i]}
  BY <1>4, <1>6, <1>8
<1>12. Chain(m, Without(ns, i), Without(s, i))
  <2>1. \A j \in 1 .. l.count : j # i =>
           /\ m.nodes[ns[j]].element = s[j]
           /\ m.nodes[ns[j]].next = IF j = i - 1 THEN IF i = l.count THEN Nil ELSE ns[i + 1]
                                    ELSE IF j = l.count THEN Nil ELSE ns[j + 1]
    BY <1>1, <1>10
  <2>2. m.head = IF i = 1 THEN ns[2] ELSE ns[1] BY <1>0, <1>1, <1>4, <1>6, <1>8
  <2>3. m.tail = IF i = l.count THEN ns[l.count - 1] ELSE ns[l.count]
    BY <1>0, <1>1, <1>4, <1>6, <1>8
  <2>4. i \in 1 .. l.count /\ l.count > 1 BY <1>1
  <2>. QED BY <1>8, <1>11, <2>1, <2>2, <2>3, <2>4, ChainOut
<1>13. ASSUME Back(l, ns) PROVE Back(m, Without(ns, i))
  <2>1. \A j \in 1 .. l.count : j # i =>
           m.nodes[ns[j]].prev = IF j = i + 1 THEN IF i = 1 THEN Nil ELSE ns[i - 1]
                                 ELSE IF j = 1 THEN Nil ELSE ns[j - 1]
    BY <1>1, <1>10, <1>13 DEF Back
  <2>2. i \in 1 .. l.count BY <1>1
  <2>. QED BY <1>11, <2>1, <2>2, BackOut
<1>. QED BY <1>9, <1>12, <1>13


-----------------------------------------------------------------------------
(* The same calls on a sequence                                            *)

LEMMA Fronted ==
    ASSUME NEW S, NEW s \in Seq(S), NEW x \in S
    PROVE  <<x>> \o s = Into(s, 1, x)
<1>1. 1 \in 1 .. Len(s) + 1 /\ Len(s) \in Nat OBVIOUS
<1>2. PICK u : u = Into(s, 1, x) OBVIOUS
<1>3. /\ u \in Seq(S) /\ Len(u) = Len(s) + 1
      /\ \A j \in 1 .. Len(s) + 1 : u[j] = IF j < 1 THEN s[j] ELSE IF j = 1 THEN x ELSE s[j - 1]
  BY <1>1, <1>2, IntoNamed, SMTT(30)
<1>4. PICK h : h = <<x>> OBVIOUS
<1>5. h \in Seq(S) /\ Len(h) = 1 /\ h[1] = x BY <1>4
<1>6. PICK t : t = h \o s OBVIOUS
<1>7. /\ t \in Seq(S) /\ Len(t) = Len(h) + Len(s)
      /\ \A j \in 1 .. Len(h) + Len(s) : t[j] = IF j <= Len(h) THEN h[j] ELSE s[j - Len(h)]
  BY <1>5, <1>6, ConcatProperties, Zenon
<1>8. ASSUME NEW j \in 1 .. Len(t) PROVE t[j] = u[j]
  <2>1. j \in 1 .. Len(s) + 1 /\ j \in 1 .. Len(h) + Len(s) BY <1>1, <1>5, <1>7
  <2>2. CASE j = 1
    <3>1. t[1] = h[1] BY <1>5, <1>7, <2>1, <2>2
    <3>2. u[1] = x BY <1>1, <1>3
    <3>. QED BY <1>5, <2>2, <3>1, <3>2
  <2>3. CASE j # 1
    <3>1. ~(j <= 1) /\ ~(j < 1) BY <1>1, <2>1, <2>3
    <3>. QED BY <1>3, <1>5, <1>7, <2>1, <2>3, <3>1
  <2>. QED BY <2>2, <2>3
<1>9. Len(t) = Len(u) BY <1>1, <1>3, <1>5, <1>7
<1>10. t = u BY <1>3, <1>7, <1>8, <1>9, SeqEqual
<1>. QED BY <1>2, <1>4, <1>6, <1>10

LEMMA Appended ==
    ASSUME NEW S, NEW s \in Seq(S), NEW x \in S
    PROVE  Append(s, x) = Into(s, Len(s) + 1, x)
<1>1. Len(s) \in Nat /\ Len(s) + 1 \in 1 .. Len(s) + 1 OBVIOUS
<1>2. PICK i \in 1 .. Len(s) + 1 : i = Len(s) + 1 BY <1>1
<1>3. PICK u : u = Into(s, i, x) OBVIOUS
<1>4. /\ u \in Seq(S) /\ Len(u) = Len(s) + 1
      /\ \A j \in 1 .. Len(s) + 1 : u[j] = IF j < i THEN s[j] ELSE IF j = i THEN x ELSE s[j - 1]
  BY <1>3, IntoNamed, SMTT(30)
<1>5. PICK t : t = Append(s, x) OBVIOUS
<1>6. /\ t \in Seq(S) /\ Len(t) = Len(s) + 1
      /\ \A j \in 1 .. Len(s) + 1 : t[j] = IF j = Len(s) + 1 THEN x ELSE s[j]
  BY <1>5
<1>7. ASSUME NEW j \in 1 .. Len(t) PROVE t[j] = u[j]
  <2>1. j \in 1 .. Len(s) + 1 /\ (j = i \/ (j < i /\ j # i)) BY <1>1, <1>2, <1>6
  <2>2. t[j] = IF j = i THEN x ELSE s[j] BY <1>2, <1>6, <2>1
  <2>3. u[j] = IF j < i THEN s[j] ELSE IF j = i THEN x ELSE s[j - 1] BY <1>4, <2>1
  <2>4. ~(i < i) BY <1>1, <1>2
  <2>. QED BY <2>1, <2>2, <2>3, <2>4
<1>8. t = u BY <1>4, <1>6, <1>7, SeqEqual
<1>. QED BY <1>2, <1>3, <1>5, <1>8

LEMMA InsertedAtIs ==
    ASSUME NEW S, NEW s \in Seq(S), NEW i \in 1 .. Len(s) + 1, NEW x \in S
    PROVE  Seqs!InsertAt(s, i, x) = Into(s, i, x)
<1> DEFINE p == SubSeq(s, 1, i - 1)
<1> DEFINE q == SubSeq(s, i, Len(s))
<1>1. /\ p \in Seq(S) /\ Len(p) = i - 1 /\ \A j \in 1 .. i - 1 : p[j] = s[j]
  OBVIOUS
<1>2. /\ q \in Seq(S) /\ Len(q) = Len(s) - i + 1 /\ \A j \in 1 .. Len(s) - i + 1 : q[j] = s[i + j - 1]
  OBVIOUS
<1> HIDE DEF p, q
<1>3. /\ p \o <<x>> \in Seq(S) /\ Len(p \o <<x>>) = i
      /\ \A j \in 1 .. i : (p \o <<x>>)[j] = IF j < i THEN s[j] ELSE x
  BY <1>1
<1> DEFINE px == p \o <<x>>
<1> HIDE DEF px
<1>4. px \in Seq(S) /\ Len(px) = i /\ \A j \in 1 .. i : px[j] = IF j < i THEN s[j] ELSE x
  BY <1>3 DEF px
<1>5. Seqs!InsertAt(s, i, x) = px \o q BY DEF Seqs!InsertAt, p, q, px
<1> DEFINE t == px \o q
<1>6. t \in Seq(S) /\ Len(t) = Len(s) + 1
  <2>1. t \in Seq(S) BY <1>2, <1>4
  <2>2. Len(t) = Len(px) + Len(q) BY <1>2, <1>4, ConcatProperties, Zenon
  <2>. QED BY <1>2, <1>4, <2>1, <2>2
<1>7. \A j \in 1 .. i : t[j] = px[j] BY <1>2, <1>4
<1>8. \A j \in i + 1 .. Len(s) + 1 : t[j] = q[j - i] /\ j - i \in 1 .. Len(s) - i + 1 BY <1>2, <1>4
<1> HIDE DEF t
<1>9. PICK u : u = Into(s, i, x) OBVIOUS
<1>10. /\ u \in Seq(S) /\ Len(u) = Len(s) + 1
       /\ \A j \in 1 .. Len(s) + 1 : u[j] = IF j < i THEN s[j] ELSE IF j = i THEN x ELSE s[j - 1]
  BY <1>9, IntoNamed, SMTT(30)
<1>11. ASSUME NEW j \in 1 .. Len(s) + 1
       PROVE  t[j] = IF j < i THEN s[j] ELSE IF j = i THEN x ELSE s[j - 1]
  <2>1. CASE j <= i BY <1>4, <1>7, <2>1
  <2>2. CASE j > i
    <3>1. j \in i + 1 .. Len(s) + 1 /\ i + (j - i) - 1 = j - 1 BY <2>2
    <3>. QED BY <1>2, <1>8, <2>2, <3>1
  <2>. QED BY <2>1, <2>2
<1>12. t = u
  <2>1. \A j \in 1 .. Len(t) : t[j] = u[j] BY <1>6, <1>10, <1>11
  <2>2. Len(t) = Len(u) BY <1>6, <1>10
  <2>. QED BY <1>6, <1>10, <2>1, <2>2, SeqEqual
<1>. QED BY <1>5, <1>9, <1>12 DEF t

LEMMA TailIs ==
    ASSUME NEW S, NEW s \in Seq(S), Len(s) # 0
    PROVE  Tail(s) = Without(s, 1)
<1>1. 1 \in 1 .. Len(s) /\ Len(s) \in Nat /\ s # <<>> OBVIOUS
<1>2. PICK u : u = Without(s, 1) OBVIOUS
<1>3. /\ u \in Seq(S) /\ Len(u) = Len(s) - 1
      /\ \A j \in 1 .. Len(s) - 1 : u[j] = IF j < 1 THEN s[j] ELSE s[j + 1]
  BY <1>1, <1>2, WithoutIs, Zenon
<1>4. PICK t : t = Tail(s) OBVIOUS
<1>5. t \in Seq(S) /\ Len(t) = Len(s) - 1 /\ \A j \in 1 .. Len(t) : t[j] = s[j + 1]
  BY <1>1, <1>4, HeadTailProperties
<1>6. \A j \in 1 .. Len(t) : t[j] = u[j]
  <2>1. TAKE j \in 1 .. Len(t)
  <2>2. j \in 1 .. Len(s) - 1 /\ ~(j < 1) BY <1>1, <1>5
  <2>. QED BY <1>3, <1>5, <2>2
<1>7. t = u BY <1>3, <1>5, <1>6, SeqEqual
<1>. QED BY <1>2, <1>4, <1>7

LEMMA FrontIs ==
    ASSUME NEW S, NEW s \in Seq(S), Len(s) # 0
    PROVE  Seqs!Front(s) = Without(s, Len(s))
<1>1. Len(s) \in 1 .. Len(s) /\ Len(s) \in Nat OBVIOUS
<1>2. PICK i \in 1 .. Len(s) : i = Len(s) BY <1>1
<1>3. PICK u : u = Without(s, i) OBVIOUS
<1>4. /\ u \in Seq(S) /\ Len(u) = Len(s) - 1
      /\ \A j \in 1 .. Len(s) - 1 : u[j] = IF j < i THEN s[j] ELSE s[j + 1]
  BY <1>3, WithoutIs, Zenon
<1>5. PICK t : t = SubSeq(s, 1, Len(s) - 1) OBVIOUS
<1>6. t \in Seq(S) /\ Len(t) = Len(s) - 1 /\ \A j \in 1 .. Len(s) - 1 : t[j] = s[j]
  <2>1. PICK n \in Nat : n = Len(s) - 1 BY <1>1
  <2>2. t = SubSeq(s, 1, n) BY <1>5, <2>1
  <2>3. \A j \in 1 .. n : s[j] \in S BY <1>1, <2>1
  <2>4. /\ t \in Seq(S) /\ Len(t) = (IF 1 <= n THEN n - 1 + 1 ELSE 0)
        /\ \A j \in 1 .. n - 1 + 1 : t[j] = s[1 + j - 1]
    BY <2>2, <2>3, SubSeqProperties
  <2>5. (1 <= n \/ n = 0) /\ n - 1 + 1 = n /\ \A j \in 1 .. n : 1 + j - 1 = j OBVIOUS
  <2>. QED BY <2>1, <2>4, <2>5
<1>7. \A j \in 1 .. Len(t) : t[j] = u[j]
  <2>1. TAKE j \in 1 .. Len(t)
  <2>2. j \in 1 .. Len(s) - 1 /\ j < i BY <1>1, <1>2, <1>6
  <2>. QED BY <1>4, <1>6, <2>2
<1>8. t = u BY <1>4, <1>6, <1>7, SeqEqual
<1>. QED BY <1>2, <1>3, <1>5, <1>8 DEF Seqs!Front

LEMMA RemovedAtIs ==
    ASSUME NEW S, NEW s \in Seq(S), NEW i \in 1 .. Len(s)
    PROVE  Seqs!RemoveAt(s, i) = Without(s, i)
<1> DEFINE p == SubSeq(s, 1, i - 1)
<1> DEFINE q == SubSeq(s, i + 1, Len(s))
<1>1. /\ p \in Seq(S) /\ Len(p) = i - 1 /\ \A j \in 1 .. i - 1 : p[j] = s[j]
  OBVIOUS
<1>2. /\ q \in Seq(S) /\ Len(q) = Len(s) - i /\ \A j \in 1 .. Len(s) - i : q[j] = s[i + j]
  OBVIOUS
<1> HIDE DEF p, q
<1>3. Seqs!RemoveAt(s, i) = p \o q BY DEF Seqs!RemoveAt, p, q
<1> DEFINE t == p \o q
<1>4. t \in Seq(S) /\ Len(t) = Len(s) - 1
  <2>1. t \in Seq(S) BY <1>1, <1>2
  <2>2. Len(t) = Len(p) + Len(q) BY <1>1, <1>2, ConcatProperties, Zenon
  <2>. QED BY <1>1, <1>2, <2>1, <2>2
<1>5. \A j \in 1 .. i - 1 : t[j] = p[j] BY <1>1, <1>2
<1>6. \A j \in i .. Len(s) - 1 : t[j] = q[j - i + 1] /\ j - i + 1 \in 1 .. Len(s) - i BY <1>1, <1>2
<1> HIDE DEF t
<1>7. ASSUME NEW j \in 1 .. Len(s) - 1 PROVE t[j] = IF j < i THEN s[j] ELSE s[j + 1]
  <2>1. CASE j < i BY <1>1, <1>5, <2>1
  <2>2. CASE j >= i
    <3>1. j \in i .. Len(s) - 1 /\ i + (j - i + 1) = j + 1 BY <2>2
    <3>. QED BY <1>2, <1>6, <2>2, <3>1
  <2>. QED BY <2>1, <2>2
<1>8. PICK u : u = Without(s, i) OBVIOUS
<1>9. /\ u \in Seq(S) /\ Len(u) = Len(s) - 1
      /\ \A j \in 1 .. Len(s) - 1 : u[j] = IF j < i THEN s[j] ELSE s[j + 1]
  BY <1>8, WithoutIs, Zenon
<1>10. t = u
  <2>1. \A j \in 1 .. Len(t) : t[j] = u[j] BY <1>4, <1>7, <1>9
  <2>2. Len(t) = Len(u) BY <1>4, <1>9
  <2>. QED BY <1>4, <1>9, <2>1, <2>2, SeqEqual
<1>. QED BY <1>3, <1>8, <1>10 DEF t

\* The first n values of s.
Values(s, n) == {s[j] : j \in 1 .. n}

LEMMA IntoSet ==
    ASSUME NEW S, NEW s \in Seq(S), NEW i \in 1 .. Len(s) + 1, NEW x \in S
    PROVE  Values(Into(s, i, x), Len(s) + 1) = Values(s, Len(s)) \cup {x}
<1>1. PICK u : u = Into(s, i, x) OBVIOUS
<1>2. \A j \in 1 .. Len(s) + 1 : u[j] = IF j < i THEN s[j] ELSE IF j = i THEN x ELSE s[j - 1]
  <2>1. /\ u \in Seq(S) /\ Len(u) = Len(s) + 1
        /\ \A j \in 1 .. Len(s) + 1 : u[j] = IF j < i THEN s[j] ELSE IF j = i THEN x ELSE s[j - 1]
    BY <1>1, IntoNamed, SMTT(30)
  <2>. QED BY <2>1, Zenon
<1>3. PICK n \in Nat : n = Len(s) OBVIOUS
<1>4. ASSUME NEW j \in 1 .. n + 1 PROVE u[j] = x \/ \E k \in 1 .. n : u[j] = s[k]
  <2>1. CASE j < i
    <3>1. j \in 1 .. n BY <1>3, <2>1
    <3>. QED BY <1>2, <1>3, <2>1, <3>1
  <2>2. CASE j = i
    <3>1. ~(j < i) BY <2>2
    <3>. QED BY <1>2, <1>3, <2>2, <3>1
  <2>3. CASE j > i
    <3>1. j - 1 \in 1 .. n /\ ~(j < i) /\ j # i BY <1>3, <2>3
    <3>. QED BY <1>2, <1>3, <3>1
  <2>. QED BY <1>3, <2>1, <2>2, <2>3
<1>5. ASSUME NEW k \in 1 .. n PROVE \E j \in 1 .. n + 1 : u[j] = s[k]
  <2>1. CASE k < i
    <3>1. k \in 1 .. n + 1 BY <1>3
    <3>. QED BY <1>2, <1>3, <2>1, <3>1
  <2>2. CASE k >= i
    <3>1. k + 1 \in 1 .. n + 1 /\ ~(k + 1 < i) /\ k + 1 # i /\ (k + 1) - 1 = k BY <1>3, <2>2
    <3>2. u[k + 1] = s[k] BY <1>2, <1>3, <3>1
    <3>. QED BY <3>1, <3>2
  <2>. QED BY <1>3, <2>1, <2>2
<1>6. \E j \in 1 .. n + 1 : u[j] = x
  <2>1. i \in 1 .. n + 1 /\ ~(i < i) BY <1>3
  <2>. QED BY <1>2, <1>3, <2>1
<1>7. Values(u, n + 1) = Values(s, n) \cup {x} BY <1>4, <1>5, <1>6 DEF Values
<1>. QED BY <1>1, <1>3, <1>7

LEMMA WithoutSet ==
    ASSUME NEW S, NEW s \in Seq(S), NEW i \in 1 .. Len(s),
           \A j, k \in 1 .. Len(s) : s[j] = s[k] => j = k
    PROVE  Values(Without(s, i), Len(s) - 1) = Values(s, Len(s)) \ {s[i]}
<1>1. PICK u : u = Without(s, i) OBVIOUS
<1>2. \A j \in 1 .. Len(s) - 1 : u[j] = IF j < i THEN s[j] ELSE s[j + 1]
  BY <1>1, WithoutIs, Zenon
<1>3. PICK n \in Nat : n = Len(s) OBVIOUS
<1>4. ASSUME NEW j \in 1 .. n - 1 PROVE \E k \in 1 .. n : u[j] = s[k] /\ k # i
  <2>1. CASE j < i
    <3>1. j \in 1 .. n /\ j # i BY <1>3, <2>1
    <3>. QED BY <1>2, <1>3, <2>1, <3>1
  <2>2. CASE ~(j < i)
    <3>1. j + 1 \in 1 .. n /\ j + 1 # i BY <1>3, <2>2
    <3>2. u[j] = s[j + 1] BY <1>2, <1>3, <2>2
    <3>. QED BY <3>1, <3>2
  <2>. QED BY <2>1, <2>2
<1>5. ASSUME NEW k \in 1 .. n, k # i PROVE \E j \in 1 .. n - 1 : u[j] = s[k]
  <2>1. CASE k < i
    <3>1. k \in 1 .. n - 1 BY <1>3, <2>1
    <3>. QED BY <1>2, <1>3, <2>1, <3>1
  <2>2. CASE k > i
    <3>1. k - 1 \in 1 .. n - 1 /\ ~(k - 1 < i) /\ (k - 1) + 1 = k BY <1>3, <2>2
    <3>2. u[k - 1] = s[k] BY <1>2, <1>3, <3>1
    <3>. QED BY <3>1, <3>2
  <2>. QED BY <1>3, <1>5, <2>1, <2>2
<1>6. i \in 1 .. n /\ \A j, k \in 1 .. n : s[j] = s[k] => j = k BY <1>3
<1>7. Values(u, n - 1) = Values(s, n) \ {s[i]}
  <2>1. ASSUME NEW q \in Values(u, n - 1) PROVE q \in Values(s, n) /\ q # s[i]
    <3>1. PICK j \in 1 .. n - 1 : q = u[j] BY DEF Values
    <3>2. PICK k \in 1 .. n : u[j] = s[k] /\ k # i BY <1>4
    <3>3. s[k] # s[i] BY <1>6, <3>2
    <3>. QED BY <3>1, <3>2, <3>3 DEF Values
  <2>2. ASSUME NEW q \in Values(s, n), q # s[i] PROVE q \in Values(u, n - 1)
    <3>1. PICK k \in 1 .. n : q = s[k] BY DEF Values
    <3>2. k # i BY <2>2, <3>1
    <3>3. PICK j \in 1 .. n - 1 : u[j] = s[k] BY <1>5, <3>2
    <3>. QED BY <3>1, <3>3 DEF Values
  <2>. QED BY <2>1, <2>2
<1>. QED BY <1>1, <1>3, <1>7


-----------------------------------------------------------------------------
(* The list and its pool                                                   *)

\* What the pool has handed out is the nodes of the list, or those DeleteAll has still to free.
Owned(ns) ==
    IF rest = Nil THEN held = Values(ns, list.count)
    ELSE \E r \in 1 .. list.count : rest = ns[r] /\ held = {ns[i] : i \in r .. list.count}

\* The pool's invariant, and nodes in turn that the links, the elements and the pool agree on.
ListInv ==
    /\ PoolInv
    /\ \E ns : Chain(list, ns, elements) /\ (~skewed => Back(list, ns)) /\ Owned(ns)

LEMMA EmptyList == Chain(NoList, <<>>, <<>>) /\ Back(NoList, <<>>)
<1>1. NoList = AsList(Nil, Nil, 0, <<>>) BY DEF NoList, AsList
<1>2. NodesOnly(<<>>) /\ DOMAIN <<>> = {} BY DEF NodesOnly
<1>3. PICK l : l = NoList OBVIOUS
<1>4. /\ IsList(l) /\ l.count = 0 /\ l.head = Nil /\ l.tail = Nil /\ DOMAIN l.nodes = {}
  BY <1>1, <1>2, <1>3, ListOf, AsListIs
<1>5. PICK t : t = <<>> OBVIOUS
<1>6. t \in Seq(Object) /\ t \in Seq(Element) /\ Len(t) = 0 BY <1>5
<1>7. ~ \E j \in 1 .. 0 : TRUE OBVIOUS
<1>8. DOMAIN l.nodes = {t[j] : j \in 1 .. 0} BY <1>4, <1>7
<1>9. /\ \A j, k \in 1 .. 0 : t[j] = t[k] => j = k
      /\ \A j \in 1 .. 0 : /\ l.nodes[t[j]].element = t[j]
                           /\ l.nodes[t[j]].next = IF j = 0 THEN Nil ELSE t[j + 1]
      /\ l.head = (IF 0 = 0 THEN Nil ELSE t[1]) /\ l.tail = (IF 0 = 0 THEN Nil ELSE t[0])
  BY <1>4, <1>7
<1>10. 0 \in Nat OBVIOUS
<1>11. Chain(l, t, t) BY <1>4, <1>6, <1>8, <1>9, <1>10, ChainIs
<1>12. Back(l, t) BY <1>4, <1>7 DEF Back
<1>. QED BY <1>3, <1>5, <1>11, <1>12

LEMMA ListInitially == Init /\ ListInit => ListInv
<1> SUFFICES ASSUME Init, ListInit PROVE ListInv OBVIOUS
<1>1. PoolInv BY PoolInit
<1>2. Chain(list, <<>>, elements) /\ Back(list, <<>>) BY EmptyList DEF ListInit
<1>3. Owned(<<>>)
  <2>1. rest = Nil /\ held = {} /\ list.count = 0 BY DEF Init, ListInit, NoList
  <2>2. Values(<<>>, 0) = {} BY DEF Values
  <2>. QED BY <2>1, <2>2 DEF Owned
<1>. QED BY <1>1, <1>2, <1>3, Zenon DEF ListInv

Alloc == AllocCurrent \/ AllocExtends \/ AllocFromNewer

\* A call of Alloc hands out one object, which nobody held.
LEMMA Allocs ==
    ASSUME PoolInv, Alloc, NEW p \in held' \ held
    PROVE  PoolInv' /\ held' = held \cup {p} /\ p \in Object
<1>1. PoolInv' BY PoolStep DEF Alloc, Next
<1>2. PICK all, b : TakeFrom(all, b)
  <2>1. CASE AllocCurrent BY <2>1 DEF AllocCurrent
  <2>2. CASE AllocExtends BY <2>2 DEF AllocExtends
  <2>3. CASE AllocFromNewer BY <2>3 DEF AllocFromNewer
  <2>. QED BY <2>1, <2>2, <2>3 DEF Alloc
<1>3. held' = held \/ held' = held \cup {Top(all[b])} BY <1>2, Zenon DEF TakeFrom
<1>4. held' = held \cup {p} BY <1>3
<1>5. Good(bands', held') BY <1>1 DEF PoolInv
<1>6. bands' \in Seq(Band) /\ Has(bands', p) BY <1>5 DEF Good
<1>. QED BY <1>1, <1>4, <1>6, HasObject

\* A call of Free takes one object back.
LEMMA Frees ==
    ASSUME PoolInv, NEW p \in held, FreeCurrent(p) \/ FreeToOlder(p)
    PROVE  PoolInv' /\ held' = held \ {p}
<1>1. Next BY DEF Next, Free
<1>2. PoolInv' BY <1>1, PoolStep
<1>3. held' = held \ {p} BY DEF FreeCurrent, FreeToOlder, GiveTo
<1>. QED BY <1>2, <1>3

LEMMA AddStep ==
    ASSUME PoolInv, Alloc, NEW p \in held' \ held, rest = Nil, rest' = Nil,
           NEW ns, Chain(list, ns, elements), Owned(ns), NEW i \in 1 .. list.count + 1,
           Chain(list', Into(ns, i, p), elements'), ~skewed' => Back(list', Into(ns, i, p))
    PROVE  ListInv'
<1>1. PoolInv' /\ held' = held \cup {p} /\ p \in Object BY Allocs
<1>2. ns \in Seq(Object) /\ Len(ns) = list.count /\ list.count \in Nat BY ChainFacts
<1>3. PICK u : u = Into(ns, i, p) OBVIOUS
<1>4. list'.count = Len(u) BY <1>3, ChainFacts
<1>5. /\ Len(u) = Len(ns) + 1
      /\ Values(u, Len(ns) + 1) = Values(ns, Len(ns)) \cup {p}
  <2>1. i \in 1 .. Len(ns) + 1 BY <1>2
  <2>2. Len(u) = Len(ns) + 1 BY <1>1, <1>2, <1>3, <2>1, IntoIs, SMTT(30)
  <2>3. Values(u, Len(ns) + 1) = Values(ns, Len(ns)) \cup {p}
    BY <1>1, <1>2, <1>3, <2>1, IntoSet
  <2>. QED BY <2>2, <2>3
<1>6. held = Values(ns, list.count) BY DEF Owned
<1>7. held' = Values(u, list'.count)
  <2>1. list'.count = Len(ns) + 1 BY <1>4, <1>5
  <2>. QED BY <1>1, <1>2, <1>5, <1>6, <2>1
<1>8. Owned(u)' BY <1>7 DEF Owned
<1>9. Chain(list', u, elements') /\ (~skewed' => Back(list', u)) BY <1>3
<1>. QED BY <1>1, <1>8, <1>9, Zenon DEF ListInv

LEMMA DeleteStep ==
    ASSUME PoolInv, rest = Nil, rest' = Nil,
           NEW ns, Chain(list, ns, elements), Owned(ns), NEW i \in 1 .. list.count,
           FreeCurrent(ns[i]) \/ FreeToOlder(ns[i]),
           Chain(list', Without(ns, i), elements'), ~skewed' => Back(list', Without(ns, i))
    PROVE  ListInv'
<1>1. held = Values(ns, list.count) BY DEF Owned
<1>2. PoolInv' /\ held' = held \ {ns[i]}
  <2>1. ns[i] \in held BY <1>1 DEF Values
  <2>. QED BY <2>1, Frees
<1>3. /\ ns \in Seq(Object) /\ Len(ns) = list.count /\ list.count \in Nat
      /\ \A j, k \in 1 .. list.count : ns[j] = ns[k] => j = k
  BY ChainFacts
<1>4. PICK u : u = Without(ns, i) OBVIOUS
<1>5. list'.count = Len(u) BY <1>4, ChainFacts
<1>6. /\ Len(u) = Len(ns) - 1
      /\ Values(u, Len(ns) - 1) = Values(ns, Len(ns)) \ {ns[i]}
  <2>1. i \in 1 .. Len(ns) /\ \A j, k \in 1 .. Len(ns) : ns[j] = ns[k] => j = k BY <1>3
  <2>2. Len(u) = Len(ns) - 1 BY <1>3, <1>4, <2>1, WithoutIs, Zenon
  <2>3. Values(u, Len(ns) - 1) = Values(ns, Len(ns)) \ {ns[i]}
    BY <1>3, <1>4, <2>1, WithoutSet
  <2>. QED BY <2>2, <2>3
<1>7. held' = Values(u, list'.count)
  <2>1. list'.count = Len(ns) - 1 BY <1>5, <1>6
  <2>. QED BY <1>1, <1>2, <1>3, <1>6, <2>1
<1>8. Owned(u)' BY <1>7 DEF Owned
<1>9. Chain(list', u, elements') /\ (~skewed' => Back(list', u)) BY <1>4
<1>. QED BY <1>2, <1>8, <1>9, Zenon DEF ListInv


LEMMA ConstructStep ==
    ASSUME ListInv, Construct
    PROVE  ListInv'
<1>1. PoolInv /\ bands = <<>> BY DEF ListInv, Construct
<1>2. held = {}
  <2>1. Good(<<>>, held) BY <1>1 DEF PoolInv
  <2>2. \A p \in held : Has(<<>>, p) BY <2>1 DEF Good
  <2>. QED BY <2>2 DEF Has
<1>3. BlockSize \in Nat \ {0} /\ BlockSize \div 2 + 1 \in Nat /\ BlockSize \div 2 + 1 > 0
  BY ListAssumption
<1>4. /\ bands' = Append(bands, NewBand(Len(bands) + 1, BlockSize)) /\ bands' = <<NewBand(1, BlockSize)>>
      /\ free' = 1 /\ extend' = BlockSize \div 2 + 1 /\ held' = held /\ failed' = failed
      /\ inits' = inits
  BY <1>1 DEF Construct
<1>5. Good(bands', held')
  <2>1. Good(bands, held) BY <1>1 DEF PoolInv
  <2>2. Good(Append(bands, NewBand(Len(bands) + 1, BlockSize)), held) BY <1>3, <2>1, AppendGood
  <2>. QED BY <1>4, <2>2
<1>6. Len(bands') = 1 /\ bands' # <<>> /\ DOMAIN bands' = 1 .. 1
  <2>1. bands' = <<NewBand(1, BlockSize)>> BY <1>4
  <2>. QED BY <2>1
<1>7. Ordered' BY <1>4, <1>6 DEF Ordered
<1>8. PoolInv' BY <1>1, <1>3, <1>4, <1>5, <1>6, <1>7 DEF PoolInv
<1>9. list' = list /\ rest' = rest /\ elements' = elements /\ skewed' = skewed BY DEF Construct
<1>10. PICK ns : Chain(list, ns, elements) /\ (~skewed => Back(list, ns)) /\ Owned(ns)
  BY Zenon DEF ListInv
<1>11. Owned(ns)' BY <1>4, <1>9, <1>10 DEF Owned
<1>12. Chain(list', ns, elements') /\ (~skewed' => Back(list', ns)) BY <1>9, <1>10
<1>. QED BY <1>8, <1>11, <1>12, Zenon DEF ListInv

LEMMA DestructStep ==
    ASSUME ListInv, Destruct
    PROVE  ListInv'
<1>1. PoolInv' BY PoolStep DEF ListInv, Destruct, Next
<1>2. list' = list /\ rest' = rest /\ elements' = elements /\ skewed' = skewed /\ held' = held
  BY DEF Destruct, Release
<1>3. PICK ns : Chain(list, ns, elements) /\ (~skewed => Back(list, ns)) /\ Owned(ns)
  BY Zenon DEF ListInv
<1>4. Owned(ns)' BY <1>2, <1>3 DEF Owned
<1>5. Chain(list', ns, elements') /\ (~skewed' => Back(list', ns)) BY <1>2, <1>3
<1>. QED BY <1>1, <1>4, <1>5, Zenon DEF ListInv

LEMMA DeleteAllStarts ==
    ASSUME ListInv, DeleteAllBegins
    PROVE  ListInv'
<1>1. PoolInv' BY PoolStep DEF ListInv, DeleteAllBegins
<1>2. /\ list' = list /\ elements' = elements /\ skewed' = skewed /\ held' = held
      /\ rest = Nil /\ rest' = list.head /\ list.head # Nil
  BY DEF DeleteAllBegins, Idle, vars
<1>3. PICK ns : Chain(list, ns, elements) /\ (~skewed => Back(list, ns)) /\ Owned(ns)
  BY Zenon DEF ListInv
<1>4. list.count \in Nat /\ list.count # 0 /\ list.head = ns[1] BY <1>2, <1>3, ChainFacts
<1>5. 1 \in 1 .. list.count BY <1>4
<1>6. held = {ns[i] : i \in 1 .. list.count} BY <1>2, <1>3 DEF Owned, Values
<1>7. Owned(ns)' BY <1>2, <1>4, <1>5, <1>6 DEF Owned
<1>8. Chain(list', ns, elements') /\ (~skewed' => Back(list', ns)) BY <1>2, <1>3
<1>. QED BY <1>1, <1>7, <1>8, Zenon DEF ListInv

LEMMA DeleteAllGoesOn ==
    ASSUME ListInv, DeleteAllStep
    PROVE  ListInv'
<1>0. rest # Nil BY DEF DeleteAllStep
<1>1. PICK ns : Chain(list, ns, elements) /\ (~skewed => Back(list, ns)) /\ Owned(ns)
  BY Zenon DEF ListInv
<1>2. PICK r \in 1 .. list.count : rest = ns[r] /\ held = {ns[i] : i \in r .. list.count}
  BY <1>0, <1>1 DEF Owned
<1>3. /\ list.count \in Nat
      /\ \A i, j \in 1 .. list.count : ns[i] = ns[j] => i = j
      /\ list.nodes[ns[r]].next = IF r = list.count THEN Nil ELSE ns[r + 1]
      /\ \A i \in 1 .. list.count : ns[i] # Nil
  BY <1>1, ChainFacts
<1>4. rest \in held
  <2>1. r \in r .. list.count BY <1>3
  <2>. QED BY <1>2, <2>1
<1>5. PoolInv' /\ held' = held \ {rest}
  <2>1. PoolInv /\ (FreeCurrent(rest) \/ FreeToOlder(rest)) BY DEF ListInv, DeleteAllStep
  <2>. QED BY <1>4, <2>1, Frees
<1>6. rest' = IF r = list.count THEN Nil ELSE ns[r + 1]
  BY <1>2, <1>3 DEF DeleteAllStep, GetNextPos
<1>7. CASE r = list.count
  <2>1. rest' = Nil BY <1>6, <1>7
  <2>2. list' = NoList /\ elements' = <<>> /\ skewed' = FALSE BY <2>1 DEF DeleteAllStep
  <2>3. held' = {}
    <3>1. \A i \in r .. list.count : i = r BY <1>3, <1>7
    <3>. QED BY <1>2, <1>5, <3>1
  <2>4. Values(<<>>, 0) = {} /\ NoList.count = 0 BY DEF Values, NoList
  <2>5. Owned(<<>>)' BY <2>1, <2>2, <2>3, <2>4 DEF Owned
  <2>6. Chain(list', <<>>, elements') /\ Back(list', <<>>) BY <2>2, EmptyList
  <2>. QED BY <1>5, <2>5, <2>6, Zenon DEF ListInv
<1>8. CASE r # list.count
  <2>1. r + 1 \in 1 .. list.count BY <1>3, <1>8
  <2>2. rest' = ns[r + 1] /\ rest' # Nil BY <1>3, <1>6, <1>8, <2>1
  <2>3. list' = list /\ elements' = elements /\ skewed' = skewed BY <2>2 DEF DeleteAllStep
  <2>4. held' = {ns[i] : i \in r + 1 .. list.count}
    <3>1. \A i \in r .. list.count : i \in 1 .. list.count /\ (i # r <=> i \in r + 1 .. list.count)
      BY <1>3
    <3>2. \A i \in r + 1 .. list.count : i \in r .. list.count BY <1>3
    <3>3. \A i \in r .. list.count : ns[i] = ns[r] <=> i = r BY <1>3, <3>1
    <3>4. ASSUME NEW q \in held' PROVE \E i \in r + 1 .. list.count : q = ns[i]
      <4>1. PICK i \in r .. list.count : q = ns[i] BY <1>2, <1>5
      <4>2. i # r BY <1>2, <1>5, <4>1
      <4>. QED BY <3>1, <4>1, <4>2
    <3>5. ASSUME NEW i \in r + 1 .. list.count PROVE ns[i] \in held'
      <4>1. i \in r .. list.count /\ i # r BY <3>1, <3>2
      <4>2. ns[i] # ns[r] BY <3>3, <4>1
      <4>. QED BY <1>2, <1>5, <4>1, <4>2
    <3>. QED BY <3>4, <3>5
  <2>5. Owned(ns)' BY <2>1, <2>2, <2>3, <2>4 DEF Owned
  <2>6. Chain(list', ns, elements') /\ (~skewed' => Back(list', ns)) BY <1>1, <2>3
  <2>. QED BY <1>5, <2>5, <2>6, Zenon DEF ListInv
<1>. QED BY <1>7, <1>8

LEMMA AddHeadStep ==
    ASSUME ListInv, NEW e \in Element, AddHead(e)
    PROVE  ListInv'
<1>0. /\ rest = Nil /\ rest' = Nil /\ Alloc /\ elements' = <<e>> \o elements /\ skewed' = skewed
      /\ \E p \in held' \ held : list' = AddedHead(list, p, e)
  BY DEF AddHead, Adds, Idle, Alloc
<1>1. PICK p \in held' \ held : list' = AddedHead(list, p, e) BY <1>0
<1>2. PoolInv /\ \E ns : Chain(list, ns, elements) /\ (~skewed => Back(list, ns)) /\ Owned(ns)
  BY Zenon DEF ListInv
<1>3. PICK ns : Chain(list, ns, elements) /\ (~skewed => Back(list, ns)) /\ Owned(ns) BY <1>2
<1>4. p \in Object /\ p \notin DOMAIN list.nodes
  <2>1. p \in Object BY <1>0, <1>2, Allocs
  <2>2. DOMAIN list.nodes = held BY <1>0, <1>3 DEF Chain, Owned, Values
  <2>. QED BY <2>1, <2>2
<1>5. /\ Chain(list', Into(ns, 1, p), Into(elements, 1, e))
      /\ Back(list, ns) => Back(list', Into(ns, 1, p))
  BY <1>1, <1>3, <1>4, HeadAdded
<1>6. elements \in Seq(Element) /\ 1 \in 1 .. list.count + 1
  <2>1. elements \in Seq(Element) /\ list.count \in Nat BY <1>3, ChainFacts
  <2>. QED BY <2>1
<1>7. elements' = Into(elements, 1, e) BY <1>0, <1>6, Fronted
<1>. QED BY <1>0, <1>2, <1>3, <1>5, <1>6, <1>7, AddStep

LEMMA AddTailStep ==
    ASSUME ListInv, NEW e \in Element, AddTail(e)
    PROVE  ListInv'
<1>0. /\ rest = Nil /\ rest' = Nil /\ Alloc /\ elements' = Append(elements, e) /\ skewed' = skewed
      /\ \E p \in held' \ held : list' = AddedTail(list, p, e)
  BY DEF AddTail, Adds, Idle, Alloc
<1>1. PICK p \in held' \ held : list' = AddedTail(list, p, e) BY <1>0
<1>2. PoolInv /\ \E ns : Chain(list, ns, elements) /\ (~skewed => Back(list, ns)) /\ Owned(ns)
  BY Zenon DEF ListInv
<1>3. PICK ns : Chain(list, ns, elements) /\ (~skewed => Back(list, ns)) /\ Owned(ns) BY <1>2
<1>4. p \in Object /\ p \notin DOMAIN list.nodes
  <2>1. p \in Object BY <1>0, <1>2, Allocs
  <2>2. DOMAIN list.nodes = held BY <1>0, <1>3 DEF Chain, Owned, Values
  <2>. QED BY <2>1, <2>2
<1>5. /\ Chain(list', Into(ns, list.count + 1, p), Into(elements, list.count + 1, e))
      /\ Back(list, ns) => Back(list', Into(ns, list.count + 1, p))
  BY <1>1, <1>3, <1>4, TailAdded
<1>6. elements \in Seq(Element) /\ Len(elements) = list.count /\ list.count + 1 \in 1 .. list.count + 1
  <2>1. elements \in Seq(Element) /\ Len(elements) = list.count /\ list.count \in Nat
    BY <1>3, ChainFacts
  <2>. QED BY <2>1
<1>7. elements' = Into(elements, list.count + 1, e) BY <1>0, <1>6, Appended
<1>8. PICK i \in 1 .. list.count + 1 : i = list.count + 1 BY <1>6
<1>. QED BY <1>0, <1>2, <1>3, <1>5, <1>7, <1>8, AddStep

LEMMA InsertBeforeStep ==
    ASSUME ListInv, NEW e \in Element, NEW index \in Index, InsertBefore(e, index)
    PROVE  ListInv'
<1>0. /\ rest = Nil /\ rest' = Nil /\ Alloc /\ skewed' = skewed
      /\ elements' = Seqs!InsertAt(elements, index + 1, e) /\ index \in 1 .. list.count - 1
      /\ \E p \in held' \ held : list' = AddedBefore(list, p, e, index)
  BY DEF InsertBefore, Adds, Idle, Alloc
<1>1. PICK p \in held' \ held : list' = AddedBefore(list, p, e, index) BY <1>0
<1>2. PoolInv /\ \E ns : Chain(list, ns, elements) /\ (~skewed => Back(list, ns)) /\ Owned(ns)
  BY Zenon DEF ListInv
<1>3. PICK ns : Chain(list, ns, elements) /\ (~skewed => Back(list, ns)) /\ Owned(ns) BY <1>2
<1>4. p \in Object /\ p \notin DOMAIN list.nodes
  <2>1. p \in Object BY <1>0, <1>2, Allocs
  <2>2. DOMAIN list.nodes = held BY <1>0, <1>3 DEF Chain, Owned, Values
  <2>. QED BY <2>1, <2>2
<1>5. /\ Chain(list', Into(ns, index + 1, p), Into(elements, index + 1, e))
      /\ Back(list, ns) => Back(list', Into(ns, index + 1, p))
  BY <1>0, <1>1, <1>3, <1>4, BeforeAdded
<1>6. elements \in Seq(Element) /\ Len(elements) = list.count /\ index + 1 \in 1 .. list.count + 1
  <2>1. elements \in Seq(Element) /\ Len(elements) = list.count /\ list.count \in Nat
    BY <1>3, ChainFacts
  <2>. QED BY <1>0, <2>1
<1>8. PICK i \in 1 .. list.count + 1 : i = index + 1 BY <1>6
<1>9. i \in 1 .. Len(elements) + 1 BY <1>6
<1>7. elements' = Into(elements, i, e) BY <1>0, <1>6, <1>8, <1>9, InsertedAtIs
<1>. QED BY <1>0, <1>2, <1>3, <1>5, <1>7, <1>8, AddStep

LEMMA InsertpAfterStep ==
    ASSUME ListInv, NEW e \in Element, NEW index \in Index, InsertpAfter(e, index)
    PROVE  ListInv'
<1>0. /\ rest = Nil /\ rest' = Nil /\ Alloc /\ skewed' = TRUE
      /\ elements' = Seqs!InsertAt(elements, index + 2, e) /\ index \in 1 .. list.count - 2
      /\ \E p \in held' \ held : list' = AddedAfter(list, p, e, index)
  BY DEF InsertpAfter, Adds, Idle, Alloc
<1>1. PICK p \in held' \ held : list' = AddedAfter(list, p, e, index) BY <1>0
<1>2. PoolInv /\ \E ns : Chain(list, ns, elements) /\ (~skewed => Back(list, ns)) /\ Owned(ns)
  BY Zenon DEF ListInv
<1>3. PICK ns : Chain(list, ns, elements) /\ (~skewed => Back(list, ns)) /\ Owned(ns) BY <1>2
<1>4. p \in Object /\ p \notin DOMAIN list.nodes
  <2>1. p \in Object BY <1>0, <1>2, Allocs
  <2>2. DOMAIN list.nodes = held BY <1>0, <1>3 DEF Chain, Owned, Values
  <2>. QED BY <2>1, <2>2
<1>5. Chain(list', Into(ns, index + 2, p), Into(elements, index + 2, e))
  BY <1>0, <1>1, <1>3, <1>4, AfterAdded
<1>6. elements \in Seq(Element) /\ Len(elements) = list.count /\ index + 2 \in 1 .. list.count + 1
  <2>1. elements \in Seq(Element) /\ Len(elements) = list.count /\ list.count \in Nat
    BY <1>3, ChainFacts
  <2>. QED BY <1>0, <2>1
<1>8. PICK i \in 1 .. list.count + 1 : i = index + 2 BY <1>6
<1>9. i \in 1 .. Len(elements) + 1 BY <1>6
<1>7. elements' = Into(elements, i, e) BY <1>0, <1>6, <1>8, <1>9, InsertedAtIs
<1>. QED BY <1>0, <1>2, <1>3, <1>5, <1>7, <1>8, AddStep

LEMMA DeleteHeadStep ==
    ASSUME ListInv, DeleteHead
    PROVE  ListInv'
<1>0. /\ rest = Nil /\ rest' = Nil /\ skewed' = skewed /\ list.head # Nil
      /\ FreeCurrent(list.head) \/ FreeToOlder(list.head)
      /\ list' = DeletedHead(list) /\ elements' = Tail(elements)
  BY DEF DeleteHead, Deletes, Idle
<1>1. PoolInv /\ \E ns : Chain(list, ns, elements) /\ (~skewed => Back(list, ns)) /\ Owned(ns)
  BY Zenon DEF ListInv
<1>2. PICK ns : Chain(list, ns, elements) /\ (~skewed => Back(list, ns)) /\ Owned(ns) BY <1>1
<1>3. /\ list.count # 0 /\ list.head = ns[1]
      /\ Chain(list', Without(ns, 1), Without(elements, 1))
      /\ Back(list, ns) => Back(list', Without(ns, 1))
  BY <1>0, <1>2, HeadDeleted
<1>4. elements \in Seq(Element) /\ Len(elements) # 0 /\ 1 \in 1 .. list.count
  <2>1. elements \in Seq(Element) /\ Len(elements) = list.count /\ list.count \in Nat
    BY <1>2, ChainFacts
  <2>. QED BY <1>3, <2>1
<1>5. elements' = Without(elements, 1) BY <1>0, <1>4, TailIs
<1>6. FreeCurrent(ns[1]) \/ FreeToOlder(ns[1]) BY <1>0, <1>3
<1>. QED BY <1>0, <1>1, <1>2, <1>3, <1>4, <1>5, <1>6, DeleteStep

LEMMA DeleteTailStep ==
    ASSUME ListInv, DeleteTail
    PROVE  ListInv'
<1>0. /\ rest = Nil /\ rest' = Nil /\ skewed' = skewed /\ list.tail # Nil
      /\ FreeCurrent(list.tail) \/ FreeToOlder(list.tail)
      /\ list' = DeletedTail(list) /\ elements' = Seqs!Front(elements)
  BY DEF DeleteTail, Deletes, Idle
<1>1. PoolInv /\ \E ns : Chain(list, ns, elements) /\ (~skewed => Back(list, ns)) /\ Owned(ns)
  BY Zenon DEF ListInv
<1>2. PICK ns : Chain(list, ns, elements) /\ (~skewed => Back(list, ns)) /\ Owned(ns) BY <1>1
<1>3. /\ list.count # 0 /\ list.tail = ns[list.count]
      /\ Chain(list', Without(ns, list.count), Without(elements, list.count))
      /\ Back(list, ns) => Back(list', Without(ns, list.count))
  BY <1>0, <1>2, TailDeleted
<1>4. /\ elements \in Seq(Element) /\ Len(elements) # 0 /\ Len(elements) = list.count
      /\ list.count \in 1 .. list.count
  <2>1. elements \in Seq(Element) /\ Len(elements) = list.count /\ list.count \in Nat
    BY <1>2, ChainFacts
  <2>. QED BY <1>3, <2>1
<1>5. elements' = Without(elements, list.count) BY <1>0, <1>4, FrontIs
<1>6. FreeCurrent(ns[list.count]) \/ FreeToOlder(ns[list.count]) BY <1>0, <1>3
<1>7. PICK i \in 1 .. list.count : i = list.count BY <1>4
<1>. QED BY <1>0, <1>1, <1>2, <1>3, <1>5, <1>6, <1>7, DeleteStep

\* The node of place i, which is neither the first nor the last.
LEMMA DeleteBetweenStep ==
    ASSUME ListInv, NEW i \in 2 .. list.count - 1,
           LET p == GetIndexPos(list, i - 1) IN
           Deletes(p, DeletedBetween(list, GetIndexPos(list, i - 2), p), Seqs!RemoveAt(elements, i))
    PROVE  ListInv'
<1>1. PoolInv /\ \E ns : Chain(list, ns, elements) /\ (~skewed => Back(list, ns)) /\ Owned(ns)
  BY Zenon DEF ListInv
<1>2. PICK ns : Chain(list, ns, elements) /\ (~skewed => Back(list, ns)) /\ Owned(ns) BY <1>1
<1>3. /\ elements \in Seq(Element) /\ Len(elements) = list.count /\ list.count \in Nat
  BY <1>2, ChainFacts
<1>4. /\ i \in 1 .. list.count
      /\ i - 1 \in Nat /\ i - 1 < list.count /\ (i - 1) + 1 = i
      /\ i - 2 \in Nat /\ i - 2 < list.count /\ (i - 2) + 1 = i - 1
  BY <1>3
<1>5. GetIndexPos(list, i - 1) = ns[i]
  <2>1. GetIndexPos(list, i - 1) = ns[(i - 1) + 1] BY <1>2, <1>4, WalkIs
  <2>. QED BY <1>4, <2>1
<1>6. GetIndexPos(list, i - 2) = ns[i - 1]
  <2>1. GetIndexPos(list, i - 2) = ns[(i - 2) + 1] BY <1>2, <1>4, WalkIs
  <2>. QED BY <1>4, <2>1
<1>7. Deletes(ns[i], DeletedBetween(list, ns[i - 1], ns[i]), Seqs!RemoveAt(elements, i))
  BY <1>5, <1>6
<1>8. /\ rest = Nil /\ rest' = Nil /\ skewed' = skewed
      /\ FreeCurrent(ns[i]) \/ FreeToOlder(ns[i])
      /\ list' = DeletedBetween(list, ns[i - 1], ns[i])
      /\ elements' = Seqs!RemoveAt(elements, i)
  BY <1>7 DEF Deletes, Idle
<1>9. /\ Chain(list', Without(ns, i), Without(elements, i))
      /\ Back(list, ns) => Back(list', Without(ns, i))
  BY <1>2, <1>8, BetweenDeleted
<1>10. elements' = Without(elements, i)
  <2>1. i \in 1 .. Len(elements) BY <1>3, <1>4
  <2>. QED BY <1>3, <1>8, <2>1, RemovedAtIs
<1>. QED BY <1>1, <1>2, <1>4, <1>8, <1>9, <1>10, DeleteStep

LEMMA DeletePosStep ==
    ASSUME ListInv, NEW index \in Index, DeletePos(index)
    PROVE  ListInv'
<1>1. list.count \in Nat
  <2>1. PICK ns : Chain(list, ns, elements) BY Zenon DEF ListInv
  <2>. QED BY <2>1, ChainFacts
<1>2. index \in 1 .. list.count - 2 BY DEF DeletePos
<1>3. PICK i \in 2 .. list.count - 1 : i = index + 1 BY <1>1, <1>2
<1>4. i - 1 = index /\ i - 2 = index - 1 BY <1>1, <1>2, <1>3
<1>5. LET p == GetIndexPos(list, i - 1) IN
      Deletes(p, DeletedBetween(list, GetIndexPos(list, i - 2), p), Seqs!RemoveAt(elements, i))
  BY <1>3, <1>4 DEF DeletePos
<1>. QED BY <1>5, DeleteBetweenStep

LEMMA DeleteAtStep ==
    ASSUME ListInv, NEW index \in Index, DeleteAt(index)
    PROVE  ListInv'
<1>1. list.count \in Nat
  <2>1. PICK ns : Chain(list, ns, elements) BY Zenon DEF ListInv
  <2>. QED BY <2>1, ChainFacts
<1>2. index \in 1 .. list.count - 3 BY DEF DeleteAt
<1>3. PICK i \in 2 .. list.count - 1 : i = index + 2 BY <1>1, <1>2
<1>4. i - 1 = index + 1 /\ i - 2 = index BY <1>1, <1>2, <1>3
<1>5. LET p == GetIndexPos(list, i - 1) IN
      Deletes(p, DeletedBetween(list, GetIndexPos(list, i - 2), p), Seqs!RemoveAt(elements, i))
  BY <1>3, <1>4 DEF DeleteAt
<1>. QED BY <1>5, DeleteBetweenStep

LEMMA ListStep == ListInv /\ [ListNext]_<<vars, listVars>> => ListInv'
<1> SUFFICES ASSUME ListInv, [ListNext]_<<vars, listVars>> PROVE ListInv' OBVIOUS
<1>1. CASE Construct BY <1>1, ConstructStep
<1>2. CASE DeleteHead BY <1>2, DeleteHeadStep
<1>3. CASE DeleteTail BY <1>3, DeleteTailStep
<1>4. CASE DeleteAllBegins BY <1>4, DeleteAllStarts
<1>5. CASE DeleteAllStep BY <1>5, DeleteAllGoesOn
<1>6. CASE Destruct BY <1>6, DestructStep
<1>7. ASSUME NEW index \in Index, DeletePos(index) PROVE ListInv' BY <1>7, DeletePosStep
<1>8. ASSUME NEW index \in Index, DeleteAt(index) PROVE ListInv' BY <1>8, DeleteAtStep
<1>9. ASSUME NEW e \in Element, AddHead(e) PROVE ListInv' BY <1>9, AddHeadStep
<1>10. ASSUME NEW e \in Element, AddTail(e) PROVE ListInv' BY <1>10, AddTailStep
<1>11. ASSUME NEW e \in Element, NEW index \in Index, InsertBefore(e, index) PROVE ListInv'
  BY <1>11, InsertBeforeStep
<1>12. ASSUME NEW e \in Element, NEW index \in Index, InsertpAfter(e, index) PROVE ListInv'
  BY <1>12, InsertpAfterStep
<1>13. CASE UNCHANGED <<vars, listVars>>
  <2>1. /\ UNCHANGED vars /\ held' = held /\ list' = list /\ rest' = rest /\ elements' = elements
        /\ skewed' = skewed
    BY <1>13 DEF vars, listVars
  <2>2. PoolInv' BY <2>1, PoolStep DEF ListInv
  <2>3. PICK ns : Chain(list, ns, elements) /\ (~skewed => Back(list, ns)) /\ Owned(ns)
    BY Zenon DEF ListInv
  <2>4. Owned(ns)' BY <2>1, <2>3 DEF Owned
  <2>5. Chain(list', ns, elements') /\ (~skewed' => Back(list', ns)) BY <2>1, <2>3
  <2>. QED BY <2>2, <2>4, <2>5, Zenon DEF ListInv
<1>. QED
  BY <1>1, <1>2, <1>3, <1>4, <1>5, <1>6, <1>7, <1>8, <1>9, <1>10, <1>11, <1>12, <1>13, Zenon
  DEF ListNext

LEMMA ListInvSound == ListInv => ListSound
<1> SUFFICES ASSUME ListInv PROVE ListSound OBVIOUS
<1>1. PICK ns : Chain(list, ns, elements) /\ (~skewed => Back(list, ns)) /\ Owned(ns)
  BY Zenon DEF ListInv
<1>2. /\ list.count \in Nat /\ Len(elements) = list.count
      /\ \A i \in 1 .. list.count :
            /\ list.nodes[ns[i]].element = elements[i]
            /\ list.nodes[ns[i]].next = IF i = list.count THEN Nil ELSE ns[i + 1]
      /\ \A i, j \in 1 .. list.count : ns[i] = ns[j] => i = j
      /\ list.count = 0 => list.head = Nil /\ list.tail = Nil
      /\ list.count # 0 => list.tail = ns[list.count]
  BY <1>1, ChainFacts
<1>3. DOMAIN Nodes = 1 .. list.count /\ \A i \in 1 .. list.count : Nodes[i] = ns[i]
  <2>1. DOMAIN Nodes = 1 .. list.count BY DEF Nodes
  <2>2. ASSUME NEW i \in 1 .. list.count PROVE Nodes[i] = ns[i]
    <3>1. i - 1 \in Nat /\ i - 1 < list.count /\ (i - 1) + 1 = i BY <1>2
    <3>2. GetIndexPos(list, i - 1) = ns[(i - 1) + 1] BY <1>1, <3>1, WalkIs
    <3>3. Nodes[i] = GetIndexPos(list, i - 1) BY DEF Nodes
    <3>. QED BY <3>1, <3>2, <3>3
  <2>. QED BY <2>1, <2>2
<1>4. ListHolds
  <2>1. \A i \in 1 .. list.count : GetAtPos(list, Nodes[i]) = elements[i]
    BY <1>2, <1>3 DEF GetAtPos
  <2>2. IF list.count = 0 THEN list.head = Nil /\ list.tail = Nil
        ELSE list.tail = Nodes[list.count] /\ GetNextPos(list, list.tail) = Nil
    <3>1. list.count # 0 => list.count \in 1 .. list.count BY <1>2
    <3>. QED BY <1>2, <1>3, <3>1 DEF GetNextPos
  <2>3. ASSUME ~skewed, NEW i \in 1 .. list.count
        PROVE  GetPrevPos(list, Nodes[i]) = IF i = 1 THEN Nil ELSE Nodes[i - 1]
    <3>1. list.nodes[ns[i]].prev = IF i = 1 THEN Nil ELSE ns[i - 1] BY <1>1, <2>3 DEF Back
    <3>2. i # 1 => i - 1 \in 1 .. list.count BY <1>2
    <3>. QED BY <1>3, <3>1, <3>2 DEF GetPrevPos
  <2>. QED BY <1>2, <2>1, <2>2, <2>3 DEF ListHolds
<1>5. NodesHeld
  <2>1. CASE rest = Nil
    <3>1. held = {ns[i] : i \in 1 .. list.count} BY <1>1, <2>1 DEF Owned, Values
    <3>2. Seqs!ToSet(Nodes) = {Nodes[i] : i \in 1 .. list.count} BY <1>3 DEF Seqs!ToSet
    <3>3. held = Seqs!ToSet(Nodes) BY <1>3, <3>1, <3>2
    <3>. QED BY <2>1, <3>3 DEF NodesHeld
  <2>2. CASE rest # Nil
    <3>1. PICK r \in 1 .. list.count : rest = ns[r] /\ held = {ns[i] : i \in r .. list.count}
      BY <1>1, <2>2 DEF Owned
    <3>2. {j \in DOMAIN Nodes : \E k \in 1 .. j : Nodes[k] = rest} = r .. list.count
      <4>1. ASSUME NEW j \in 1 .. list.count PROVE (\E k \in 1 .. j : Nodes[k] = rest) <=> r <= j
        <5>1. \A k \in 1 .. j : k \in 1 .. list.count BY <1>2
        <5>2. \A k \in 1 .. j : Nodes[k] = rest <=> k = r BY <1>2, <1>3, <3>1, <5>1
        <5>. QED BY <1>2, <5>2
      <4>2. \A j \in r .. list.count : j \in 1 .. list.count /\ r <= j BY <1>2
      <4>3. \A j \in 1 .. list.count : r <= j => j \in r .. list.count BY <1>2
      <4>. QED BY <1>3, <4>1, <4>2, <4>3
    <3>3. \A i \in r .. list.count : Nodes[i] = ns[i]
      <4>1. \A i \in r .. list.count : i \in 1 .. list.count BY <1>2
      <4>. QED BY <1>3, <4>1
    <3>4. held = {Nodes[i] : i \in r .. list.count} BY <3>1, <3>3
    <3>. QED BY <2>2, <3>2, <3>4 DEF NodesHeld
  <2>. QED BY <2>1, <2>2
<1>. QED BY <1>4, <1>5 DEF ListSound

\* However a CList is filled and emptied, by whichever calls and from however many bands, its
\* links agree with the sequence of its calls, and its nodes are what its pool has handed out.
THEOREM ListIsASequence == ListSpec => []ListSound
BY ListInitially, ListStep, ListInvSound, PTL DEF ListSpec

\* Its pool serves every one of these calls.
THEOREM ListPoolNeverFails == ListSpec => []NeverFails
<1>1. ListInv => NeverFails BY DEF ListInv, PoolInv, NeverFails
<1>. QED BY <1>1, ListInitially, ListStep, PTL DEF ListSpec
=============================================================================
