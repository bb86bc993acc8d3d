---------------------------- MODULE SessionsProofs ----------------------------
(***************************************************************************)
(* Theorems about logins and sessions, for any users, addresses, limits    *)
(* and bounds.                                                             *)
(***************************************************************************)
EXTENDS Sessions, FiniteSetTheorems, TLAPS

-----------------------------------------------------------------------------
(* Pruned lists *)

\* Times in order, none of them after t.
InOrder(s, t) ==
  /\ s \in Seq(0 .. t)
  /\ \A j, k \in DOMAIN s : j <= k => s[j] <= s[k]

\* The first m entries are out of the window, the others in it.
Cut(s, m) ==
  /\ m \in 0 .. Len(s)
  /\ \A k \in 1 .. m : ~(now - s[k] < WindowLength)
  /\ \A k \in m + 1 .. Len(s) : now - s[k] < WindowLength

\* What the entries of a sequence are.
LEMMA Items ==
  ASSUME NEW T, NEW s \in Seq(T)
  PROVE  /\ Len(s) \in Nat /\ DOMAIN s = 1 .. Len(s)
         /\ \A k \in 1 .. Len(s) : s[k] \in T
OBVIOUS

\* The size of an interval.
LEMMA Size ==
  ASSUME NEW a \in Nat, NEW b \in Nat, a <= b
  PROVE  IsFiniteSet(a + 1 .. b) /\ Cardinality(a + 1 .. b) = b - a
<1>1. a + 1 \in Int /\ b \in Int
  OBVIOUS
<1>2. /\ IsFiniteSet(a + 1 .. b)
      /\ Cardinality(a + 1 .. b) = IF a + 1 > b THEN 0 ELSE b - (a + 1) + 1
  BY <1>1, FS_Interval
<1> QED
  BY <1>2

\* That of the first n numbers.
LEMMA UpTo ==
  ASSUME NEW n \in Nat
  PROVE  IsFiniteSet(1 .. n) /\ Cardinality(1 .. n) = n
<1>1. 0 + 1 .. n = 1 .. n /\ 0 \in Nat /\ 0 <= n
  OBVIOUS
<1>2. IsFiniteSet(0 + 1 .. n) /\ Cardinality(0 + 1 .. n) = n - 0
  BY <1>1, Size
<1> QED
  BY <1>1, <1>2

\* A set of indices that is closed downwards is an initial interval.
LEMMA ClosedDownwards ==
  ASSUME NEW n \in Nat, NEW S \in SUBSET (1 .. n),
         \A k \in S : \A j \in 1 .. k : j \in S
  PROVE  \E m \in 0 .. n : S = 1 .. m
<1>1. IsFiniteSet(1 .. n) /\ Cardinality(1 .. n) = n
  BY UpTo
<1>2. IsFiniteSet(S) /\ Cardinality(S) \in Nat /\ Cardinality(S) <= n
  <2>1. S \subseteq 1 .. n
    OBVIOUS
  <2>2. IsFiniteSet(S) /\ Cardinality(S) <= Cardinality(1 .. n)
    BY <1>1, <2>1, FS_Subset, Zenon
  <2>3. Cardinality(S) \in Nat
    BY <2>2, FS_CardinalityType, Zenon
  <2> QED
    BY <1>1, <2>2, <2>3
<1>3. S \subseteq 1 .. Cardinality(S)
  <2> SUFFICES ASSUME NEW k \in S PROVE k \in 1 .. Cardinality(S)
    OBVIOUS
  <2>1. 1 .. k \subseteq S /\ k \in Nat /\ 1 <= k
    OBVIOUS
  <2>2. Cardinality(1 .. k) = k
    BY <2>1, UpTo
  <2>3. k <= Cardinality(S)
    BY <1>2, <2>1, <2>2, FS_Subset
  <2> QED
    BY <1>2, <2>1, <2>3
<1>4. IsFiniteSet(1 .. Cardinality(S)) /\ Cardinality(1 .. Cardinality(S)) = Cardinality(S)
  BY <1>2, UpTo
<1>5. S = 1 .. Cardinality(S)
  BY <1>2, <1>3, <1>4, FS_Subset
<1> QED
  BY <1>2, <1>5

\* A list in order is cut somewhere.
LEMMA CutExists ==
  ASSUME NEW s, InOrder(s, now), now \in Nat
  PROVE  \E m \in 0 .. Len(s) : Cut(s, m)
<1> DEFINE old == {k \in 1 .. Len(s) : ~(now - s[k] < WindowLength)}
<1>1. /\ Len(s) \in Nat /\ DOMAIN s = 1 .. Len(s)
      /\ \A k \in 1 .. Len(s) : s[k] \in Nat
      /\ \A j, k \in 1 .. Len(s) : j <= k => s[j] <= s[k]
  BY DEF InOrder
<1>2. \A k \in old : \A j \in 1 .. k : j \in old
  BY <1>1, LimitAssumption
<1>3. old \in SUBSET (1 .. Len(s))
  OBVIOUS
<1> HIDE DEF old
<1>4. PICK m \in 0 .. Len(s) : old = 1 .. m
  BY <1>1, <1>2, <1>3, ClosedDownwards
<1>5. \A k \in 1 .. Len(s) : k \in old <=> ~(now - s[k] < WindowLength)
  BY DEF old
<1>6. /\ \A k \in 1 .. m : ~(now - s[k] < WindowLength)
      /\ \A k \in m + 1 .. Len(s) : now - s[k] < WindowLength
  BY <1>1, <1>4, <1>5
<1> QED
  BY <1>6 DEF Cut

\* What remains is the list from the cut on.
LEMMA RecentIsTheRest ==
  ASSUME NEW s, NEW m, s \in Seq(0 .. now), Cut(s, m)
  PROVE  /\ Recent(s) = [k \in 1 .. Len(s) - m |-> s[m + k]]
         /\ Within(s) = Recent(s)
         /\ Recent(s) \in Seq(0 .. now)
         /\ Len(Recent(s)) = Len(s) - m
<1> DEFINE n == Len(s)
           I == {k \in DOMAIN s : now - s[k] < WindowLength}
<1>1. n \in Nat /\ DOMAIN s = 1 .. n /\ m \in 0 .. n
  BY DEF Cut
<1>2. I = m + 1 .. n
  BY <1>1 DEF Cut
<1>3. Recent(s) = Entries(s, I) /\ Within(s) = Entries(s, I)
  BY DEF Recent, Within
<1> HIDE DEF n, I
<1>4. Cardinality(I) = n - m
  BY <1>1, <1>2, Size
<1>5. \A k \in I : Rank(k, I) = k - m
  <2> TAKE k \in I
  <2>1. k \in Nat /\ m \in Nat /\ m <= k
    BY <1>1, <1>2
  <2>2. {j \in I : j <= k} = m + 1 .. k
    BY <1>1, <1>2
  <2> QED
    BY <2>1, <2>2, Size DEF Rank
<1> DEFINE Kth(k) == CHOOSE j \in I : Rank(j, I) = k
<1>6. \A k \in 1 .. n - m : Kth(k) = m + k
  <2> TAKE k \in 1 .. n - m
  <2>1. m + k \in I /\ Rank(m + k, I) = k
    BY <1>1, <1>2, <1>5
  <2>2. \A j \in I : Rank(j, I) = k => j = m + k
    BY <1>1, <1>2, <1>5
  <2> QED
    BY <2>1, <2>2
<1>7. Entries(s, I) = [k \in 1 .. n - m |-> s[Kth(k)]]
  BY <1>4 DEF Entries
<1> HIDE DEF Kth
<1>8. Entries(s, I) = [k \in 1 .. n - m |-> s[m + k]]
  BY <1>6, <1>7
<1>9. n - m \in Nat /\ \A k \in 1 .. n - m : s[m + k] \in 0 .. now
  <2>1. n - m \in Nat /\ \A k \in 1 .. n - m : m + k \in 1 .. n
    BY <1>1
  <2>2. \A k \in 1 .. n : s[k] \in 0 .. now
    BY Items DEF n
  <2> QED
    BY <2>1, <2>2
<1>10. [k \in 1 .. n - m |-> s[m + k]] \in Seq(0 .. now)
  <2> DEFINE d == n - m
             T == 0 .. now
             rest == [k \in 1 .. d |-> s[m + k]]
  <2>1. d \in Nat /\ rest \in [1 .. d -> T]
    BY <1>9
  <2> HIDE DEF d, T, rest
  <2>2. rest \in Seq(T)
    BY <2>1
  <2> QED
    BY <2>2 DEF d, T, rest
<1>11. Len([k \in 1 .. n - m |-> s[m + k]]) = n - m
  BY <1>9
<1> QED
  BY <1>3, <1>8, <1>10, <1>11 DEF n

-----------------------------------------------------------------------------
(* The list against the history *)

\* f is what is left of r at time t: everything before it is out of the window.
Rest(f, r, t) ==
  /\ Len(f) <= Len(r)
  /\ \A k \in 1 .. Len(f) : f[k] = r[Len(r) - Len(f) + k]
  /\ \A k \in 1 .. Len(r) - Len(f) : ~(t - r[k] < WindowLength)

\* Pruning keeps the order, and what it drops is out of the window.
LEMMA PruningKeepsTheRest ==
  ASSUME NEW f, NEW r, now \in Nat, InOrder(f, now), InOrder(r, now), Rest(f, r, now)
  PROVE  /\ InOrder(Recent(f), now) /\ Rest(Recent(f), r, now)
         /\ Len(Recent(f)) <= Len(f)
<1>1. PICK m \in 0 .. Len(f) : Cut(f, m)
  BY CutExists
<1>2. /\ f \in Seq(0 .. now) /\ Len(f) \in Nat /\ Len(r) \in Nat
      /\ DOMAIN f = 1 .. Len(f) /\ DOMAIN r = 1 .. Len(r)
      /\ \A j, k \in 1 .. Len(f) : j <= k => f[j] <= f[k]
  BY DEF InOrder
<1> DEFINE g == Recent(f)
           n == Len(f)
           l == Len(r)
<1>3. /\ g \in Seq(0 .. now) /\ Len(g) = n - m /\ DOMAIN g = 1 .. n - m
      /\ \A k \in 1 .. n - m : g[k] = f[m + k]
  <2>1. /\ g = [k \in 1 .. n - m |-> f[m + k]]
        /\ g \in Seq(0 .. now) /\ Len(g) = n - m
    BY <1>1, <1>2, RecentIsTheRest
  <2> HIDE DEF g
  <2> QED
    BY <2>1
<1> HIDE DEF g
<1>4. InOrder(g, now)
  <2>1. \A j, k \in 1 .. n - m : j <= k => g[j] <= g[k]
    <3> TAKE j, k \in 1 .. n - m
    <3>1. m + j \in 1 .. n /\ m + k \in 1 .. n /\ (j <= k => m + j <= m + k)
      BY <1>1, <1>2
    <3> QED
      BY <1>2, <1>3, <3>1
  <2> QED
    BY <1>3, <2>1 DEF InOrder
<1>5. /\ n <= l
      /\ \A k \in 1 .. n : f[k] = r[l - n + k]
      /\ \A k \in 1 .. l - n : ~(now - r[k] < WindowLength)
      /\ \A k \in 1 .. m : ~(now - f[k] < WindowLength)
  BY <1>1 DEF Rest, Cut
<1> HIDE DEF n, l
<1>6. n \in Nat /\ l \in Nat /\ m \in 0 .. n
  BY <1>1, <1>2 DEF n, l
<1>7. \A k \in 1 .. n - m : g[k] = r[l - (n - m) + k]
  <2> TAKE k \in 1 .. n - m
  <2>1. m + k \in 1 .. n /\ l - n + (m + k) = l - (n - m) + k
    BY <1>6
  <2> QED
    BY <1>3, <1>5, <2>1
<1>8. \A k \in 1 .. l - (n - m) : ~(now - r[k] < WindowLength)
  <2> TAKE k \in 1 .. l - (n - m)
  <2>1. CASE k \in 1 .. l - n
    BY <1>5, <2>1
  <2>2. CASE k \notin 1 .. l - n
    <3>1. k - (l - n) \in 1 .. m /\ k - (l - n) \in 1 .. n /\ l - n + (k - (l - n)) = k
      BY <1>6, <2>2
    <3> QED
      BY <1>5, <3>1
  <2> QED
    BY <2>1, <2>2
<1> QED
  BY <1>3, <1>4, <1>5, <1>6, <1>7, <1>8 DEF Rest, g, n, l

\* The same attempts, counted from the list and from the history.
LEMMA CountsAgree ==
  ASSUME NEW f, NEW r, now \in Nat, InOrder(f, now), InOrder(r, now), Rest(f, r, now)
  PROVE  Len(Within(r)) = Len(Recent(f))
<1>1. PICK m \in 0 .. Len(f) : Cut(f, m)
  BY CutExists
<1>2. /\ f \in Seq(0 .. now) /\ r \in Seq(0 .. now)
      /\ Len(f) \in Nat /\ Len(r) \in Nat
  BY DEF InOrder
<1> DEFINE n == Len(f)
           l == Len(r)
           c == l - n + m
<1>3. n \in Nat /\ l \in Nat /\ m \in 0 .. n /\ n <= l
  BY <1>1, <1>2 DEF Rest
<1>4. /\ \A k \in 1 .. n : f[k] = r[l - n + k]
      /\ \A k \in 1 .. l - n : ~(now - r[k] < WindowLength)
      /\ \A k \in 1 .. m : ~(now - f[k] < WindowLength)
      /\ \A k \in m + 1 .. n : now - f[k] < WindowLength
  BY <1>1 DEF Rest, Cut
<1>5. Cut(r, c)
  <2> HIDE DEF n, l
  <2>1. c \in 0 .. l
    BY <1>3
  <2>2. ASSUME NEW k \in 1 .. l, k \notin 1 .. l - n
        PROVE  k - (l - n) \in 1 .. n /\ r[k] = f[k - (l - n)]
    <3>1. k - (l - n) \in 1 .. n /\ l - n + (k - (l - n)) = k
      BY <1>3, <2>2
    <3> QED
      BY <1>4, <3>1
  <2>3. \A k \in 1 .. c : ~(now - r[k] < WindowLength)
    <3> TAKE k \in 1 .. c
    <3>1. CASE k \in 1 .. l - n
      BY <1>4, <3>1
    <3>2. CASE k \notin 1 .. l - n
      <4>1. k \in 1 .. l /\ k - (l - n) \in 1 .. m
        BY <1>3, <3>2
      <4> QED
        BY <1>4, <2>2, <3>2, <4>1
    <3> QED
      BY <3>1, <3>2
  <2>4. \A k \in c + 1 .. l : now - r[k] < WindowLength
    <3> TAKE k \in c + 1 .. l
    <3>1. k \in 1 .. l /\ k \notin 1 .. l - n /\ k - (l - n) \in m + 1 .. n
      BY <1>3
    <3> QED
      BY <1>4, <2>2, <3>1
  <2> QED
    BY <2>1, <2>3, <2>4 DEF Cut, l
<1>6. Len(Within(r)) = l - c
  BY <1>2, <1>5, RecentIsTheRest
<1>7. Len(Recent(f)) = n - m
  BY <1>1, <1>2, RecentIsTheRest
<1> QED
  BY <1>3, <1>6, <1>7

\* A rejected attempt goes to the end of both.
LEMMA RecordingKeepsTheRest ==
  ASSUME NEW f, NEW r, now \in Nat, InOrder(f, now), InOrder(r, now), Rest(f, r, now)
  PROVE  /\ InOrder(Append(f, now), now) /\ InOrder(Append(r, now), now)
         /\ Rest(Append(f, now), Append(r, now), now)
         /\ Len(Append(f, now)) = Len(f) + 1
<1> DEFINE T == 0 .. now
<1>1. ASSUME NEW s, InOrder(s, now)
      PROVE  /\ InOrder(Append(s, now), now)
             /\ Len(s) \in Nat /\ Len(Append(s, now)) = Len(s) + 1
             /\ \A k \in 1 .. Len(s) : Append(s, now)[k] = s[k]
             /\ Append(s, now)[Len(s) + 1] = now
  <2>1. s \in Seq(T) /\ now \in T
    BY <1>1 DEF InOrder
  <2> HIDE DEF T
  <2>2. /\ Append(s, now) \in Seq(T) /\ Len(s) \in Nat /\ Len(Append(s, now)) = Len(s) + 1
        /\ DOMAIN s = 1 .. Len(s) /\ DOMAIN Append(s, now) = 1 .. Len(s) + 1
        /\ \A k \in 1 .. Len(s) : Append(s, now)[k] = s[k] /\ s[k] \in T
        /\ Append(s, now)[Len(s) + 1] = now
    BY <2>1
  <2>3. \A j, k \in 1 .. Len(s) + 1 : j <= k => Append(s, now)[j] <= Append(s, now)[k]
    <3> TAKE j, k \in 1 .. Len(s) + 1
    <3>1. CASE k \in 1 .. Len(s) /\ j \in 1 .. Len(s)
      BY <1>1, <2>2, <3>1 DEF InOrder
    <3>2. CASE k = Len(s) + 1 /\ j \in 1 .. Len(s)
      BY <2>2, <3>2 DEF T
    <3>3. CASE j = Len(s) + 1
      <4>1. j <= k => j = k
        BY <2>2, <3>3
      <4> QED
        BY <2>2, <3>3, <4>1
    <3> QED
      BY <2>2, <3>1, <3>2, <3>3
  <2> QED
    BY <2>2, <2>3 DEF InOrder, T
<1> DEFINE n == Len(f)
           l == Len(r)
           F == Append(f, now)
           R == Append(r, now)
<1>2. /\ n \in Nat /\ l \in Nat /\ n <= l
      /\ \A k \in 1 .. n : f[k] = r[l - n + k]
      /\ \A k \in 1 .. l - n : ~(now - r[k] < WindowLength)
  BY <1>1 DEF Rest
<1>3. /\ InOrder(F, now) /\ Len(F) = n + 1
      /\ \A k \in 1 .. n : F[k] = f[k]
      /\ F[n + 1] = now
  BY <1>1
<1>4. /\ InOrder(R, now) /\ Len(R) = l + 1
      /\ \A k \in 1 .. l : R[k] = r[k]
      /\ R[l + 1] = now
  BY <1>1
<1> HIDE DEF n, l, F, R
<1>5. (l + 1) - (n + 1) = l - n
  BY <1>2
<1>6. \A k \in 1 .. n + 1 : F[k] = R[l - n + k]
  <2> TAKE k \in 1 .. n + 1
  <2>1. CASE k \in 1 .. n
    <3>1. l - n + k \in 1 .. l
      BY <1>2, <2>1
    <3> QED
      BY <1>2, <1>3, <1>4, <2>1, <3>1
  <2>2. CASE k = n + 1
    <3>1. l - n + (n + 1) = l + 1
      BY <1>2
    <3> QED
      BY <1>3, <1>4, <2>2, <3>1
  <2> QED
    BY <1>2, <2>1, <2>2
<1>7. \A k \in 1 .. l - n : ~(now - R[k] < WindowLength)
  <2> TAKE k \in 1 .. l - n
  <2>1. k \in 1 .. l
    BY <1>2
  <2> QED
    BY <1>2, <1>4, <2>1
<1>8. Rest(F, R, now)
  <2>1. Len(F) = n + 1 /\ Len(R) = l + 1 /\ Len(R) - Len(F) = l - n /\ Len(F) <= Len(R)
    BY <1>2, <1>5, <1>3, <1>4
  <2> QED
    BY <1>6, <1>7, <2>1 DEF Rest
<1> QED
  BY <1>3, <1>4, <1>8 DEF n, F, R

-----------------------------------------------------------------------------
(* Inductive invariants *)

\* The lists are in order, and each is what is left of its history.
ListsInv ==
  \A ip \in Ips :
    /\ InOrder(failures[ip], now)
    /\ InOrder(rejected[ip], now)
    /\ Rest(failures[ip], rejected[ip], now)

\* A list is never longer than the limit, and while a login is under way there is
\* room for its failure.
LimitInv ==
  /\ \A ip \in Ips : Len(failures[ip]) <= MaxFailures
  /\ pc # "idle" => Len(failures[login.ip]) < MaxFailures

\* A user's tokens are signed with the secret the user has.
TokensInv ==
  \A token \in tokens :
    token.user \in Users =>
      /\ config[token.user].exists
      /\ config[token.user].secret = token.secret
      /\ token.secret # 0

\* Pruning the list of one address.
LEMMA PruneStep ==
  ASSUME TypeOK, ListsInv, NEW ip \in Ips, UNCHANGED <<now, rejected>>,
         failures' = [failures EXCEPT ![ip] = Recent(@)]
  PROVE  /\ failures' \in [Ips -> Seq(0 .. now)]
         /\ ListsInv'
         /\ \A i \in Ips : Len(failures'[i]) <= Len(failures[i])
         /\ failures'[ip] = Recent(failures[ip])
<1>1. now \in Nat /\ \A i \in Ips : failures[i] \in Seq(0 .. now)
  BY DEF TypeOK
<1>2. \A i \in Ips : failures'[i] = IF i = ip THEN Recent(failures[ip]) ELSE failures[i]
  BY DEF TypeOK
<1>3. /\ InOrder(Recent(failures[ip]), now)
      /\ Rest(Recent(failures[ip]), rejected[ip], now)
      /\ Len(Recent(failures[ip])) <= Len(failures[ip])
  BY <1>1, PruningKeepsTheRest DEF ListsInv
<1>4. failures' \in [Ips -> Seq(0 .. now)]
  BY <1>3 DEF TypeOK, InOrder
<1>5. ListsInv'
  BY <1>2, <1>3 DEF ListsInv
<1>6. \A i \in Ips : Len(failures[i]) <= Len(failures[i])
  <2> SUFFICES ASSUME NEW i \in Ips PROVE Len(failures[i]) \in Nat
    OBVIOUS
  <2> QED
    BY <1>1
<1> QED
  BY <1>2, <1>3, <1>4, <1>5, <1>6

\* Recording a rejected attempt: one entry more than the pruned list has.
LEMMA RecordStep ==
  ASSUME TypeOK, ListsInv, NEW ip \in Ips, now' = now, Record(ip)
  PROVE  /\ failures' \in [Ips -> Seq(0 .. now)]
         /\ rejected' \in [Ips -> Seq(0 .. now)]
         /\ ListsInv'
         /\ \A i \in Ips \ {ip} : failures'[i] = failures[i]
         /\ Len(failures'[ip]) = Len(Recent(failures[ip])) + 1
         /\ Len(Recent(failures[ip])) <= Len(failures[ip])
<1> DEFINE f == Recent(failures[ip])
           r == rejected[ip]
           F == Append(f, now)
           R == Append(r, now)
           S == Seq(0 .. now)
<1>1. now \in Nat
  BY DEF TypeOK
<1>2. InOrder(f, now) /\ InOrder(r, now) /\ Rest(f, r, now) /\ Len(f) <= Len(failures[ip])
  BY <1>1, PruningKeepsTheRest DEF ListsInv
<1>3. failures' = [failures EXCEPT ![ip] = F] /\ rejected' = [rejected EXCEPT ![ip] = R]
  BY DEF Record
<1>4. failures \in [Ips -> S] /\ rejected \in [Ips -> S]
  BY DEF TypeOK
<1> HIDE DEF f, r
<1>5. InOrder(F, now) /\ InOrder(R, now) /\ Rest(F, R, now) /\ Len(F) = Len(f) + 1
  BY <1>1, <1>2, RecordingKeepsTheRest
<1> HIDE DEF F, R
<1>6. F \in S /\ R \in S
  BY <1>5 DEF InOrder
<1> HIDE DEF S
<1>7. /\ \A i \in Ips : failures'[i] = IF i = ip THEN F ELSE failures[i]
      /\ \A i \in Ips : rejected'[i] = IF i = ip THEN R ELSE rejected[i]
  BY <1>3, <1>4
<1>8. failures' \in [Ips -> S] /\ rejected' \in [Ips -> S]
  BY <1>3, <1>4, <1>6
<1>9. ASSUME NEW i \in Ips
      PROVE  /\ InOrder(failures'[i], now)
             /\ InOrder(rejected'[i], now)
             /\ Rest(failures'[i], rejected'[i], now)
  <2>1. CASE i = ip
    BY <1>5, <1>7, <2>1
  <2>2. CASE i # ip
    BY <1>7, <2>2 DEF ListsInv
  <2> QED
    BY <2>1, <2>2
<1>10. ListsInv'
  BY <1>9 DEF ListsInv
<1> QED
  BY <1>2, <1>5, <1>7, <1>8, <1>10 DEF f, S

\* A later clock takes entries out of the window, and puts none in.
LEMMA TickStep ==
  ASSUME TypeOK, ListsInv, Tick
  PROVE  /\ failures' \in [Ips -> Seq(0 .. now')]
         /\ rejected' \in [Ips -> Seq(0 .. now')]
         /\ ListsInv'
<1>1. now \in Nat /\ now' = now + 1 /\ failures' = failures /\ rejected' = rejected
  BY DEF TypeOK, Tick, process
<1>2. ASSUME NEW s \in Seq(0 .. now) PROVE s \in Seq(0 .. now')
  <2> DEFINE S == 0 .. now
             T == 0 .. now'
  <2>1. S \subseteq T
    BY <1>1
  <2>2. s \in Seq(S)
    BY <1>2
  <2> HIDE DEF S, T
  <2>3. s \in Seq(T)
    BY <2>1, <2>2
  <2> QED
    BY <2>3 DEF T
<1>3. ASSUME NEW i \in Ips
      PROVE  /\ InOrder(failures[i], now') /\ InOrder(rejected[i], now')
             /\ Rest(failures[i], rejected[i], now')
  <2>1. InOrder(failures[i], now') /\ InOrder(rejected[i], now')
    BY <1>2 DEF ListsInv, InOrder
  <2>2. /\ Len(rejected[i]) \in Nat /\ Len(failures[i]) \in Nat
        /\ \A k \in 1 .. Len(rejected[i]) : rejected[i][k] \in Nat
    <3>1. rejected[i] \in Seq(0 .. now') /\ failures[i] \in Seq(0 .. now')
      BY <2>1 DEF InOrder
    <3>2. /\ Len(rejected[i]) \in Nat /\ Len(failures[i]) \in Nat
          /\ \A k \in 1 .. Len(rejected[i]) : rejected[i][k] \in 0 .. now'
      BY <3>1, Items
    <3> QED
      BY <3>2
  <2> DEFINE r == rejected[i]
             n == Len(failures[i])
             l == Len(r)
  <2>3. n <= l /\ \A k \in 1 .. l - n : ~(now - r[k] < WindowLength)
    BY DEF ListsInv, Rest
  <2>4. Rest(failures[i], r, now')
    <3>1. \A k \in 1 .. n : failures[i][k] = r[l - n + k]
      BY DEF ListsInv, Rest
    <3>2. \A k \in 1 .. l - n : ~(now' - r[k] < WindowLength)
      <4> HIDE DEF n, l, r
      <4>1. n \in Nat /\ l \in Nat /\ \A k \in 1 .. l : r[k] \in Nat
        BY <2>2 DEF n, l, r
      <4>2. \A k \in 1 .. l - n : k \in 1 .. l
        BY <4>1
      <4> QED
        BY <1>1, <2>3, <4>1, <4>2, LimitAssumption
    <3> QED
      BY <2>3, <3>1, <3>2 DEF Rest
  <2> QED
    BY <2>1, <2>4
<1>4. /\ failures' \in [Ips -> Seq(0 .. now')]
      /\ rejected' \in [Ips -> Seq(0 .. now')]
  BY <1>1, <1>2 DEF TypeOK
<1> QED
  BY <1>1, <1>3, <1>4 DEF ListsInv

\* What an action that touches neither the clock nor the lists leaves true.
LEMMA ListsStay ==
  ASSUME TypeOK, ListsInv, UNCHANGED <<now, failures, rejected>>
  PROVE  /\ now' \in 0 .. MaxTime
         /\ failures' \in [Ips -> Seq(0 .. now')]
         /\ rejected' \in [Ips -> Seq(0 .. now')]
         /\ ListsInv'
BY DEF TypeOK, ListsInv

\* Type correctness needs the lists in order: what pruning makes of a list that is
\* not would have no type.
LEMMA TypeStep ==
  ASSUME TypeOK, ListsInv, [Next]_vars
  PROVE  TypeOK' /\ ListsInv'
<1> DEFINE UserType == [exists : BOOLEAN, password : Passwords \cup {0}, secret : Secret]
           Config == config' \in [Users -> UserType]
           Login == /\ pc' \in {"idle", "secret", "update"}
                    /\ login'.user \in Users \cup {Guest} /\ login'.ip \in Ips
                    /\ pc' # "idle" => login'.user \in Users
           Locked == pc' = "update" => /\ config'[login'.user].exists
                                       /\ config'[login'.user].secret = 0
           Others == /\ secrets' \in Secret
                     /\ incarnation' \in 1 .. 1 + MaxRestarts
                     /\ tokens' \subseteq Token
                     /\ written' \in [Users -> Passwords \cup {0}]
           Lists == /\ now' \in 0 .. MaxTime
                    /\ failures' \in [Ips -> Seq(0 .. now')]
                    /\ rejected' \in [Ips -> Seq(0 .. now')]
<1>1. Config /\ Login /\ Locked /\ Others /\ Lists => TypeOK'
  BY DEF TypeOK
<1>2. Idle.user \in Users \cup {Guest} /\ Idle.ip \in Ips
  BY IpsAssumption DEF Idle
<1>3. /\ config \in [Users -> UserType]
      /\ pc \in {"idle", "secret", "update"}
      /\ login.user \in Users \cup {Guest} /\ login.ip \in Ips
      /\ pc # "idle" => login.user \in Users
      /\ pc = "update" => config[login.user].exists /\ config[login.user].secret = 0
  BY DEF TypeOK
<1>4. /\ secrets \in Secret /\ incarnation \in 1 .. 1 + MaxRestarts /\ tokens \subseteq Token
      /\ written \in [Users -> Passwords \cup {0}]
      /\ now \in 0 .. MaxTime /\ now \in Nat
      /\ failures \in [Ips -> Seq(0 .. now)] /\ rejected \in [Ips -> Seq(0 .. now)]
  BY DEF TypeOK
<1>5. CASE Tick
  <2>1. Lists /\ ListsInv'
    BY <1>4, <1>5, TickStep, BoundsAssumption DEF Tick
  <2>2. Config /\ Login /\ Locked /\ Others
    BY <1>3, <1>4, <1>5 DEF Tick, process
  <2> QED
    BY <1>1, <2>1, <2>2
<1>6. ASSUME NEW ip \in Ips, Block(ip) PROVE TypeOK' /\ ListsInv'
  <2>1. Lists /\ ListsInv'
    BY <1>4, <1>6, PruneStep DEF Block, AfterBlock
  <2>2. Config /\ Login /\ Locked /\ Others
    BY <1>3, <1>4, <1>6 DEF Block
  <2> QED
    BY <1>1, <2>1, <2>2
<1>7. ASSUME NEW ip \in Ips, NEW user \in Users, NEW password \in Passwords,
             CheckPassword(ip, user, password)
      PROVE  TypeOK' /\ ListsInv'
  <2>1. CASE config[user].exists /\ config[user].password = password
    <3>1. Lists /\ ListsInv'
      BY <1>4, <1>7, <2>1, PruneStep DEF CheckPassword
    <3>2. Config /\ Login /\ Locked /\ Others
      BY <1>3, <1>4, <1>7, <2>1 DEF CheckPassword
    <3> QED
      BY <1>1, <3>1, <3>2
  <2>2. CASE ~(config[user].exists /\ config[user].password = password)
    <3>1. Lists /\ ListsInv'
      BY <1>4, <1>7, <2>2, RecordStep DEF CheckPassword
    <3>2. Config /\ Login /\ Locked /\ Others
      BY <1>3, <1>4, <1>7, <2>2 DEF CheckPassword
    <3> QED
      BY <1>1, <3>1, <3>2
  <2> QED
    BY <2>1, <2>2
<1>8. CASE UserGone
  <2>1. Lists /\ ListsInv'
    BY <1>3, <1>4, <1>8, RecordStep DEF UserGone
  <2>2. Config /\ Login /\ Locked /\ Others
    BY <1>2, <1>3, <1>4, <1>8 DEF UserGone, Finish
  <2> QED
    BY <1>1, <2>1, <2>2
<1>9. CASE SecretExists
  <2>1. Lists /\ ListsInv'
    BY <1>9, ListsStay DEF SecretExists
  <2>2. Config /\ Login /\ Locked
    BY <1>2, <1>3, <1>9 DEF SecretExists, Finish
  <2>3. config[login.user].secret \in Nat /\ login.user \in Users
    BY <1>3, <1>9, BoundsAssumption DEF SecretExists, Secret
  <2>4. Others
    BY <1>4, <1>9, <2>3 DEF SecretExists, Issue, Token
  <2> QED
    BY <1>1, <2>1, <2>2, <2>4
<1>10. CASE LockRow
  <2>1. Lists /\ ListsInv'
    BY <1>10, ListsStay DEF LockRow
  <2>2. Config /\ Login /\ Locked /\ Others
    BY <1>3, <1>4, <1>10 DEF LockRow
  <2> QED
    BY <1>1, <2>1, <2>2
<1>11. CASE UpdateSecret
  <2>1. Lists /\ ListsInv'
    BY <1>11, ListsStay DEF UpdateSecret
  <2>2. Login /\ Locked
    BY <1>2, <1>11 DEF UpdateSecret, Finish
  <2>3. secrets + 1 \in Secret /\ secrets + 1 \in Nat /\ login.user \in Users
    BY <1>3, <1>4, <1>11, BoundsAssumption DEF UpdateSecret, Secret
  <2>4. Config
    BY <1>3, <1>11, <2>3 DEF UpdateSecret, StoreSecret
  <2>5. Others
    BY <1>4, <1>11, <2>3 DEF UpdateSecret, Issue, Token
  <2> QED
    BY <1>1, <2>1, <2>2, <2>4, <2>5
<1>12. CASE LoginFails
  <2>1. Lists /\ ListsInv'
    BY <1>12, ListsStay DEF LoginFails
  <2>2. Config /\ Login /\ Locked /\ Others
    BY <1>2, <1>3, <1>4, <1>12 DEF LoginFails, Finish
  <2> QED
    BY <1>1, <2>1, <2>2
<1>13. CASE LoginGuest
  <2>1. Lists /\ ListsInv'
    BY <1>13, ListsStay DEF LoginGuest, process
  <2>2. Config /\ Login /\ Locked
    BY <1>3, <1>13 DEF LoginGuest, process
  <2>3. Others
    BY <1>4, <1>13, BoundsAssumption DEF LoginGuest, process, Issue, Token
  <2> QED
    BY <1>1, <2>1, <2>2, <2>3
<1>14. CASE Restart
  <2>1. Lists /\ ListsInv'
    <3>1. <<>> \in Seq(0 .. now) /\ Len(<<>>) = 0 /\ DOMAIN <<>> = {}
      OBVIOUS
    <3>2. InOrder(<<>>, now) /\ Rest(<<>>, <<>>, now)
      BY <3>1 DEF InOrder, Rest
    <3>3. \A i \in Ips : failures'[i] = <<>> /\ rejected'[i] = <<>>
      BY <1>14 DEF Restart
    <3>4. now' = now
      BY <1>14 DEF Restart
    <3>5. ListsInv'
      BY <3>2, <3>3, <3>4 DEF ListsInv
    <3>6. Lists
      BY <1>4, <1>14, <3>1, <3>4 DEF Restart
    <3> QED
      BY <3>5, <3>6
  <2>2. Config /\ Login /\ Locked /\ Others
    BY <1>2, <1>3, <1>4, <1>14, BoundsAssumption DEF Restart, Finish
  <2> QED
    BY <1>1, <2>1, <2>2
<1>15. ASSUME NEW user \in Users, NEW password \in Passwords, OwnerSetsPassword(user, password)
       PROVE  TypeOK' /\ ListsInv'
  <2>1. Lists /\ ListsInv'
    BY <1>15, ListsStay DEF OwnerSetsPassword, process
  <2>2. Config /\ Login /\ Locked
    BY <1>3, <1>15 DEF OwnerSetsPassword, process, Unlocked
  <2>3. Others
    BY <1>4, <1>15 DEF OwnerSetsPassword, process
  <2> QED
    BY <1>1, <2>1, <2>2, <2>3
<1>16. ASSUME NEW user \in Users, OwnerLogsIn(user) PROVE TypeOK' /\ ListsInv'
  <2>1. Lists /\ ListsInv'
    BY <1>16, ListsStay DEF OwnerLogsIn, process
  <2>2. secrets + 1 \in Secret /\ secrets + 1 \in Nat
    BY <1>4, <1>16, BoundsAssumption DEF OwnerLogsIn, Secret
  <2>3. Config /\ Login /\ Locked
    BY <1>3, <1>16, <2>2 DEF OwnerLogsIn, process, Unlocked
  <2>4. Others
    BY <1>4, <1>16, <2>2 DEF OwnerLogsIn, process, Issue, Token
  <2> QED
    BY <1>1, <2>1, <2>3, <2>4
<1>17. ASSUME NEW user \in Users, OwnerRevokes(user) PROVE TypeOK' /\ ListsInv'
  <2>1. Lists /\ ListsInv'
    BY <1>17, ListsStay DEF OwnerRevokes, process
  <2>2. Config /\ Login /\ Locked
    BY <1>3, <1>17, BoundsAssumption DEF OwnerRevokes, process, Unlocked, Secret
  <2>3. Others
    BY <1>4, <1>17 DEF OwnerRevokes, process
  <2> QED
    BY <1>1, <2>1, <2>2, <2>3
<1>18. ASSUME NEW user \in Users, OwnerDeletes(user) PROVE TypeOK' /\ ListsInv'
  <2>1. Lists /\ ListsInv'
    BY <1>18, ListsStay DEF OwnerDeletes, process
  <2>2. Config /\ Login /\ Locked
    BY <1>3, <1>18, BoundsAssumption DEF OwnerDeletes, process, Unlocked, NoUser, Secret
  <2>3. Others
    BY <1>4, <1>18 DEF OwnerDeletes, process
  <2> QED
    BY <1>1, <2>1, <2>2, <2>3
<1>19. CASE UNCHANGED vars
  <2>1. Lists /\ ListsInv'
    BY <1>19, ListsStay DEF vars
  <2>2. Config /\ Login /\ Locked /\ Others
    BY <1>3, <1>4, <1>19 DEF vars
  <2> QED
    BY <1>1, <2>1, <2>2
<1> QED
  BY <1>5, <1>6, <1>7, <1>8, <1>9, <1>10, <1>11, <1>12, <1>13, <1>14, <1>15, <1>16, <1>17,
     <1>18, <1>19
  DEF Next, LoginStep, OwnerStep

\* The type invariant of logins and sessions, with the lists in order.
THEOREM TypeCorrect == Spec => [](TypeOK /\ ListsInv)
<1>1. Init => TypeOK /\ ListsInv
  <2> SUFFICES ASSUME Init PROVE TypeOK /\ ListsInv
    OBVIOUS
  <2>1. <<>> \in Seq(0 .. 0) /\ Len(<<>>) = 0 /\ DOMAIN <<>> = {}
    OBVIOUS
  <2>2. ListsInv
    <3>1. InOrder(<<>>, now) /\ Rest(<<>>, <<>>, now)
      BY <2>1 DEF Init, InOrder, Rest
    <3> QED
      BY <3>1 DEF Init, ListsInv
  <2>3. /\ now \in 0 .. MaxTime /\ secrets \in Secret /\ incarnation \in 1 .. 1 + MaxRestarts
        /\ tokens \subseteq Token /\ written \in [Users -> Passwords \cup {0}]
    BY BoundsAssumption DEF Init, Secret
  <2>4. failures \in [Ips -> Seq(0 .. now)] /\ rejected \in [Ips -> Seq(0 .. now)]
    BY <2>1 DEF Init
  <2>5. config \in [Users -> [exists : BOOLEAN, password : Passwords \cup {0}, secret : Secret]]
    BY BoundsAssumption DEF Init, NoUser, Secret
  <2>6. pc = "idle" /\ login.user \in Users \cup {Guest} /\ login.ip \in Ips
    BY IpsAssumption DEF Init, Idle
  <2> QED
    BY <2>2, <2>3, <2>4, <2>5, <2>6 DEF TypeOK
<1>2. TypeOK /\ ListsInv /\ [Next]_vars => TypeOK' /\ ListsInv'
  BY TypeStep
<1> QED
  BY <1>1, <1>2, PTL DEF Spec

-----------------------------------------------------------------------------
(* The rate limit *)

\* The lists have lengths, and pruning does not lengthen them.
LEMMA Lengths ==
  ASSUME TypeOK, ListsInv, NEW ip \in Ips
  PROVE  /\ Len(failures[ip]) \in Nat /\ Len(Recent(failures[ip])) \in Nat
         /\ Len(Recent(failures[ip])) <= Len(failures[ip])
         /\ Len(Within(rejected[ip])) = Len(Recent(failures[ip]))
<1>1. /\ now \in Nat
      /\ InOrder(failures[ip], now) /\ InOrder(rejected[ip], now)
      /\ Rest(failures[ip], rejected[ip], now)
  BY DEF TypeOK, ListsInv
<1>2. InOrder(Recent(failures[ip]), now)
  BY <1>1, PruningKeepsTheRest
<1>3. failures[ip] \in Seq(0 .. now) /\ Recent(failures[ip]) \in Seq(0 .. now)
  BY <1>1, <1>2 DEF InOrder
<1>4. Len(failures[ip]) \in Nat /\ Len(Recent(failures[ip])) \in Nat
  BY <1>3, Items
<1> QED
  BY <1>1, <1>4, PruningKeepsTheRest, CountsAgree

\* An attempt that is not blocked finds room on the pruned list, and keeps it: no
\* other attempt is handled until this one is answered.
LEMMA LimitStep ==
  ASSUME TypeOK, ListsInv, LimitInv, [Next]_vars
  PROVE  LimitInv'
<1>1. \A ip \in Ips : Len(failures[ip]) \in Nat /\ Len(failures[ip]) <= MaxFailures
  BY Lengths DEF LimitInv
<1>2. ASSUME UNCHANGED failures,
             \/ pc' = "idle"
             \/ pc # "idle" /\ login' = login
      PROVE  LimitInv'
  BY <1>1, <1>2 DEF LimitInv
<1>3. ASSUME NEW ip \in Ips, Block(ip) PROVE LimitInv'
  <2>1. /\ pc' = "idle" /\ failures' \in [Ips -> Seq(0 .. now)]
        /\ \A i \in Ips : Len(failures'[i]) <= Len(failures[i])
    BY <1>3, PruneStep DEF Block, AfterBlock
  <2>2. \A i \in Ips : Len(failures'[i]) \in Nat
    BY <2>1, Items
  <2> QED
    BY <1>1, <2>1, <2>2, LimitAssumption DEF LimitInv
<1>4. ASSUME NEW ip \in Ips, NEW user \in Users, NEW password \in Passwords,
             CheckPassword(ip, user, password)
      PROVE  LimitInv'
  <2>1. Len(Recent(failures[ip])) \in Nat /\ Len(Recent(failures[ip])) < MaxFailures
    BY <1>4, Lengths, LimitAssumption DEF CheckPassword, Limited
  <2>2. CASE config[user].exists /\ config[user].password = password
    <3>1. /\ failures' \in [Ips -> Seq(0 .. now)]
          /\ \A i \in Ips : Len(failures'[i]) <= Len(failures[i])
          /\ failures'[ip] = Recent(failures[ip])
      BY <1>4, <2>2, PruneStep DEF CheckPassword
    <3>2. \A i \in Ips : Len(failures'[i]) \in Nat
      BY <3>1, Items
    <3>3. login'.ip = ip
      BY <1>4, <2>2 DEF CheckPassword
    <3> QED
      BY <1>1, <2>1, <3>1, <3>2, <3>3, LimitAssumption DEF LimitInv
  <2>3. CASE ~(config[user].exists /\ config[user].password = password)
    <3>1. /\ \A i \in Ips \ {ip} : failures'[i] = failures[i]
          /\ Len(failures'[ip]) = Len(Recent(failures[ip])) + 1
      BY <1>4, <2>3, RecordStep DEF CheckPassword
    <3>2. pc' = "idle"
      BY <1>4, <2>3 DEF CheckPassword
    <3> QED
      BY <1>1, <2>1, <3>1, <3>2, LimitAssumption DEF LimitInv
  <2> QED
    BY <2>2, <2>3
<1>5. CASE UserGone
  <2>1. login.ip \in Ips /\ Len(failures[login.ip]) < MaxFailures
    BY <1>5 DEF UserGone, TypeOK, LimitInv
  <2>2. /\ \A i \in Ips \ {login.ip} : failures'[i] = failures[i]
        /\ Len(failures'[login.ip]) = Len(Recent(failures[login.ip])) + 1
        /\ Len(Recent(failures[login.ip])) \in Nat
        /\ Len(Recent(failures[login.ip])) <= Len(failures[login.ip])
    BY <1>5, <2>1, RecordStep, Lengths DEF UserGone
  <2>3. pc' = "idle"
    BY <1>5 DEF UserGone, Finish
  <2> QED
    BY <1>1, <2>1, <2>2, <2>3, LimitAssumption DEF LimitInv
<1>6. CASE Restart
  <2>1. pc' = "idle" /\ \A i \in Ips : Len(failures'[i]) = 0
    BY <1>6 DEF Restart, Finish
  <2> QED
    BY <2>1, LimitAssumption DEF LimitInv
<1>7. CASE SecretExists \/ UpdateSecret \/ LoginFails \/ LockRow
  BY <1>2, <1>7 DEF SecretExists, UpdateSecret, LoginFails, LockRow, Finish
<1>8. CASE Tick \/ LoginGuest \/ UNCHANGED vars
  BY <1>2, <1>8 DEF Tick, LoginGuest, process, vars
<1>9. CASE OwnerStep
  BY <1>2, <1>9 DEF OwnerStep, OwnerSetsPassword, OwnerLogsIn, OwnerRevokes, OwnerDeletes, process
<1> QED
  BY <1>3, <1>4, <1>5, <1>6, <1>7, <1>8, <1>9 DEF Next, LoginStep

\* Although the list is pruned on the way, no window holds more rejected attempts
\* than the limit, and an address is blocked only while its own fill one.
THEOREM RateLimitIsExactAlways == Spec => []RateLimitIsExact
<1>1. Init /\ TypeOK => LimitInv
  BY LimitAssumption DEF Init, LimitInv
<1>2. TypeOK /\ ListsInv /\ LimitInv /\ [Next]_vars => LimitInv'
  BY LimitStep
<1>3. TypeOK /\ ListsInv /\ LimitInv => RateLimitIsExact
  <2> SUFFICES ASSUME TypeOK, ListsInv, LimitInv, NEW ip \in Ips
               PROVE  /\ Len(Within(rejected[ip])) <= MaxFailures
                      /\ Limited(ip) => Len(Within(rejected[ip])) = MaxFailures
    BY DEF RateLimitIsExact
  <2>1. Len(failures[ip]) <= MaxFailures
    BY DEF LimitInv
  <2> QED
    BY <2>1, Lengths, LimitAssumption DEF Limited
<1> QED
  BY <1>1, <1>2, <1>3, TypeCorrect, PTL DEF Spec

-----------------------------------------------------------------------------
(* Sessions *)

\* A user that is given a secret has no tokens yet; one that loses it loses them.
LEMMA TokensStep ==
  ASSUME TypeOK, TokensInv, [Next]_vars
  PROVE  TokensInv'
<1> DEFINE UserType == [exists : BOOLEAN, password : Passwords \cup {0}, secret : Secret]
<1>1. /\ config \in [Users -> UserType] /\ secrets \in Nat
      /\ pc # "idle" => login.user \in Users
  BY BoundsAssumption DEF TypeOK, Secret
<1>2. ASSUME UNCHANGED <<config, tokens>> PROVE TokensInv'
  BY <1>2 DEF TokensInv
<1>3. CASE SecretExists
  <2>1. /\ login.user \in Users /\ config' = config
        /\ config[login.user].exists /\ config[login.user].secret # 0
        /\ \A token \in tokens' : \/ token \in tokens
                                  \/ /\ token.user = login.user
                                     /\ token.secret = config[login.user].secret
    BY <1>1, <1>3 DEF SecretExists, Issue
  <2> QED
    BY <2>1 DEF TokensInv
<1>4. ASSUME NEW user \in Users, config[user].exists, config[user].secret = 0,
             \A u \in Users : /\ config'[u].exists = config[u].exists
                              /\ config'[u].secret = IF u = user THEN secrets + 1
                                                     ELSE config[u].secret,
             Issue(user, secrets + 1)
      PROVE  TokensInv'
  <2>1. \A token \in tokens' : \/ token \in tokens /\ token.user # user
                               \/ token.user = user /\ token.secret = secrets + 1
    BY <1>4 DEF Issue, TokensInv
  <2> QED
    BY <1>1, <1>4, <2>1 DEF TokensInv
<1>5. CASE UpdateSecret
  <2>1. /\ login.user \in Users
        /\ config[login.user].exists /\ config[login.user].secret = 0
    BY <1>5 DEF UpdateSecret, TypeOK
  <2>2. /\ config' = [config EXCEPT ![login.user].secret = secrets + 1]
        /\ Issue(login.user, secrets + 1)
    BY <1>5 DEF UpdateSecret, StoreSecret
  <2>3. \A u \in Users : /\ config'[u].exists = config[u].exists
                         /\ config'[u].secret = IF u = login.user THEN secrets + 1
                                                ELSE config[u].secret
    BY <1>1, <2>2
  <2> QED
    BY <1>4, <2>1, <2>2, <2>3
<1>6. CASE LoginGuest
  <2>1. config' = config /\ \A token \in tokens' : token \in tokens \/ token.user = Guest
    BY <1>6 DEF LoginGuest, Issue
  <2> QED
    BY <2>1, GuestAssumption DEF TokensInv
<1>7. ASSUME NEW user \in Users, NEW password \in Passwords, OwnerSetsPassword(user, password)
      PROVE  TokensInv'
  <2>1. /\ tokens' = tokens
        /\ \A u \in Users : /\ config[u].exists => config'[u].exists
                            /\ config'[u].secret = config[u].secret
    BY <1>1, <1>7 DEF OwnerSetsPassword
  <2> QED
    BY <2>1 DEF TokensInv
<1>8. ASSUME NEW user \in Users, OwnerLogsIn(user) PROVE TokensInv'
  <2>1. \A u \in Users : /\ config'[u].exists = config[u].exists
                         /\ config'[u].secret = IF u = user THEN secrets + 1
                                                ELSE config[u].secret
    BY <1>1, <1>8 DEF OwnerLogsIn
  <2> QED
    BY <1>4, <1>8, <2>1 DEF OwnerLogsIn
<1>9. ASSUME NEW user \in Users, OwnerRevokes(user) \/ OwnerDeletes(user) PROVE TokensInv'
  <2>1. /\ tokens' = {t \in tokens : t.user # user}
        /\ \A u \in Users \ {user} : config'[u] = config[u]
    BY <1>1, <1>9 DEF OwnerRevokes, OwnerDeletes
  <2> QED
    BY <2>1 DEF TokensInv
<1>10. CASE Tick \/ UserGone \/ LockRow \/ LoginFails \/ Restart \/ UNCHANGED vars
  BY <1>2, <1>10 DEF Tick, UserGone, LockRow, LoginFails, Restart, vars
<1>11. ASSUME NEW ip \in Ips,
              \/ Block(ip)
              \/ \E user \in Users, password \in Passwords : CheckPassword(ip, user, password)
       PROVE  TokensInv'
  BY <1>2, <1>11 DEF Block, CheckPassword
<1> QED
  BY <1>3, <1>5, <1>6, <1>7, <1>8, <1>9, <1>10, <1>11 DEF Next, LoginStep, OwnerStep

\* A session holds until it is too old or revoked, and a guest's until the restart:
\* no first login takes back a secret that a session is signed with.
THEOREM SessionsHoldAlways == Spec => []SessionsHold
<1>1. Init => TokensInv
  BY DEF Init, TokensInv
<1>2. TypeOK /\ TokensInv /\ [Next]_vars => TokensInv'
  BY TokensStep
<1>3. TypeOK /\ TokensInv => SessionsHold
  <2> SUFFICES ASSUME TypeOK, TokensInv, NEW token \in tokens
               PROVE  Accepted(token) <=>
                        /\ now - token.issued <= MaxAge
                        /\ token.user = Guest => token.secret = incarnation
    BY DEF SessionsHold
  <2>1. token.user \in Users \cup {Guest}
    BY DEF TypeOK, Token
  <2>2. CASE token.user = Guest
    BY <2>2 DEF Accepted
  <2>3. CASE token.user # Guest
    BY <2>1, <2>3 DEF Accepted, TokensInv
  <2> QED
    BY <2>2, <2>3
<1> QED
  BY <1>1, <1>2, <1>3, TypeCorrect, PTL DEF Spec

\* The password is the one the owner wrote last: the login writes the secret alone.
THEOREM OwnersWritesAreKeptAlways == Spec => []OwnersWritesAreKept
<1>1. Init => OwnersWritesAreKept
  BY DEF Init, OwnersWritesAreKept, NoUser
<1>2. ASSUME TypeOK, OwnersWritesAreKept, [Next]_vars PROVE OwnersWritesAreKept'
  <2>1. /\ config \in [Users -> [exists : BOOLEAN, password : Passwords \cup {0}, secret : Secret]]
        /\ written \in [Users -> Passwords \cup {0}]
        /\ pc = "update" => login.user \in Users
    BY <1>2 DEF TypeOK
  <2>2. ASSUME UNCHANGED <<config, written>> PROVE OwnersWritesAreKept'
    BY <1>2, <2>2 DEF OwnersWritesAreKept
  <2>3. CASE UpdateSecret
    BY <1>2, <2>1, <2>3 DEF UpdateSecret, StoreSecret, OwnersWritesAreKept
  <2>4. ASSUME NEW user \in Users, NEW password \in Passwords, OwnerSetsPassword(user, password)
        PROVE  OwnersWritesAreKept'
    BY <1>2, <2>1, <2>4 DEF OwnerSetsPassword, OwnersWritesAreKept
  <2>5. ASSUME NEW user \in Users, OwnerLogsIn(user) \/ OwnerRevokes(user)
        PROVE  OwnersWritesAreKept'
    BY <1>2, <2>1, <2>5 DEF OwnerLogsIn, OwnerRevokes, OwnersWritesAreKept
  <2>6. ASSUME NEW user \in Users, OwnerDeletes(user) PROVE OwnersWritesAreKept'
    BY <1>2, <2>1, <2>6 DEF OwnerDeletes, NoUser, OwnersWritesAreKept
  <2>7. CASE \/ Tick \/ UserGone \/ SecretExists \/ LockRow \/ LoginFails \/ LoginGuest
             \/ Restart \/ UNCHANGED vars
    BY <2>2, <2>7
    DEF Tick, UserGone, SecretExists, LockRow, LoginFails, LoginGuest, Restart, vars
  <2>8. ASSUME NEW ip \in Ips,
               \/ Block(ip)
               \/ \E user \in Users, password \in Passwords : CheckPassword(ip, user, password)
        PROVE  OwnersWritesAreKept'
    BY <2>2, <2>8 DEF Block, CheckPassword
  <2> QED
    BY <1>2, <2>3, <2>4, <2>5, <2>6, <2>7, <2>8 DEF Next, LoginStep, OwnerStep
<1> QED
  BY <1>1, <1>2, TypeCorrect, PTL DEF Spec

=============================================================================
