----------------------------- MODULE LoginsProofs -----------------------------
(***************************************************************************)
(* Proofs about the rate limits, for any requests, callers, limits and     *)
(* window: that every counter expires, and that however requests, resets,  *)
(* losses and expiries interleave no more than the limit get through in a  *)
(* window and no more than twice the limit in a span of its length, but    *)
(* for one more limit for every time that the counter was cleared.         *)
(***************************************************************************)
EXTENDS Logins, FiniteSetTheorems, TLAPS

-----------------------------------------------------------------------------

Steps == {"idle", "enforce", "serve", "reset"}
Kinds == {"none", "login", "register", "route"}
Whos == Accounts \cup RouteCallers \cup {"none"}

(* A request past its arrival is at one of its counters, and a request to   *)
(* register names an account.                                               *)
RequestOK(q) ==
    /\ q \in [step : Steps, kind : Kinds, who : Whos, keys : Seq(Keys), n : 1 .. 2]
    /\ Len(q.keys) =< 2
    /\ q.step # "idle" => q.n =< Len(q.keys)
    /\ q.kind = "register" => q.who \in Accounts

(* A counter c that expires in t ticks: it is there when its expiry is.     *)
CounterOK(c, t, limit) == c \in 0 .. limit + 1 /\ t \in 0 .. Window /\ (c = 0 <=> t = 0)

(* A history is finite, and the events of a tick are numbered.              *)
Typed(A) == A \subseteq Nat \X Ages /\ IsFiniteSet(A)
Numbered(A) == \A e \in A : e[2] = 0 => e[1] < Cardinality(Young(A, 0))
Number(A, a) == Cardinality(Young(A, a))

(* How many a counter c has let through, at most; when it began, if it is   *)
(* there, or else when the next one begins; and n times the limit.          *)
Low(c, limit) == IF c =< limit THEN c ELSE limit
Began(t) == IF t = 0 THEN 0 ELSE Window - t
Worth(limit, n) == limit * n

(* What was let through, A, against how often the counter was cleared, C:   *)
(* up to every age, what the counter says, and a limit's worth for every    *)
(* clear and, if that is before the counter began, for one that expired.    *)
HistoryOK(A, C, c, t, limit) ==
    /\ Typed(A) /\ Typed(C) /\ Numbered(C)
    /\ \A a \in Ages : Number(A, a) =< Low(c, limit) + Worth(limit, Number(C, a) + 1)
    /\ \A a \in Ages : a =< Began(t) => Number(A, a) =< Low(c, limit) + Worth(limit, Number(C, a))

IInv ==
    /\ DOMAIN count = Keys /\ DOMAIN ttl = Keys /\ DOMAIN req = Requests
    /\ DOMAIN admitted = Watched /\ DOMAIN cleared = Watched
    /\ \A k \in Keys : CounterOK(count[k], ttl[k], Limit(k))
    /\ users \subseteq Accounts
    /\ \A r \in Requests : RequestOK(req[r])
    /\ \A k \in Watched : HistoryOK(admitted[k], cleared[k], count[k], ttl[k], Limit(k))

-----------------------------------------------------------------------------

(* Max and Min of two integers.                                             *)
LEMMA MaxOfTwo ==
    ASSUME NEW a \in Int, NEW b \in Int
    PROVE  Max({a, b}) = IF a >= b THEN a ELSE b
<1> DEFINE m == IF a >= b THEN a ELSE b
<1>1. m \in {a, b} /\ \A y \in {a, b} : m >= y
  OBVIOUS
<1>2. \A x \in {a, b} : (\A y \in {a, b} : x >= y) => x = m
  OBVIOUS
<1>3. QED  BY <1>1, <1>2 DEF Max

LEMMA MinOfTwo ==
    ASSUME NEW a \in Int, NEW b \in Int
    PROVE  Min({a, b}) = IF a =< b THEN a ELSE b
<1> DEFINE m == IF a =< b THEN a ELSE b
<1>1. m \in {a, b} /\ \A y \in {a, b} : m =< y
  OBVIOUS
<1>2. \A x \in {a, b} : (\A y \in {a, b} : x =< y) => x = m
  OBVIOUS
<1>3. QED  BY <1>1, <1>2 DEF Min

LEMMA WindowPositive == Window \in Nat /\ Window > 0
BY LoginsAssumption

LEMMA LimitPositive ==
    ASSUME NEW k \in Keys
    PROVE  Limit(k) \in Nat /\ Limit(k) > 0
BY LoginsAssumption DEF Limit

(* The worth of one more clear, and of no more than another number.         *)
LEMMA WorthOf ==
    ASSUME NEW limit \in Nat, NEW n \in Nat
    PROVE  Worth(limit, n) \in Nat /\ Worth(limit, n + 1) = Worth(limit, n) + limit
BY DEF Worth

LEMMA LowOf ==
    ASSUME NEW limit \in Nat, NEW c \in Nat
    PROVE  Low(c, limit) \in Nat /\ Low(c, limit) =< limit /\ Low(0, limit) = 0
BY DEF Low

(* How many events there are up to an age.                                  *)
LEMMA NumberOf ==
    ASSUME NEW A, Typed(A), NEW a
    PROVE  Typed(Young(A, a)) /\ Number(A, a) \in Nat
<1>1. PICK Y : Y = Young(A, a)
  OBVIOUS
<1>2. Y \subseteq A
  BY <1>1 DEF Young
<1>3. IsFiniteSet(Y) /\ Cardinality(Y) \in Nat
  BY <1>2, FS_Subset, FS_CardinalityType DEF Typed
<1>4. QED  BY <1>1, <1>2, <1>3 DEF Typed, Number

LEMMA WorthOfNumber ==
    ASSUME NEW limit \in Nat, NEW C, Typed(C), NEW a
    PROVE  Worth(limit, Number(C, a)) \in Nat /\ Worth(limit, Number(C, a) + 1) \in Nat
<1>1. PICK n \in Nat : n = Number(C, a)
  BY NumberOf
<1>2. n + 1 \in Nat
  OBVIOUS
<1>3. QED  BY <1>1, <1>2, WorthOf

LEMMA NothingYet ==
    Typed({}) /\ Numbered({}) /\ \A a : Number({}, a) = 0
<1>1. IsFiniteSet({}) /\ Cardinality({}) = 0
  BY FS_EmptySet
<1>2. \A a : Young({}, a) = {}
  BY DEF Young
<1>3. QED  BY <1>1, <1>2 DEF Typed, Numbered, Number

(* One more event: the number of events is one more at every age if those   *)
(* of this tick were numbered, and in any case no more than that.           *)
LEMMA NoteCounts ==
    ASSUME NEW A, Typed(A)
    PROVE  /\ Typed(Note(A))
           /\ \A a \in Ages : Number(Note(A), a) =< Number(A, a) + 1
           /\ Numbered(A) => Numbered(Note(A))
           /\ Numbered(A) => \A a \in Ages : Number(Note(A), a) = Number(A, a) + 1
<1>1. PICK n : n = Number(A, 0)
  OBVIOUS
<1>2. n \in Nat /\ 0 \in Ages
  BY <1>1, NumberOf, WindowPositive DEF Ages
<1>3. PICK e : e = <<n, 0>>
  OBVIOUS
<1>4. PICK B : B = Note(A)
  OBVIOUS
<1>5. B = A \cup {e}
  BY <1>1, <1>3, <1>4 DEF Note, Number
<1>6. Typed(B)
  <2>1. e \in Nat \X Ages
    BY <1>2, <1>3
  <2>2. IsFiniteSet(B)
    BY <1>5, FS_AddElement DEF Typed
  <2>3. QED  BY <1>5, <2>1, <2>2 DEF Typed
<1>7. ASSUME NEW a \in Ages
      PROVE  Number(B, a) = IF e \in A THEN Number(A, a) ELSE Number(A, a) + 1
  <2>1. PICK Y : Y = Young(A, a)
    OBVIOUS
  <2>2. IsFiniteSet(Y)
    BY <2>1, NumberOf DEF Typed
  <2>3. e[2] = 0 /\ 0 =< a
    BY <1>3 DEF Ages
  <2>4. Young(B, a) = Y \cup {e} /\ (e \in Y <=> e \in A)
    BY <1>5, <2>1, <2>3 DEF Young
  <2>5. Cardinality(Y \cup {e}) = IF e \in Y THEN Cardinality(Y) ELSE Cardinality(Y) + 1
    BY <2>2, FS_AddElement
  <2>6. Number(B, a) = Cardinality(Y \cup {e}) /\ Number(A, a) = Cardinality(Y)
    BY <2>1, <2>4 DEF Number
  <2>7. QED  BY <2>4, <2>5, <2>6
<1>8. \A a \in Ages : Number(A, a) \in Nat
  BY NumberOf
<1>9. \A a \in Ages : Number(B, a) =< Number(A, a) + 1
  BY <1>7, <1>8
<1>10. ASSUME Numbered(A)
       PROVE  Numbered(B) /\ \A a \in Ages : Number(B, a) = Number(A, a) + 1
  <2>1. \A x \in A : x[2] = 0 => x[1] < n /\ x[1] \in Nat
    BY <1>1, <1>10 DEF Numbered, Number, Typed
  <2>2. e \notin A
    BY <1>2, <1>3, <2>1
  <2>3. \A a \in Ages : Number(B, a) = Number(A, a) + 1
    BY <1>7, <2>2
  <2>4. Number(B, 0) = n + 1
    BY <1>1, <1>2, <2>3
  <2>5. \A x \in B : x[2] = 0 => x[1] < n + 1
    BY <1>2, <1>3, <1>5, <2>1
  <2>6. QED  BY <2>3, <2>4, <2>5 DEF Numbered, Number
<1>11. QED  BY <1>4, <1>6, <1>9, <1>10

(* Growing older: the events up to an age are those that were up to the age *)
(* below.                                                                   *)
LEMMA OlderCounts ==
    ASSUME NEW A, Typed(A)
    PROVE  /\ Typed(Older(A)) /\ Numbered(Older(A)) /\ Number(Older(A), 0) = 0
           /\ \A a \in Ages : a > 0 => a - 1 \in Ages /\ Number(Older(A), a) = Number(A, a - 1)
<1>1. PICK B : B = Older(A)
  OBVIOUS
<1>2. \A e \in B : \E d \in A : e = <<d[1], d[2] + 1>> /\ d[1] \in Nat /\ d[2] \in Nat /\ d[2] + 1 \in Ages
  BY <1>1 DEF Older, Typed, Ages
<1>3. Young(B, 0) = {}
  <2>1. \A e \in B : e[2] > 0 /\ e[2] \in Nat
    BY <1>2
  <2>2. \A e \in B : ~(e[2] =< 0)
    BY <2>1
  <2>3. QED  BY <2>2 DEF Young
<1>4. Number(B, 0) = 0
  BY <1>3, FS_EmptySet DEF Number
<1>5. Numbered(B)
  <2>1. \A e \in B : e[2] > 0 /\ e[2] \in Nat
    BY <1>2
  <2>2. \A e \in B : e[2] # 0
    BY <2>1
  <2>3. QED  BY <2>2 DEF Numbered
<1>6. ASSUME NEW a \in Ages, a > 0
      PROVE  a - 1 \in Ages /\ IsFiniteSet(Young(B, a)) /\ Number(B, a) = Number(A, a - 1)
  <2>1. PICK b : b = a - 1
    OBVIOUS
  <2>2. b \in Ages /\ a \in Nat /\ a < Window /\ b \in Nat /\ a = b + 1
    BY <1>6, <2>1, WindowPositive DEF Ages
  <2>3. PICK S : S = Young(A, b)
    OBVIOUS
  <2>4. PICK T : T = Young(B, a)
    OBVIOUS
  <2>5. \A d \in S : d \in A /\ d[1] \in Nat /\ d[2] \in Nat /\ d = <<d[1], d[2]>> /\ d[2] =< b
    BY <2>3 DEF Young, Typed, Ages
  <2>6. PICK f : f = [d \in S |-> <<d[1], d[2] + 1>>]
    OBVIOUS
  <2>7. \A d \in S : f[d] \in T
    <3> TAKE d \in S
    <3>1. d[2] + 1 \in Ages /\ d[2] + 1 =< a
      BY <2>2, <2>5, WindowPositive DEF Ages
    <3>2. f[d] \in B
      BY <1>1, <2>5, <2>6, <3>1 DEF Older
    <3>3. f[d][2] = d[2] + 1
      BY <2>6
    <3>4. QED  BY <2>4, <3>1, <3>2, <3>3 DEF Young
  <2>8. \A e \in T : \E d \in S : f[d] = e
    <3> TAKE e \in T
    <3>1. e \in B /\ e[2] =< a
      BY <2>4 DEF Young
    <3>2. PICK d \in A : e = <<d[1], d[2] + 1>> /\ d[1] \in Nat /\ d[2] \in Nat
      BY <1>2, <3>1
    <3>3. d[2] =< b
      BY <2>2, <3>1, <3>2
    <3>4. d \in S
      BY <2>3, <3>2, <3>3 DEF Young
    <3>5. QED  BY <2>6, <3>2, <3>4
  <2>9. \A c, d \in S : f[c] = f[d] => c = d
    <3> SUFFICES ASSUME NEW c \in S, NEW d \in S, f[c] = f[d] PROVE c = d
      OBVIOUS
    <3>1. <<c[1], c[2] + 1>> = <<d[1], d[2] + 1>>
      BY <2>6
    <3>2. c[1] = d[1] /\ c[2] + 1 = d[2] + 1
      BY <3>1
    <3>3. c[2] = d[2]
      BY <2>5, <3>2
    <3>4. QED  BY <2>5, <3>2, <3>3
  <2>10. f \in [S -> T]
    BY <2>6, <2>7
  <2>11. f \in Bijection(S, T)
    BY <2>8, <2>9, <2>10 DEF Bijection, Injection, Surjection, IsInjective
  <2>12. IsFiniteSet(S)
    BY <2>3, NumberOf DEF Typed
  <2>13. IsFiniteSet(T) /\ Cardinality(T) = Cardinality(S)
    BY <2>11, <2>12, FS_Bijection DEF ExistsBijection
  <2>14. QED  BY <2>1, <2>2, <2>3, <2>4, <2>13 DEF Number
<1>7. Typed(B)
  <2>1. B \subseteq Nat \X Ages
    BY <1>2
  <2>2. PICK a : a = Window - 1
    OBVIOUS
  <2>3. a \in Ages /\ \A x \in Ages : x =< a
    BY <2>2, WindowPositive DEF Ages
  <2>4. Young(B, a) = B
    BY <2>1, <2>3 DEF Young
  <2>5. IsFiniteSet(B)
    <3>1. CASE a > 0
      BY <1>6, <2>3, <2>4, <3>1
    <3>2. CASE ~(a > 0)
      <4>1. a = 0
        BY <2>3, <3>2 DEF Ages
      <4>2. QED  BY <1>3, <2>4, <4>1, FS_EmptySet
    <3>3. QED  BY <3>1, <3>2
  <2>6. QED  BY <2>1, <2>5 DEF Typed
<1>8. QED  BY <1>1, <1>4, <1>5, <1>6, <1>7

(* Nothing has been let through.                                            *)
LEMMA NothingAdmitted ==
    ASSUME NEW limit \in Nat
    PROVE  HistoryOK({}, {}, 0, 0, limit)
<1>1. \A n \in Nat : Worth(limit, n) \in Nat
  BY WorthOf
<1>2. Low(0, limit) = 0
  BY LowOf
<1>3. QED  BY <1>1, <1>2, NothingYet DEF HistoryOK

(* The script counts a request and does not let it through, or is not       *)
(* heard.                                                                   *)
LEMMA CountedOnly ==
    ASSUME NEW limit \in Nat \ {0}, NEW c, NEW t, NEW A, NEW C,
           CounterOK(c, t, limit), HistoryOK(A, C, c, t, limit),
           NEW d, d = Min({c, limit}) + 1, NEW u, u = IF t = 0 THEN Window ELSE t
    PROVE  HistoryOK(A, C, d, u, limit)
<1>1. c \in Nat /\ c =< limit + 1 /\ t \in 0 .. Window /\ c \in Int /\ limit \in Int
  BY DEF CounterOK
<1>2. d = IF c =< limit THEN c + 1 ELSE limit + 1
  BY <1>1, MinOfTwo
<1>3. PICK l, m : l = Low(c, limit) /\ m = Low(d, limit)
  OBVIOUS
<1>4. l \in Nat /\ m \in Nat /\ l =< m
  BY <1>1, <1>2, <1>3 DEF Low
<1>5. Began(u) = Began(t)
  BY <1>1, WindowPositive DEF Began
<1>6. Typed(A) /\ Typed(C) /\ Numbered(C)
  BY DEF HistoryOK
<1>7. \A a \in Ages : /\ Number(A, a) \in Nat
                      /\ Worth(limit, Number(C, a)) \in Nat /\ Worth(limit, Number(C, a) + 1) \in Nat
  BY <1>6, NumberOf, WorthOfNumber
<1>8. \A a \in Ages : Number(A, a) =< l + Worth(limit, Number(C, a) + 1)
  BY <1>3 DEF HistoryOK
<1>9. \A a \in Ages : a =< Began(u) => Number(A, a) =< l + Worth(limit, Number(C, a))
  BY <1>3, <1>5 DEF HistoryOK
<1>10. \A a \in Ages : Number(A, a) =< m + Worth(limit, Number(C, a) + 1)
  BY <1>4, <1>7, <1>8
<1>11. \A a \in Ages : a =< Began(u) => Number(A, a) =< m + Worth(limit, Number(C, a))
  BY <1>4, <1>7, <1>9
<1>12. QED  BY <1>3, <1>6, <1>10, <1>11 DEF HistoryOK

(* The script lets a request through, the next of the running window or the *)
(* first of a new one.                                                      *)
LEMMA LetThrough ==
    ASSUME NEW limit \in Nat \ {0}, NEW c, NEW t, NEW A, NEW C,
           CounterOK(c, t, limit), HistoryOK(A, C, c, t, limit), c < limit,
           NEW d, d = Min({c, limit}) + 1, NEW u, u = IF t = 0 THEN Window ELSE t
    PROVE  HistoryOK(Note(A), C, d, u, limit)
<1>1. c \in Nat /\ t \in 0 .. Window /\ c \in Int /\ limit \in Int
  BY DEF CounterOK
<1>2. d = c + 1
  BY <1>1, MinOfTwo
<1>3. Low(c, limit) = c /\ Low(d, limit) = c + 1
  BY <1>1, <1>2 DEF Low
<1>4. Began(u) = Began(t)
  BY <1>1, WindowPositive DEF Began
<1>5. Typed(A) /\ Typed(C) /\ Numbered(C)
  BY DEF HistoryOK
<1>6. PICK B : B = Note(A)
  OBVIOUS
<1>7. Typed(B) /\ \A a \in Ages : Number(B, a) =< Number(A, a) + 1
  BY <1>5, <1>6, NoteCounts
<1>8. \A a \in Ages : /\ Number(A, a) \in Nat /\ Number(B, a) \in Nat
                      /\ Worth(limit, Number(C, a)) \in Nat /\ Worth(limit, Number(C, a) + 1) \in Nat
  BY <1>5, <1>7, NumberOf, WorthOfNumber
<1>9. \A a \in Ages : Number(A, a) =< c + Worth(limit, Number(C, a) + 1)
  BY <1>3 DEF HistoryOK
<1>10. \A a \in Ages : a =< Began(u) => Number(A, a) =< c + Worth(limit, Number(C, a))
  BY <1>3, <1>4 DEF HistoryOK
<1>11. \A a \in Ages : Number(B, a) =< (c + 1) + Worth(limit, Number(C, a) + 1)
  BY <1>1, <1>7, <1>8, <1>9
<1>12. \A a \in Ages : a =< Began(u) => Number(B, a) =< (c + 1) + Worth(limit, Number(C, a))
  BY <1>1, <1>7, <1>8, <1>10
<1>13. QED  BY <1>3, <1>5, <1>6, <1>7, <1>11, <1>12 DEF HistoryOK

(* A counter that is there is cleared: what it let through is a limit's     *)
(* worth at most, whenever it began.                                        *)
LEMMA ClearedOnce ==
    ASSUME NEW limit \in Nat \ {0}, NEW c, NEW t, NEW A, NEW C,
           CounterOK(c, t, limit), HistoryOK(A, C, c, t, limit)
    PROVE  HistoryOK(A, Note(C), 0, 0, limit)
<1>1. c \in Nat /\ t \in 0 .. Window /\ limit \in Nat
  BY DEF CounterOK
<1>2. PICK l : l = Low(c, limit)
  OBVIOUS
<1>3. l \in Nat /\ l =< limit /\ Low(0, limit) = 0
  BY <1>1, <1>2, LowOf
<1>4. Typed(A) /\ Typed(C) /\ Numbered(C)
  BY DEF HistoryOK
<1>5. PICK D : D = Note(C)
  OBVIOUS
<1>6. Typed(D) /\ Numbered(D) /\ \A a \in Ages : Number(D, a) = Number(C, a) + 1
  BY <1>4, <1>5, NoteCounts
<1>7. \A a \in Ages : /\ Number(A, a) \in Nat /\ Number(C, a) \in Nat
                      /\ Worth(limit, Number(C, a)) \in Nat
                      /\ Worth(limit, Number(D, a)) = Worth(limit, Number(C, a)) + limit
                      /\ Worth(limit, Number(D, a) + 1) = Worth(limit, Number(C, a) + 1) + limit
  <2> TAKE a \in Ages
  <2>1. PICK n \in Nat : n = Number(C, a)
    BY <1>4, NumberOf
  <2>2. Number(D, a) = n + 1 /\ n + 1 \in Nat
    BY <1>6, <2>1
  <2>3. Worth(limit, n) \in Nat /\ Worth(limit, n + 1) = Worth(limit, n) + limit
    BY <1>1, WorthOf
  <2>4. Worth(limit, (n + 1) + 1) = Worth(limit, n + 1) + limit
    BY <1>1, <2>2, WorthOf
  <2>5. QED  BY <1>4, <2>1, <2>2, <2>3, <2>4, NumberOf
<1>8. \A a \in Ages : Worth(limit, Number(C, a) + 1) \in Nat
  BY <1>1, <1>4, WorthOfNumber
<1>9. \A a \in Ages : Number(A, a) =< 0 + Worth(limit, Number(D, a) + 1)
  <2>1. \A a \in Ages : Number(A, a) =< l + Worth(limit, Number(C, a) + 1)
    BY <1>2 DEF HistoryOK
  <2>2. QED  BY <1>1, <1>3, <1>7, <1>8, <2>1
<1>10. \A a \in Ages : a =< Began(0) => Number(A, a) =< 0 + Worth(limit, Number(D, a))
  <2>1. \A a \in Ages : a =< Began(t) => Number(A, a) =< l + Worth(limit, Number(C, a))
    BY <1>2 DEF HistoryOK
  <2>2. \A a \in Ages : a =< Began(0) => a =< Began(t)
    BY <1>1, WindowPositive DEF Began, Ages
  <2>3. QED  BY <1>1, <1>3, <1>7, <2>1, <2>2
<1>11. QED  BY <1>3, <1>4, <1>5, <1>6, <1>9, <1>10 DEF HistoryOK

(* Time passes; when the counter expires, all that is left to see was let   *)
(* through since it began.                                                  *)
LEMMA TimePasses ==
    ASSUME NEW limit \in Nat \ {0}, NEW c, NEW t, NEW A, NEW C,
           CounterOK(c, t, limit), HistoryOK(A, C, c, t, limit),
           NEW d, d = IF t = 1 THEN 0 ELSE c, NEW u, u = Max({t - 1, 0})
    PROVE  CounterOK(d, u, limit) /\ HistoryOK(Older(A), Older(C), d, u, limit)
<1>1. c \in Nat /\ c \in 0 .. limit + 1 /\ limit \in Nat /\ t \in 0 .. Window /\ (c = 0 <=> t = 0)
  BY DEF CounterOK
<1>2. u = IF t > 0 THEN t - 1 ELSE 0
  BY <1>1, MaxOfTwo
<1>3. CounterOK(d, u, limit)
  BY <1>1, <1>2, WindowPositive DEF CounterOK
<1>4. PICK l, m : l = Low(c, limit) /\ m = Low(d, limit)
  OBVIOUS
<1>5. l \in Nat /\ m \in Nat /\ l =< limit /\ (t # 1 => l = m)
  BY <1>1, <1>4, LowOf
<1>6. Typed(A) /\ Typed(C) /\ Numbered(C)
  BY DEF HistoryOK
<1>7. PICK B, D : B = Older(A) /\ D = Older(C)
  OBVIOUS
<1>8. /\ Typed(B) /\ Number(B, 0) = 0
      /\ \A a \in Ages : a > 0 => a - 1 \in Ages /\ Number(B, a) = Number(A, a - 1)
  BY <1>6, <1>7, OlderCounts
<1>9. /\ Typed(D) /\ Numbered(D)
      /\ \A a \in Ages : a > 0 => a - 1 \in Ages /\ Number(D, a) = Number(C, a - 1)
  BY <1>6, <1>7, OlderCounts
<1>10. ASSUME NEW a \in Ages
       PROVE  /\ Number(B, a) =< m + Worth(limit, Number(D, a) + 1)
              /\ a =< Began(u) => Number(B, a) =< m + Worth(limit, Number(D, a))
  <2>1. PICK n \in Nat : n = Number(D, a)
    BY <1>9, NumberOf
  <2>2. PICK w \in Nat : w = Worth(limit, n) /\ Worth(limit, n + 1) = w + limit
    BY <1>1, WorthOf
  <2>3. CASE a = 0
    BY <1>1, <1>5, <1>8, <2>1, <2>2, <2>3
  <2>4. CASE a # 0
    <3>1. PICK b : b = a - 1
      OBVIOUS
    <3>2. a > 0 /\ b \in Ages /\ b \in Nat /\ a = b + 1 /\ b < Window - 1
      BY <1>8, <2>4, <3>1, WindowPositive DEF Ages
    <3>3. Number(B, a) = Number(A, b) /\ Number(C, b) = n
      BY <1>8, <1>9, <2>1, <3>1, <3>2
    <3>4. PICK x \in Nat : x = Number(A, b)
      BY <1>6, NumberOf
    <3>5. x =< l + (w + limit) /\ (b =< Began(t) => x =< l + w)
      BY <1>4, <2>1, <2>2, <3>2, <3>3, <3>4 DEF HistoryOK
    <3>6. a =< Began(u) => b =< Began(t) /\ t # 1
      BY <1>1, <1>2, <3>2, WindowPositive DEF Began
    <3>7. t = 1 => b =< Began(t)
      BY <3>2, WindowPositive DEF Began
    <3>8. x =< m + (w + limit) /\ (a =< Began(u) => x =< m + w)
      BY <1>1, <1>5, <2>2, <3>4, <3>5, <3>6, <3>7
    <3>9. QED  BY <2>1, <2>2, <3>3, <3>4, <3>8
  <2>5. QED  BY <2>3, <2>4
<1>11. HistoryOK(B, D, d, u, limit)
  BY <1>4, <1>8, <1>9, <1>10 DEF HistoryOK
<1>12. QED  BY <1>3, <1>7, <1>11

(* The bounds that the invariant gives.                                     *)
LEMMA BoundsOf ==
    ASSUME NEW limit \in Nat \ {0}, NEW c, NEW t, NEW A, NEW C,
           CounterOK(c, t, limit), HistoryOK(A, C, c, t, limit)
    PROVE  /\ Cardinality(A) =< (2 + Cardinality(C)) * limit
           /\ t > 0 => Cardinality(Running(A, t)) =< (1 + Cardinality(Running(C, t))) * limit
<1>1. c \in Nat /\ t \in 0 .. Window /\ limit \in Nat
  BY DEF CounterOK
<1>2. PICK l \in Nat : l = Low(c, limit) /\ l =< limit
  BY <1>1, LowOf
<1>3. Typed(A) /\ Typed(C)
  BY DEF HistoryOK
<1>4. ASSUME NEW a \in Ages
      PROVE  /\ Number(A, a) =< (2 + Number(C, a)) * limit
             /\ a =< Began(t) => Number(A, a) =< (1 + Number(C, a)) * limit
  <2>1. PICK n \in Nat : n = Number(C, a)
    BY <1>3, NumberOf
  <2>2. PICK x \in Nat : x = Number(A, a)
    BY <1>3, NumberOf
  <2>3. x =< l + limit * (n + 1) /\ (a =< Began(t) => x =< l + limit * n)
    BY <1>2, <2>1, <2>2 DEF HistoryOK, Worth
  <2>4. (2 + n) * limit = limit + limit * (n + 1) /\ (1 + n) * limit = limit + limit * n
    BY <1>1
  <2>5. limit * (n + 1) \in Nat /\ limit * n \in Nat
    BY <1>1
  <2>6. QED  BY <1>1, <1>2, <2>1, <2>2, <2>3, <2>4, <2>5
<1>5. PICK a : a = Window - 1
  OBVIOUS
<1>6. a \in Ages /\ \A x \in Ages : x =< a
  BY <1>5, WindowPositive DEF Ages
<1>7. Young(A, a) = A /\ Young(C, a) = C
  BY <1>3, <1>6 DEF Young, Typed
<1>8. Cardinality(A) =< (2 + Cardinality(C)) * limit
  BY <1>4, <1>6, <1>7 DEF Number
<1>9. ASSUME t > 0
      PROVE  Cardinality(Running(A, t)) =< (1 + Cardinality(Running(C, t))) * limit
  <2>1. PICK b : b = Window - t
    OBVIOUS
  <2>2. b \in Ages /\ b = Began(t) /\ b =< b
    BY <1>1, <1>9, <2>1, WindowPositive DEF Ages, Began
  <2>3. Running(A, t) = Young(A, b) /\ Running(C, t) = Young(C, b)
    BY <2>1 DEF Running
  <2>4. QED  BY <1>4, <2>2, <2>3 DEF Number
<1>10. QED  BY <1>8, <1>9

-----------------------------------------------------------------------------

(* An idle request is well formed.                                          *)
LEMMA IdleOK == RequestOK(Idle)
BY DEF RequestOK, Idle, Steps, Kinds, Whos

(* Nothing has happened yet.                                                *)
LEMMA InitIInv == Init => IInv
<1> SUFFICES ASSUME Init PROVE IInv
  OBVIOUS
<1>1. \A k \in Keys : CounterOK(count[k], ttl[k], Limit(k))
  BY LimitPositive, WindowPositive DEF Init, CounterOK
<1>2. \A r \in Requests : RequestOK(req[r])
  BY IdleOK DEF Init
<1>3. \A k \in Watched : HistoryOK(admitted[k], cleared[k], count[k], ttl[k], Limit(k))
  <2> TAKE k \in Watched
  <2>1. k \in Keys /\ Limit(k) \in Nat
    BY LimitPositive, WatchedAssumption
  <2>2. admitted[k] = {} /\ cleared[k] = {} /\ count[k] = 0 /\ ttl[k] = 0
    BY <2>1 DEF Init
  <2>3. HistoryOK({}, {}, 0, 0, Limit(k))
    BY <2>1, NothingAdmitted
  <2>4. QED  BY <2>2, <2>3
<1>4. users \subseteq Accounts /\ DOMAIN count = Keys /\ DOMAIN ttl = Keys
      /\ DOMAIN req = Requests /\ DOMAIN admitted = Watched /\ DOMAIN cleared = Watched
  BY DEF Init
<1>5. QED  BY <1>1, <1>2, <1>3, <1>4 DEF IInv

(* Requests stay well formed from counter to counter and to the service.    *)
LEMMA PastOK ==
    ASSUME NEW q, RequestOK(q), q.step # "idle", NEW next, RequestOK(next)
    PROVE  RequestOK(Past(q, next))
<1>1. CASE q.n < Len(q.keys)
  <2>1. PICK p : p = [q EXCEPT !.n = q.n + 1]
    OBVIOUS
  <2>2. q \in [step : Steps, kind : Kinds, who : Whos, keys : Seq(Keys), n : 1 .. 2]
        /\ Len(q.keys) \in Nat /\ Len(q.keys) =< 2
    BY DEF RequestOK
  <2>3. q.n + 1 \in 1 .. 2
    BY <1>1, <2>2
  <2>4. p \in [step : Steps, kind : Kinds, who : Whos, keys : Seq(Keys), n : 1 .. 2]
    BY <2>1, <2>2, <2>3
  <2>5. p.keys = q.keys /\ p.n = q.n + 1 /\ p.kind = q.kind /\ p.who = q.who
    BY <2>1, <2>2
  <2>6. p.n =< Len(p.keys)
    BY <1>1, <2>2, <2>5
  <2>7. RequestOK(p)
    BY <2>2, <2>4, <2>5, <2>6 DEF RequestOK
  <2>8. QED  BY <1>1, <2>1, <2>7 DEF Past
<1>2. CASE ~(q.n < Len(q.keys))
  BY <1>2 DEF Past
<1>3. QED  BY <1>1, <1>2

LEMMA PassedOK ==
    ASSUME NEW q, RequestOK(q), q.step # "idle"
    PROVE  RequestOK(Passed(q))
<1>1. q \in [step : Steps, kind : Kinds, who : Whos, keys : Seq(Keys), n : 1 .. 2]
      /\ Len(q.keys) \in Nat /\ Len(q.keys) =< 2 /\ q.n =< Len(q.keys)
  BY DEF RequestOK
<1>2. PICK p : p = [q EXCEPT !.step = "serve", !.n = 1]
  OBVIOUS
<1>3. p \in [step : Steps, kind : Kinds, who : Whos, keys : Seq(Keys), n : 1 .. 2]
  <2>1. p = [step |-> "serve", kind |-> q.kind, who |-> q.who, keys |-> q.keys, n |-> 1]
    BY <1>1, <1>2
  <2>2. "serve" \in Steps /\ q.kind \in Kinds /\ q.who \in Whos /\ q.keys \in Seq(Keys) /\ 1 \in 1 .. 2
    BY <1>1 DEF Steps
  <2>3. QED  BY <2>1, <2>2
<1>4. p.keys = q.keys /\ p.n = 1 /\ p.kind = q.kind /\ p.who = q.who
  BY <1>1, <1>2
<1>5. p.n =< Len(p.keys)
  BY <1>1, <1>4
<1>6. RequestOK(p)
  BY <1>1, <1>3, <1>4, <1>5 DEF RequestOK
<1>7. RequestOK(IF q.kind = "route" THEN Idle ELSE [q EXCEPT !.step = "serve", !.n = 1])
  BY <1>2, <1>6, IdleOK
<1>8. QED  BY <1>7, PastOK DEF Passed

(* The counter that a request is at.                                        *)
LEMMA AtOK ==
    ASSUME IInv, NEW r \in Requests, req[r].step # "idle"
    PROVE  At(r) \in Keys
BY DEF IInv, RequestOK, At

(* A step that changes one request, and nothing else but for the better.    *)
LEMMA OneRequest ==
    ASSUME IInv, NEW r \in Requests, NEW q, RequestOK(q), req' = [req EXCEPT ![r] = q],
           UNCHANGED <<count, ttl, admitted, cleared>>, users' \subseteq Accounts
    PROVE  IInv'
<1>1. DOMAIN req' = Requests /\ \A x \in Requests : RequestOK(req'[x])
  BY DEF IInv
<1>2. QED  BY <1>1 DEF IInv


(* The histories in H are those of now but for k's, which is A.             *)
Follows(H, k, A) ==
    DOMAIN H = Watched /\ \A x \in Watched : H[x] = IF x = k THEN A ELSE admitted[x]

(* A step that changes one counter, what it let through and one request.    *)
LEMMA OneCounter ==
    ASSUME IInv, NEW r \in Requests, NEW q, RequestOK(q), req' = [req EXCEPT ![r] = q],
           NEW k \in Keys, NEW c, NEW t, NEW A, CounterOK(c, t, Limit(k)),
           k \in Watched => HistoryOK(A, cleared[k], c, t, Limit(k)),
           count' = [count EXCEPT ![k] = c], ttl' = [ttl EXCEPT ![k] = t],
           Follows(admitted', k, A), cleared' = cleared, users' = users
    PROVE  IInv'
<1>1. DOMAIN req' = Requests /\ \A x \in Requests : RequestOK(req'[x])
  BY DEF IInv
<1>2. DOMAIN count' = Keys /\ DOMAIN ttl' = Keys /\ DOMAIN admitted' = Watched /\ DOMAIN cleared' = Watched
  BY DEF IInv, Follows
<1>3. \A x \in Keys : CounterOK(count'[x], ttl'[x], Limit(x))
  BY DEF IInv
<1>4. \A x \in Watched : HistoryOK(admitted'[x], cleared'[x], count'[x], ttl'[x], Limit(x))
  <2> TAKE x \in Watched
  <2>1. x \in Keys
    BY WatchedAssumption
  <2>2. CASE x = k
    <3>1. admitted'[x] = A /\ cleared'[x] = cleared[k] /\ count'[x] = c /\ ttl'[x] = t
      BY <2>1, <2>2 DEF IInv, Follows
    <3>2. QED  BY <2>2, <3>1
  <2>3. CASE x # k
    <3>1. admitted'[x] = admitted[x] /\ cleared'[x] = cleared[x] /\ count'[x] = count[x] /\ ttl'[x] = ttl[x]
      BY <2>1, <2>3 DEF IInv, Follows
    <3>2. QED  BY <3>1 DEF IInv
  <2>4. QED  BY <2>2, <2>3
<1>5. QED  BY <1>1, <1>2, <1>3, <1>4 DEF IInv

(* Handlers begin.                                                          *)
LEMMA ArrivesStep ==
    ASSUME IInv, NEW r \in Requests, Arrives(r)
    PROVE  IInv'
<1>1. ASSUME NEW kind \in Kinds, NEW who \in Whos, NEW keys \in Seq(Keys),
             Len(keys) \in {1, 2}, kind = "register" => who \in Accounts, Enforce(r, kind, who, keys)
      PROVE  IInv'
  <2>1. PICK q : q = [step |-> "enforce", kind |-> kind, who |-> who, keys |-> keys, n |-> 1]
    OBVIOUS
  <2>2. RequestOK(q)
    <3>1. "enforce" \in Steps /\ 1 \in 1 .. 2
      BY DEF Steps
    <3>2. q \in [step : Steps, kind : Kinds, who : Whos, keys : Seq(Keys), n : 1 .. 2]
      BY <2>1, <3>1
    <3>3. q.keys = keys /\ q.n = 1 /\ q.kind = kind /\ q.who = who
      BY <2>1
    <3>4. q.n =< Len(q.keys) /\ Len(q.keys) =< 2
      <4>1. PICK len : len = Len(keys)
        OBVIOUS
      <4>2. len = 1 \/ len = 2
        BY <1>1, <4>1, Zenon
      <4>3. 1 =< len /\ len =< 2
        BY <4>2
      <4>4. QED  BY <3>3, <4>1, <4>3, Zenon
    <3>5. QED  BY <1>1, <3>2, <3>3, <3>4 DEF RequestOK
  <2>3. req' = [req EXCEPT ![r] = q] /\ UNCHANGED <<count, ttl, admitted, cleared>> /\ users' \subseteq Accounts
    BY <1>1, <2>1 DEF Enforce, IInv
  <2>4. QED  BY <2>2, <2>3, OneRequest
<1>2. ASSUME NEW ip \in Addresses, NEW who \in Accounts, LoginArrives(r, ip, who)
      PROVE  IInv'
  <2>1. PICK a \in Keys : a = Key("login-ip", ip)
    BY DEF Key, Keys
  <2>2. PICK b \in Keys : b = Key("login-account", who)
    BY DEF Key, Keys
  <2>3. <<a, b>> \in Seq(Keys) /\ Len(<<a, b>>) \in {1, 2}
    OBVIOUS
  <2>4. "login" \in Kinds /\ who \in Whos
    BY DEF Kinds, Whos
  <2>5. Enforce(r, "login", who, <<a, b>>)
    BY <1>2, <2>1, <2>2 DEF LoginArrives
  <2>6. QED  BY <1>1, <2>3, <2>4, <2>5
<1>3. ASSUME NEW ip \in Addresses, NEW who \in Accounts, RegisterArrives(r, ip, who)
      PROVE  IInv'
  <2>1. PICK a \in Keys : a = Key("register-ip", ip)
    BY DEF Key, Keys
  <2>2. <<a>> \in Seq(Keys) /\ Len(<<a>>) \in {1, 2}
    OBVIOUS
  <2>3. "register" \in Kinds /\ who \in Whos
    BY DEF Kinds, Whos
  <2>4. Enforce(r, "register", who, <<a>>)
    BY <1>3, <2>1 DEF RegisterArrives
  <2>5. QED  BY <1>1, <2>2, <2>3, <2>4
<1>4. ASSUME NEW x \in RouteCallers, RouteArrives(r, x)
      PROVE  IInv'
  <2>1. PICK a \in Keys : a = Key("route", x)
    BY DEF Key, Keys
  <2>2. <<a>> \in Seq(Keys) /\ Len(<<a>>) \in {1, 2}
    OBVIOUS
  <2>3. "route" \in Kinds /\ "route" # "register" /\ x \in Whos
    BY DEF Kinds, Whos
  <2>4. Enforce(r, "route", x, <<a>>)
    BY <1>4, <2>1 DEF RouteArrives
  <2>5. QED  BY <1>1, <2>2, <2>3, <2>4
<1>5. QED  BY <1>2, <1>3, <1>4 DEF Arrives

(* The script, with its answer or without.                                  *)
LEMMA AllowStep ==
    ASSUME IInv, NEW r \in Requests, Allow(r) \/ AllowFails(r)
    PROVE  IInv'
<1>1. req[r].step = "enforce" /\ req[r].step # "idle" /\ RequestOK(req[r])
      /\ users' = users /\ cleared' = cleared
  BY DEF IInv, Allow, AllowFails
<1>2. PICK k \in Keys : k = At(r)
  BY <1>1, AtOK
<1>3. RequestOK(Passed(req[r])) /\ RequestOK(Idle)
  BY <1>1, PassedOK, IdleOK
<1>4. PICK limit \in Nat \ {0} : limit = Limit(k)
  BY LimitPositive
<1>5. PICK c, t : c = count[k] /\ t = ttl[k]
  OBVIOUS
<1>6. PICK A, C : A = admitted[k] /\ C = cleared[k]
  OBVIOUS
<1>7. CounterOK(c, t, limit) /\ (k \in Watched => HistoryOK(A, C, c, t, limit))
  BY <1>4, <1>5, <1>6 DEF IInv
<1>8. PICK d : d = Min({c, limit}) + 1
  OBVIOUS
<1>9. PICK u : u = IF t = 0 THEN Window ELSE t
  OBVIOUS
<1>10. Script(k) => count' = [count EXCEPT ![k] = d] /\ ttl' = [ttl EXCEPT ![k] = u]
  BY <1>4, <1>5, <1>8, <1>9 DEF Script
<1>11. Follows(admitted, k, A)
  BY <1>6 DEF IInv, Follows
<1>12. CounterOK(d, u, limit) /\ (k \in Watched => HistoryOK(A, C, d, u, limit))
  <2>1. CounterOK(d, u, limit)
    <3>1. c \in 0 .. limit + 1 /\ t \in 0 .. Window /\ (c = 0 <=> t = 0) /\ c \in Int /\ limit \in Int
      BY <1>7 DEF CounterOK
    <3>2. d = IF c =< limit THEN c + 1 ELSE limit + 1
      BY <1>8, <3>1, MinOfTwo
    <3>3. QED  BY <1>9, <3>1, <3>2, WindowPositive DEF CounterOK
  <2>2. QED  BY <1>7, <1>8, <1>9, <2>1, CountedOnly
<1>13. CASE Script(k) /\ admitted' = admitted
            /\ \E q : RequestOK(q) /\ req' = [req EXCEPT ![r] = q]
  <2>1. Follows(admitted', k, A)
    BY <1>11, <1>13
  <2>2. PICK q : RequestOK(q) /\ req' = [req EXCEPT ![r] = q]
    BY <1>13
  <2>3. count' = [count EXCEPT ![k] = d] /\ ttl' = [ttl EXCEPT ![k] = u]
    BY <1>10, <1>13
  <2>4. QED  BY <1>1, <1>4, <1>6, <1>12, <2>1, <2>2, <2>3, OneCounter
<1>14. CASE Allow(r)
  <2>1. Script(k) /\ req' = [req EXCEPT ![r] = IF c < limit THEN Passed(req[r]) ELSE Idle]
        /\ admitted' = IF c < limit THEN [admitted EXCEPT ![k] = Note(A)] ELSE admitted
    BY <1>2, <1>4, <1>5, <1>6, <1>14 DEF Allow
  <2>2. CASE c < limit
    <3>1. k \in Watched => HistoryOK(Note(A), C, d, u, limit)
      BY <1>7, <1>8, <1>9, <2>2, LetThrough
    <3>2. Follows(admitted', k, Note(A))
      BY <1>11, <2>1, <2>2 DEF Follows
    <3>3. PICK q : RequestOK(q) /\ req' = [req EXCEPT ![r] = q]
      BY <1>3, <2>1, <2>2
    <3>4. count' = [count EXCEPT ![k] = d] /\ ttl' = [ttl EXCEPT ![k] = u]
      BY <1>10, <2>1
    <3>5. PICK B : B = Note(A)
      OBVIOUS
    <3>6. Follows(admitted', k, B) /\ (k \in Watched => HistoryOK(B, C, d, u, limit))
      BY <3>1, <3>2, <3>5
    <3>7. QED  BY <1>1, <1>4, <1>6, <1>12, <3>3, <3>4, <3>6, OneCounter
  <2>3. CASE ~(c < limit)
    <3>1. req' = [req EXCEPT ![r] = Idle] /\ admitted' = admitted
      BY <2>1, <2>3
    <3>2. QED  BY <1>3, <1>13, <2>1, <3>1
  <2>4. QED  BY <2>2, <2>3
<1>15. CASE AllowFails(r)
  <2>1. req' = [req EXCEPT ![r] = Passed(req[r])] /\ admitted' = admitted
    BY <1>15 DEF AllowFails
  <2>2. CASE Script(k)
    BY <1>3, <1>13, <2>1, <2>2
  <2>3. CASE UNCHANGED <<count, ttl>>
    <3>1. users' \subseteq Accounts
      BY <1>1 DEF IInv
    <3>2. QED  BY <1>1, <1>3, <2>1, <2>3, <3>1, OneRequest
  <2>4. QED  BY <1>2, <1>15, <2>2, <2>3 DEF AllowFails
<1>16. QED  BY <1>14, <1>15


(* The service, and the answer.                                             *)
LEMMA ServeStep ==
    ASSUME IInv, NEW r \in Requests,
           Register(r) \/ Login(r) \/ ResetFails(r) \/ Answer(r)
    PROVE  IInv'
<1>1. RequestOK(req[r]) /\ users \subseteq Accounts
  BY DEF IInv
<1>2. UNCHANGED <<count, ttl, admitted, cleared>>
  BY DEF Register, Login, ResetFails, Answer
<1>3. CASE Register(r)
  <2>1. req' = [req EXCEPT ![r] = Idle] /\ users' = users \cup {req[r].who} /\ req[r].kind = "register"
    BY <1>3 DEF Register
  <2>2. users' \subseteq Accounts
    BY <1>1, <2>1 DEF RequestOK
  <2>3. QED  BY <1>2, <2>1, <2>2, IdleOK, OneRequest
<1>4. CASE Login(r)
  <2>1. PICK q : q = [req[r] EXCEPT !.step = "reset"]
    OBVIOUS
  <2>2. req' = [req EXCEPT ![r] = q] /\ users' = users /\ req[r].step = "serve"
    BY <1>4, <2>1 DEF Login
  <2>3. /\ req[r] \in [step : Steps, kind : Kinds, who : Whos, keys : Seq(Keys), n : 1 .. 2]
        /\ Len(req[r].keys) =< 2 /\ req[r].n =< Len(req[r].keys)
    BY <1>1, <2>2 DEF RequestOK
  <2>4. q \in [step : Steps, kind : Kinds, who : Whos, keys : Seq(Keys), n : 1 .. 2]
    <3>1. "reset" \in Steps
      BY DEF Steps
    <3>2. QED  BY <2>1, <2>3, <3>1
  <2>5. q.keys = req[r].keys /\ q.n = req[r].n /\ q.kind = req[r].kind /\ q.who = req[r].who
    BY <2>1, <2>3
  <2>6. RequestOK(q)
    BY <1>1, <2>3, <2>4, <2>5 DEF RequestOK
  <2>7. QED  BY <1>1, <1>2, <2>2, <2>6, OneRequest
<1>5. CASE ResetFails(r)
  <2>1. req[r].step # "idle" /\ req' = [req EXCEPT ![r] = Past(req[r], Idle)] /\ users' = users
    BY <1>5 DEF ResetFails
  <2>2. RequestOK(Past(req[r], Idle))
    BY <1>1, <2>1, PastOK, IdleOK
  <2>3. QED  BY <1>1, <1>2, <2>1, <2>2, OneRequest
<1>6. CASE Answer(r)
  <2>1. req' = [req EXCEPT ![r] = Idle] /\ users' = users
    BY <1>6 DEF Answer
  <2>2. QED  BY <1>1, <1>2, <2>1, IdleOK, OneRequest
<1>7. QED  BY <1>3, <1>4, <1>5, <1>6

(* Counters are cleared: one after a login, all when Redis loses its keys.  *)
LEMMA ClearStep ==
    ASSUME IInv, NEW K, Clear(K), admitted' = admitted, users' = users,
           DOMAIN req' = Requests, \A x \in Requests : RequestOK(req'[x])
    PROVE  IInv'
<1>1. ASSUME NEW k \in Keys
      PROVE  /\ CounterOK(count'[k], ttl'[k], Limit(k))
             /\ k \in Watched => HistoryOK(admitted'[k], cleared'[k], count'[k], ttl'[k], Limit(k))
  <2>1. PICK limit \in Nat \ {0} : limit = Limit(k)
    BY LimitPositive
  <2>2. PICK c, t : c = count[k] /\ t = ttl[k]
    OBVIOUS
  <2>3. PICK A, C : A = admitted[k] /\ C = cleared[k]
    OBVIOUS
  <2>4. CounterOK(c, t, limit) /\ (k \in Watched => HistoryOK(A, C, c, t, limit))
    BY <2>1, <2>2, <2>3 DEF IInv
  <2>5. CASE k \notin K
    <3>1. count'[k] = c /\ ttl'[k] = t
      BY <2>2, <2>5 DEF Clear
    <3>2. k \in Watched => admitted'[k] = A /\ cleared'[k] = C
      BY <2>3, <2>5 DEF Clear, Present
    <3>3. QED  BY <2>1, <2>4, <3>1, <3>2
  <2>6. CASE k \in K
    <3>1. count'[k] = 0 /\ ttl'[k] = 0
      BY <2>6 DEF Clear
    <3>2. CounterOK(0, 0, limit)
      BY <2>1, WindowPositive DEF CounterOK
    <3>3. CASE c = 0
      <4>1. k \in Watched => admitted'[k] = A /\ cleared'[k] = C
        BY <2>2, <2>3, <3>3 DEF Clear, Present
      <4>2. t = 0
        BY <2>4, <3>3 DEF CounterOK
      <4>3. QED  BY <2>1, <2>4, <3>1, <3>3, <4>1, <4>2
    <3>4. CASE c # 0
      <4>1. PICK D : D = Note(C)
        OBVIOUS
      <4>2. k \in Watched => admitted'[k] = A /\ cleared'[k] = D
        BY <2>2, <2>3, <2>6, <3>4, <4>1 DEF Clear, Present
      <4>3. k \in Watched => HistoryOK(A, D, 0, 0, limit)
        BY <2>4, <4>1, ClearedOnce
      <4>4. QED  BY <2>1, <3>1, <3>2, <4>2, <4>3
    <3>5. QED  BY <3>3, <3>4
  <2>7. QED  BY <2>5, <2>6
<1>2. \A k \in Watched : k \in Keys
  BY WatchedAssumption
<1>3. /\ DOMAIN count' = Keys /\ DOMAIN ttl' = Keys /\ DOMAIN admitted' = Watched
      /\ DOMAIN cleared' = Watched /\ users' \subseteq Accounts
  BY DEF Clear, IInv
<1>4. QED  BY <1>1, <1>2, <1>3 DEF IInv

(* DEL of one counter after a login.                                        *)
LEMMA ResetStep ==
    ASSUME IInv, NEW r \in Requests, Reset(r)
    PROVE  IInv'
<1>1. req[r].step # "idle" /\ RequestOK(req[r]) /\ users' = users /\ admitted' = admitted
  BY DEF IInv, Reset
<1>2. PICK K : K = {At(r)}
  OBVIOUS
<1>3. Clear(K)
  BY <1>2 DEF Reset
<1>4. PICK q : RequestOK(q) /\ req' = [req EXCEPT ![r] = q]
  BY <1>1, PastOK, IdleOK DEF Reset
<1>5. DOMAIN req' = Requests /\ \A x \in Requests : RequestOK(req'[x])
  BY <1>4 DEF IInv
<1>6. QED  BY <1>1, <1>3, <1>5, ClearStep

LEMMA LoseStep ==
    ASSUME IInv, Lose
    PROVE  IInv'
<1>1. Clear(Keys) /\ users' = users /\ admitted' = admitted
  BY DEF Lose
<1>2. DOMAIN req' = Requests /\ \A x \in Requests : RequestOK(req'[x])
  BY DEF Lose, IInv
<1>3. QED  BY <1>1, <1>2, ClearStep

(* Time, for all counters at once.                                          *)
LEMMA TickStep ==
    ASSUME IInv, Tick
    PROVE  IInv'
<1>1. ASSUME NEW k \in Keys
      PROVE  /\ CounterOK(count'[k], ttl'[k], Limit(k))
             /\ k \in Watched => HistoryOK(admitted'[k], cleared'[k], count'[k], ttl'[k], Limit(k))
  <2>1. PICK limit \in Nat \ {0} : limit = Limit(k)
    BY LimitPositive
  <2>2. PICK c, t : c = count[k] /\ t = ttl[k]
    OBVIOUS
  <2>3. PICK A, C : A = admitted[k] /\ C = cleared[k]
    OBVIOUS
  <2>4. PICK d : d = IF t = 1 THEN 0 ELSE c
    OBVIOUS
  <2>5. PICK u : u = Max({t - 1, 0})
    OBVIOUS
  <2>6. count'[k] = d /\ ttl'[k] = u /\ (k \in Watched => admitted'[k] = Older(A) /\ cleared'[k] = Older(C))
    BY <2>2, <2>3, <2>4, <2>5 DEF Tick
  <2>7. CounterOK(c, t, limit) /\ (k \in Watched => HistoryOK(A, C, c, t, limit))
    BY <2>1, <2>2, <2>3 DEF IInv
  <2>8. CounterOK(d, u, limit)
    <3>1. c \in 0 .. limit + 1 /\ t \in 0 .. Window /\ (c = 0 <=> t = 0)
      BY <2>7 DEF CounterOK
    <3>2. u = IF t > 0 THEN t - 1 ELSE 0
      BY <2>5, <3>1, MaxOfTwo
    <3>3. QED  BY <2>4, <3>1, <3>2, WindowPositive DEF CounterOK
  <2>9. k \in Watched => HistoryOK(Older(A), Older(C), d, u, limit)
    BY <2>4, <2>5, <2>7, TimePasses
  <2>10. QED  BY <2>1, <2>6, <2>8, <2>9
<1>2. \A k \in Watched : k \in Keys
  BY WatchedAssumption
<1>3. DOMAIN count' = Keys /\ DOMAIN ttl' = Keys /\ DOMAIN admitted' = Watched
      /\ DOMAIN cleared' = Watched /\ users' = users /\ req' = req
  BY DEF Tick
<1>4. QED  BY <1>1, <1>2, <1>3 DEF IInv

(* Every step keeps the invariant.                                          *)
LEMMA NextIInv == IInv /\ [Next]_vars => IInv'
<1> SUFFICES ASSUME IInv, [Next]_vars PROVE IInv'
  OBVIOUS
<1>1. CASE Tick
  BY <1>1, TickStep
<1>2. CASE Lose
  BY <1>2, LoseStep
<1>3. ASSUME NEW r \in Requests, Arrives(r) \/ Handler(r) PROVE IInv'
  BY <1>3, ArrivesStep, AllowStep, ServeStep, ResetStep DEF Handler
<1>4. CASE UNCHANGED vars
  BY <1>4 DEF vars, IInv
<1>5. QED  BY <1>1, <1>2, <1>3, <1>4 DEF Next

LEMMA Invariance == FairSpec => []IInv
BY InitIInv, NextIInv, PTL DEF FairSpec

-----------------------------------------------------------------------------

(* CountersExpire: requests and counters are well formed, and a counter is  *)
(* there exactly when its expiry is, so none locks its caller out for good  *)
(* (fixed_window.lua).                                                      *)
THEOREM CountersExpire == FairSpec => []TypeOK
<1>1. IInv => TypeOK
  <2> SUFFICES ASSUME IInv PROVE TypeOK
    OBVIOUS
  <2>1. \A k \in Keys : count[k] \in 0 .. Limit(k) + 1 /\ ttl[k] \in 0 .. Window
    BY DEF IInv, CounterOK
  <2>2. \A k \in Keys : (count[k] = 0) <=> (ttl[k] = 0)
    BY DEF IInv, CounterOK
  <2>3. \A r \in Requests : /\ req[r].step \in Steps /\ req[r].kind \in Kinds
                            /\ req[r].keys \in Seq(Keys) /\ req[r].n \in 1 .. 2
    BY DEF IInv, RequestOK
  <2>4. \A k \in Watched : admitted[k] \subseteq Nat \X Ages /\ cleared[k] \subseteq Nat \X Ages
    BY DEF IInv, HistoryOK, Typed
  <2>5. users \subseteq Accounts
    BY DEF IInv
  <2>6. QED  BY <2>1, <2>2, <2>3, <2>4, <2>5 DEF TypeOK, Steps, Kinds
<1>2. QED  BY <1>1, Invariance, PTL

(* LimitsAlwaysHold: for every limit, window and number of requests at once *)
(* Redis lets no more than the limit through in the running window and no   *)
(* more than twice the limit in any span of a window's length, but for one  *)
(* more limit for every time in that span that the counter was cleared      *)
(* (Limiter).                                                               *)
THEOREM LimitsAlwaysHold == FairSpec => []LimitHolds
<1>1. IInv => LimitHolds
  <2> SUFFICES ASSUME IInv, NEW k \in Watched
               PROVE  /\ Cardinality(admitted[k]) =< (2 + Cardinality(cleared[k])) * Limit(k)
                      /\ ttl[k] > 0 => Cardinality(Running(admitted[k], ttl[k]))
                                         =< (1 + Cardinality(Running(cleared[k], ttl[k]))) * Limit(k)
    BY DEF LimitHolds
  <2>1. PICK limit \in Nat \ {0} : limit = Limit(k)
    BY LimitPositive, WatchedAssumption
  <2>2. CounterOK(count[k], ttl[k], limit) /\ HistoryOK(admitted[k], cleared[k], count[k], ttl[k], limit)
    BY <2>1, WatchedAssumption DEF IInv
  <2>3. QED  BY <2>1, <2>2, BoundsOf
<1>2. QED  BY <1>1, Invariance, PTL

=============================================================================
