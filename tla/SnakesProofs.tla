---------------------------- MODULE SnakesProofs ----------------------------
(***************************************************************************)
(* On a board of any size, with any snakes that do not start on each       *)
(* other, in any order of the turns: no two snakes cross, the list holds   *)
(* exactly those that did not leave, the screen is the board at the end    *)
(* of every turn but for what others printed on it since, a snake finds a  *)
(* way out if there is one, and the flag makes one snake leave.            *)
(***************************************************************************)
EXTENDS Snakes, FiniteSetTheorems, SequenceTheorems, WellFoundedInduction, TLAPS

(***************************************************************************)
(* Boards.                                                                 *)
(***************************************************************************)
Points == [x : 0 .. cols - 1, y : 0 .. rows - 1]

Bodies == UNION {[1 .. n -> Points] : n \in Nat \ {0}}

Links == Ids \cup {NULL}

\* A meal too many is counted before the snake leaves.
Colors == 1 .. MAX_VISIBLE_SNAKE + 1

Seeds == 0 .. 7

Records == [dir : Directions, color : Colors, body : Bodies, others : Links]

Characters == {head[i] : i \in 1 .. NUMDIRS} \cup {SN_BODY_CHAR}

Glyphs == {Blank, Food, Scrawl} \cup (Characters \X Colors)

Screens == [cell : [Cells -> Glyphs], pos : Int, beyond : {FALSE}]

\* What g may be when T are the snakes of the list.
Boards(T) ==
    [snake : [T -> Records], allsnakes : Links, food : Points \cup {NoFood},
     endsnake : BOOLEAN, seed : Seeds, con : Screens]

\* The list of all snakes, spelled out.
Following(L, n, i) == IF i < n THEN L[i + 1] ELSE NULL

Spells(b, T, n, L) ==
    /\ \A i, j \in 1 .. n : L[i] = L[j] => i = j
    /\ \A t \in T : \E i \in 1 .. n : L[i] = t
    /\ b.allsnakes = Following(L, n, 0)
    /\ \A i \in 1 .. n : b.snake[L[i]].others = Following(L, n, i)

Linked(b, T) == \E n \in Nat : \E L \in [1 .. n -> T] : Spells(b, T, n, L)

Apart(b, T) == \A s, t \in T : s # t => Body(b, s) \cap Body(b, t) = {}

At(p) == p.y * cols + p.x

\* What snake s looks like where it is.
Leading(b, s, p) ==
    p = b.snake[s].body[1] /\ \A i \in 2 .. Len(b.snake[s].body) : p # b.snake[s].body[i]

Look(b, s, p) ==
    <<IF Leading(b, s, p) THEN head[b.snake[s].dir + 1] ELSE SN_BODY_CHAR, b.snake[s].color>>

\* The screen is right at point p, as far as the snakes of U and the food go,
\* unless somebody else wrote there.
Right(b, U, p) ==
    \/ b.con.cell[At(p)] = Scrawl
    \/ /\ \A s \in U : p \in Body(b, s) => b.con.cell[At(p)] = Look(b, s, p)
       /\ (\A s \in U : p \notin Body(b, s)) =>
             b.con.cell[At(p)] = IF p = b.food THEN Food ELSE Blank

Painted(b, U) == \A p \in Points : Right(b, U, p)

-----------------------------------------------------------------------------
(***************************************************************************)
(* The inductive invariant.                                                *)
(***************************************************************************)
\* Between two functions of a turn.
Board(b, T) == b \in Boards(T) /\ Linked(b, T) /\ Apart(b, T)

\* Only hungry snakes have food; it lies on none of them.
Fare(b, T) ==
    /\ \A s \in T : b.food \notin Body(b, s)
    /\ ~hungry => b.food = NoFood

Slender(b, T) == \A s \in T : b.snake[s].color \in 1 .. MAX_VISIBLE_SNAKE

Tidy(b, T) == Board(b, T) /\ Fare(b, T) /\ Slender(b, T) /\ Painted(b, T)

IInv == threads \subseteq Ids /\ hungry \in BOOLEAN /\ Tidy(g, threads)

-----------------------------------------------------------------------------
(***************************************************************************)
(* Induction up to n, on a set: the smallest number missed would be the    *)
(* top of the smallest of the intervals that miss the set.                 *)
(***************************************************************************)
LEMMA Upward ==
    ASSUME NEW n \in Nat, NEW S, 0 \in S,
           \A i \in 0 .. n : i + 1 \in 0 .. n /\ i \in S => i + 1 \in S
    PROVE  \A i \in 0 .. n : i \in S
  <1> DEFINE Below(i) == 0 .. i
             Gaps == {Below(i) : i \in {j \in 0 .. n : j \notin S}}
  <1>1. SUFFICES ASSUME Gaps # {} PROVE FALSE
    OBVIOUS
  <1>2. FiniteSubsetsOf(0 .. n) = SUBSET (0 .. n)
    <2>1. 0 \in Int /\ n \in Int
      OBVIOUS
    <2>2. IsFiniteSet(0 .. n)
      BY <2>1, FS_Interval
    <2> QED BY <2>2, FS_FiniteSubsetsOfFinite
  <1>3. IsWellFoundedOn(StrictSubsetOrdering(0 .. n), SUBSET (0 .. n))
    BY <1>2, FS_StrictSubsetOrderingWellFounded
  <1>4. Gaps \subseteq SUBSET (0 .. n)
    OBVIOUS
  <1> HIDE DEF Gaps
  <1>5. PICK x \in Gaps : \A y \in Gaps : ~ (<<y, x>> \in StrictSubsetOrdering(0 .. n))
    BY <1>1, <1>3, <1>4, WFMin
  <1> USE DEF Gaps
  <1>6. PICK k \in 0 .. n : x = Below(k) /\ k \notin S
    OBVIOUS
  <1>7. k # 0 /\ k - 1 \in 0 .. n /\ (k - 1) + 1 = k
    BY <1>6
  <1>8. k - 1 \notin S
    BY <1>6, <1>7
  <1>9. Below(k - 1) \in Gaps
    BY <1>7, <1>8
  <1>10. Below(k - 1) \subseteq Below(k) /\ Below(k - 1) # Below(k) /\ Below(k) \subseteq 0 .. n
    BY <1>7
  <1>11. <<Below(k - 1), x>> \in StrictSubsetOrdering(0 .. n)
    BY <1>6, <1>10 DEF StrictSubsetOrdering
  <1> QED BY <1>5, <1>9, <1>11

\* What a function makes of a when it is applied again and again.
Iterates(f, n, a, F) == f[0] = a /\ \A i \in 1 .. n : f[i] = F[f[i - 1]]

LEMMA Iterated ==
    ASSUME NEW M, NEW a \in M, NEW F \in [M -> M], NEW n \in Nat
    PROVE  \E f \in [0 .. n -> M] : Iterates(f, n, a, F)
  <1> DEFINE S == {k \in 0 .. n : \E f \in [0 .. k -> M] : Iterates(f, k, a, F)}
  <1>1. 0 \in S
    <2>1. PICK f : f = [i \in 0 .. 0 |-> a]
      OBVIOUS
    <2>2. f \in [0 .. 0 -> M] /\ Iterates(f, 0, a, F)
      BY <2>1 DEF Iterates
    <2>3. 0 \in 0 .. n
      OBVIOUS
    <2> QED BY <2>2, <2>3
  <1>2. ASSUME NEW k \in 0 .. n, k + 1 \in 0 .. n, k \in S PROVE k + 1 \in S
    <2>1. PICK f \in [0 .. k -> M] : Iterates(f, k, a, F)
      BY <1>2
    <2>2. PICK h : h = [i \in 0 .. k + 1 |-> IF i = k + 1 THEN F[f[k]] ELSE f[i]]
      OBVIOUS
    <2>3. k \in Nat /\ f[k] \in M
      BY <2>1
    <2>4. h \in [0 .. k + 1 -> M]
      <3>1. ASSUME NEW i \in 0 .. k + 1, i # k + 1 PROVE f[i] \in M
        <4>1. i \in 0 .. k
          BY <2>3, <3>1
        <4> QED BY <2>1, <4>1
      <3> QED BY <2>2, <2>3, <3>1
    <2>5. h[0] = a
      BY <2>1, <2>2, <2>3 DEF Iterates
    <2>6. ASSUME NEW i \in 1 .. k + 1 PROVE h[i] = F[h[i - 1]]
      <3>1. CASE i = k + 1
        BY <2>2, <2>3, <3>1
      <3>2. CASE i # k + 1
        <4>1. i \in 1 .. k /\ i \in 0 .. k + 1 /\ i - 1 \in 0 .. k + 1 /\ i - 1 # k + 1
          BY <2>3, <3>2
        <4> QED BY <2>1, <2>2, <3>2, <4>1 DEF Iterates
      <3> QED BY <3>1, <3>2
    <2>7. Iterates(h, k + 1, a, F)
      BY <2>5, <2>6 DEF Iterates
    <2> QED BY <1>2, <2>4, <2>7
  <1>3. n \in S
    <2> HIDE DEF S
    <2>1. \A k \in 0 .. n : k \in S
      BY <1>1, <1>2, Upward
    <2> QED BY <2>1
  <1> QED BY <1>3

\* The least number of a set.
LEMMA Least ==
    ASSUME NEW n \in Nat, NEW S, NEW m \in 0 .. n, m \in S
    PROVE  \E k \in 0 .. n : k \in S /\ \A i \in 0 .. k - 1 : i \notin S
  <1>1. SUFFICES ASSUME \A k \in 0 .. n : k \in S => \E i \in 0 .. k - 1 : i \in S
                 PROVE  FALSE
    OBVIOUS
  <1> DEFINE None == {k \in 0 .. n : \A i \in 0 .. k : i \notin S}
  <1>2. 0 \in None
    <2>1. 0 \in 0 .. n /\ 0 .. 0 - 1 = {}
      OBVIOUS
    <2>2. 0 \notin S
      BY <1>1, <2>1
    <2>3. \A i \in 0 .. 0 : i = 0
      OBVIOUS
    <2> QED BY <2>1, <2>2, <2>3
  <1>3. ASSUME NEW k \in 0 .. n, k + 1 \in 0 .. n, k \in None PROVE k + 1 \in None
    <2>1. (k + 1) - 1 = k /\ \A i \in 0 .. k + 1 : i \in 0 .. k \/ i = k + 1
      OBVIOUS
    <2>2. k + 1 \notin S
      BY <1>1, <1>3, <2>1
    <2> QED BY <1>3, <2>1, <2>2
  <1>4. m \in None
    <2> HIDE DEF None
    <2> QED BY <1>2, <1>3, Upward
  <1> QED BY <1>4

-----------------------------------------------------------------------------
(***************************************************************************)
(* Points and cells.                                                       *)
(***************************************************************************)
LEMMA BoardSize == rows \in Nat \ {0} /\ cols \in Nat \ {0} /\ MAX_VISIBLE_SNAKE \in Nat
  BY VgaAssumption, SnakesAssumption

LEMMA PointFacts ==
    ASSUME NEW p \in Points
    PROVE  p.x \in 0 .. cols - 1 /\ p.y \in 0 .. rows - 1 /\ p = [x |-> p.x, y |-> p.y]
  BY DEF Points

LEMMA PointsAreOnBoard ==
    /\ \A p \in Points : OnBoard(p)
    /\ \A p \in [x : Int, y : Int] : OnBoard(p) => p \in Points
    /\ NoFood \notin Points
  <1>1. \A p \in Points : OnBoard(p)
    BY DEF Points, OnBoard
  <1>2. \A p \in [x : Int, y : Int] : OnBoard(p) => p \in Points
    BY DEF Points, OnBoard
  <1>3. NoFood \notin Points
    <2>1. NoFood.x = -1
      BY DEF NoFood
    <2>2. -1 \notin 0 .. cols - 1
      BY BoardSize
    <2> QED BY <2>1, <2>2 DEF Points
  <1> QED BY <1>1, <1>2, <1>3

LEMMA CellOfPoint == ASSUME NEW p \in Points PROVE At(p) \in Cells
  <1>1. PICK x \in 0 .. cols - 1, y \in 0 .. rows - 1 : x = p.x /\ y = p.y
    BY PointFacts
  <1>2. PICK d \in Nat : rows = y + 1 + d
    <2>1. rows - y - 1 \in Nat /\ rows = y + 1 + (rows - y - 1)
      BY BoardSize
    <2> QED BY <2>1
  <1>3. /\ rows * cols = y * cols + cols + d * cols
        /\ y * cols \in Nat /\ d * cols \in Nat
    BY BoardSize, <1>2
  <1>4. y * cols + x \in 0 .. rows * cols - 1
    BY BoardSize, <1>3
  <1> QED BY <1>1, <1>4 DEF At, Cells, Size

LEMMA DivMod ==
    ASSUME NEW a \in Nat, NEW k \in 0 .. cols - 1
    PROVE  a * cols + k \in Nat /\ (a * cols + k) \div cols = a /\ (a * cols + k) % cols = k
  BY BoardSize

LEMMA OneCellEach == ASSUME NEW p \in Points, NEW q \in Points, At(p) = At(q) PROVE p = q
  <1>1. PICK x \in 0 .. cols - 1, y \in Nat : x = p.x /\ y = p.y
    BY PointFacts
  <1>2. PICK v \in 0 .. cols - 1, w \in Nat : v = q.x /\ w = q.y
    BY PointFacts
  <1>3. y * cols + x = w * cols + v
    BY <1>1, <1>2 DEF At
  <1>4. x = v /\ y = w
    BY <1>3, DivMod
  <1> QED BY <1>1, <1>2, <1>4, PointFacts

-----------------------------------------------------------------------------
(***************************************************************************)
(* The list.                                                               *)
(***************************************************************************)
LEMMA IdsFinite == IsFiniteSet(Ids)
  <1> DEFINE D == {DOMAIN s.snakes : s \in Setups}
  <1>1. PICK f : f = [s \in Setups |-> DOMAIN s.snakes]
    OBVIOUS
  <1>2. f \in Surjection(Setups, D)
    BY <1>1 DEF Surjection
  <1>3. IsFiniteSet(D)
    <2> HIDE DEF D
    <2> QED BY <1>2, SnakesAssumption, FS_Surjection
  <1>4. ASSUME NEW s \in Setups PROVE IsFiniteSet(DOMAIN s.snakes)
    <2>1. PICK n \in Nat : DOMAIN s.snakes = 1 .. n
      <3>1. s.snakes \in Seq(Starts)
        BY SnakesAssumption
      <3> QED BY <3>1, LenProperties
    <2>2. 1 \in Int /\ n \in Int
      OBVIOUS
    <2> QED BY <2>1, <2>2, FS_Interval
  <1>5. IsFiniteSet(UNION D)
    <2>1. \A T \in D : IsFiniteSet(T)
      BY <1>4
    <2> HIDE DEF D
    <2> QED BY <1>3, <2>1, FS_UNION
  <1> QED BY <1>5 DEF Ids

\* What the walk meets, number by number.
LEMMA WalkMeets ==
    ASSUME NEW T \in SUBSET Ids, NEW b \in Boards(T), NEW n \in Nat, NEW L \in [1 .. n -> T],
           Spells(b, T, n, L)
    PROVE  \A k \in Nat : Nth(b)[k] = Following(L, n, k)
  <1> DEFINE Step(s) == IF s = NULL THEN NULL ELSE b.snake[s].others
             Walk(f) == f = [k \in Nat |-> IF k = 0 THEN b.allsnakes ELSE Step(f[k - 1])]
  <1>1. NULL \notin T
    BY SnakesAssumption
  <1>2. ASSUME NEW k \in Nat, k # 0 PROVE Step(Following(L, n, k - 1)) = Following(L, n, k)
    <2>1. k - 1 \in Nat /\ k - 1 + 1 = k
      BY <1>2
    <2>2. CASE k - 1 < n
      <3>1. k \in 1 .. n /\ Following(L, n, k - 1) = L[k]
        BY <2>1, <2>2 DEF Following
      <3>2. L[k] \in T
        BY <3>1
      <3>3. b.snake[L[k]].others = Following(L, n, k)
        BY <3>1 DEF Spells
      <3> QED BY <1>1, <3>1, <3>2, <3>3
    <2>3. CASE ~ (k - 1 < n)
      BY <2>1, <2>3 DEF Following
    <2> QED BY <2>2, <2>3
  <1>3. \E f : Walk(f)
    <2>1. PICK f : f = [k \in Nat |-> Following(L, n, k)]
      OBVIOUS
    <2>2. f[0] = b.allsnakes
      BY <2>1 DEF Spells
    <2>3. ASSUME NEW k \in Nat, k # 0 PROVE f[k] = Step(f[k - 1])
      <3>1. k - 1 \in Nat
        BY <2>3
      <3>2. f[k - 1] = Following(L, n, k - 1) /\ f[k] = Following(L, n, k)
        BY <2>1, <3>1
      <3> QED BY <1>2, <2>3, <3>2
    <2>4. f = [k \in Nat |-> IF k = 0 THEN b.allsnakes ELSE Step(f[k - 1])]
      <3> HIDE DEF Step
      <3> QED BY <2>1, <2>2, <2>3
    <2> QED BY <2>4
  <1>4. PICK f : f = Nth(b) /\ Walk(f)
    <2>1. Nth(b) = CHOOSE f : Walk(f)
      BY DEF Nth
    <2> HIDE DEF Walk
    <2> QED BY <1>3, <2>1
  <1>5. f[0] = b.allsnakes /\ \A k \in Nat : k # 0 => f[k] = Step(f[k - 1])
    BY <1>4
  <1>6. ASSUME NEW m \in Nat PROVE f[m] = Following(L, n, m)
    <2> DEFINE S == {k \in 0 .. m : f[k] = Following(L, n, k)}
    <2>1. 0 \in S
      BY <1>5 DEF Spells
    <2>2. ASSUME NEW k \in 0 .. m, k + 1 \in 0 .. m, k \in S PROVE k + 1 \in S
      <3>1. k \in Nat /\ k + 1 \in Nat /\ k + 1 # 0 /\ (k + 1) - 1 = k
        OBVIOUS
      <3>2. f[k + 1] = Step(Following(L, n, k))
        <4> HIDE DEF Step
        <4> QED BY <1>5, <2>2, <3>1
      <3>3. Step(Following(L, n, k)) = Following(L, n, k + 1)
        <4> HIDE DEF Step
        <4> QED BY <1>2, <3>1
      <3> QED BY <2>2, <3>2, <3>3
    <2>3. m \in S
      <3> HIDE DEF S
      <3>1. m \in 0 .. m
        OBVIOUS
      <3> QED BY <2>1, <2>2, <3>1, Upward
    <2> QED BY <2>3
  <1> QED BY <1>4, <1>6

\* The walk meets the snakes of the list, each of them.
LEMMA WalkFacts ==
    ASSUME NEW T \in SUBSET Ids, NEW b \in Boards(T), Linked(b, T)
    PROVE  Community(b) = T
  <1>0. PICK n \in Nat : \E L \in [1 .. n -> T] : Spells(b, T, n, L)
    BY DEF Linked
  <1>1. PICK L \in [1 .. n -> T] : Spells(b, T, n, L)
    BY <1>0
  <1>2. \A k \in Nat : Nth(b)[k] = Following(L, n, k)
    BY <1>1, WalkMeets
  <1>3. PICK c \in Nat : c = Cardinality(Ids) /\ n <= c
    <2>1. L \in Injection(1 .. n, Ids)
      BY <1>1 DEF Spells, Injection, IsInjective
    <2>2. Cardinality(1 .. n) <= Cardinality(Ids)
      BY <2>1, IdsFinite, FS_Injection
    <2>3. Cardinality(1 .. n) = n
      <3>1. 1 \in Int /\ n \in Int
        OBVIOUS
      <3>2. Cardinality(1 .. n) = IF 1 > n THEN 0 ELSE n - 1 + 1
        BY <3>1, FS_Interval
      <3> QED BY <3>2
    <2> QED BY <2>2, <2>3, IdsFinite, FS_CardinalityType
  <1>4. NULL \notin T
    BY SnakesAssumption
  <1>5. ASSUME NEW t \in T PROVE t \in Community(b)
    <2>1. PICK i \in 1 .. n : L[i] = t
      BY <1>1 DEF Spells
    <2>2. PICK k \in Nat : k = i - 1
      OBVIOUS
    <2>3. k \in 0 .. c /\ k < n /\ k + 1 = i
      BY <1>3, <2>2
    <2>4. Nth(b)[k] = t
      BY <1>2, <2>1, <2>3 DEF Following
    <2> QED BY <1>3, <1>4, <2>3, <2>4 DEF Community
  <1>6. ASSUME NEW t \in Community(b) PROVE t \in T
    <2>1. PICK k \in 0 .. c : t = Nth(b)[k] /\ t # NULL
      BY <1>3 DEF Community
    <2>2. t = Following(L, n, k) /\ k \in Nat
      BY <1>2, <2>1
    <2>3. k < n /\ k + 1 \in 1 .. n /\ t = L[k + 1]
      BY <2>1, <2>2 DEF Following
    <2> QED BY <2>3
  <1> QED BY <1>5, <1>6

\* The list does not depend on the rest of the board.
LEMMA SameList ==
    ASSUME NEW T, NEW b, NEW c, Linked(b, T), c.allsnakes = b.allsnakes,
           \A s \in T : c.snake[s].others = b.snake[s].others
    PROVE  Linked(c, T)
  <1>0. PICK n \in Nat : \E L \in [1 .. n -> T] : Spells(b, T, n, L)
    BY DEF Linked
  <1>1. PICK L \in [1 .. n -> T] : Spells(b, T, n, L)
    BY <1>0
  <1>2. Spells(c, T, n, L)
    BY <1>1 DEF Spells
  <1> QED BY <1>2 DEF Linked

\* A board with other snakes, or another screen.
LEMMA BoardFields ==
    ASSUME NEW T, NEW b \in Boards(T)
    PROVE  /\ b.snake \in [T -> Records] /\ b.allsnakes \in Links
           /\ b.food \in Points \cup {NoFood} /\ b.endsnake \in BOOLEAN
           /\ b.seed \in 0 .. 7 /\ b.con \in Screens
  BY DEF Boards, Seeds

LEMMA RecordFields ==
    ASSUME NEW T, NEW b \in Boards(T), NEW s \in T
    PROVE  /\ b.snake[s] \in Records
           /\ b.snake[s].dir \in Directions /\ b.snake[s].color \in Colors
           /\ b.snake[s].body \in Bodies /\ b.snake[s].others \in Links
  BY DEF Boards, Records

LEMMA BodyFacts ==
    ASSUME NEW T, NEW b \in Boards(T), NEW s \in T
    PROVE  \E n \in Nat \ {0} :
              /\ b.snake[s].body \in [1 .. n -> Points] /\ Len(b.snake[s].body) = n
              /\ DOMAIN b.snake[s].body = 1 .. n
              /\ Body(b, s) = {b.snake[s].body[i] : i \in 1 .. n}
              /\ Body(b, s) \subseteq Points /\ b.snake[s].body[1] \in Body(b, s)
  <1>1. PICK n \in Nat \ {0} : b.snake[s].body \in [1 .. n -> Points]
    BY RecordFields DEF Bodies
  <1>2. /\ Len(b.snake[s].body) = n /\ DOMAIN b.snake[s].body = 1 .. n /\ 1 \in 1 .. n
    BY <1>1
  <1>3. Body(b, s) = {b.snake[s].body[i] : i \in 1 .. n}
    BY <1>2 DEF Body
  <1> QED BY <1>1, <1>2, <1>3

\* What free_snake leaves as it is.
Survivors(b, c, U) ==
    /\ c.food = b.food /\ c.endsnake = b.endsnake /\ c.seed = b.seed /\ c.con = b.con
    /\ \A t \in U : /\ c.snake[t].dir = b.snake[t].dir /\ c.snake[t].color = b.snake[t].color
                    /\ c.snake[t].body = b.snake[t].body

LEMMA FreedFields ==
    ASSUME NEW T \in SUBSET Ids, NEW b \in Boards(T), NEW s \in T, NEW c, c = free_snake(b, s)
    PROVE  LET skip(i) == IF i = s THEN b.snake[s].others ELSE i
           IN  /\ c \in Boards(T \ {s}) /\ Survivors(b, c, T \ {s})
               /\ c.allsnakes = skip(b.allsnakes)
               /\ \A t \in T \ {s} : c.snake[t].others = skip(b.snake[t].others)
  <1> DEFINE skip(i) == IF i = s THEN b.snake[s].others ELSE i
             relinked(i) == [b.snake[i] EXCEPT !.others = skip(@)]
  <1>1. \A i \in Links : skip(i) \in Links
    BY RecordFields
  <1>2. PICK r : r = [i \in T |-> relinked(i)]
    OBVIOUS
  <1>3. ASSUME NEW i \in T
        PROVE  /\ r[i] \in Records /\ r[i].others = skip(b.snake[i].others)
               /\ r[i].dir = b.snake[i].dir /\ r[i].color = b.snake[i].color
               /\ r[i].body = b.snake[i].body
    <2>1. PICK o \in Links : o = skip(b.snake[i].others)
      BY <1>1, RecordFields
    <2>2. PICK q \in Records : q = b.snake[i]
      BY RecordFields
    <2>3. r[i] = [q EXCEPT !.others = o]
      BY <1>2, <2>1, <2>2
    <2>4. [q EXCEPT !.others = o] \in Records /\ [q EXCEPT !.others = o].others = o
      BY DEF Records
    <2>5. /\ [q EXCEPT !.others = o].dir = q.dir /\ [q EXCEPT !.others = o].color = q.color
          /\ [q EXCEPT !.others = o].body = q.body
      BY DEF Records
    <2> QED BY <2>1, <2>2, <2>3, <2>4, <2>5
  <1>4. PICK v : v = [i \in T \ {s} |-> r[i]]
    OBVIOUS
  <1>5. v \in [T \ {s} -> Records] /\ \A i \in T \ {s} : v[i] = r[i]
    BY <1>3, <1>4
  <1>6. PICK a \in Links : a = skip(b.allsnakes)
    BY <1>1, BoardFields
  <1>7. c = [b EXCEPT !.allsnakes = a, !.snake = v]
    <2>1. DOMAIN b.snake = T /\ DOMAIN r = T
      BY <1>2, BoardFields
    <2>2. PICK d : d = [b EXCEPT !.allsnakes = skip(@), !.snake = [i \in DOMAIN @ |-> relinked(i)]]
      OBVIOUS
    <2>3. d = [b EXCEPT !.allsnakes = a, !.snake = r]
      <3>1. r = [i \in DOMAIN b.snake |-> relinked(i)]
        BY <1>2, <2>1
      <3>2. d = [b EXCEPT !.allsnakes = a, !.snake = [i \in DOMAIN @ |-> relinked(i)]]
        BY <1>6, <2>2
      <3> HIDE DEF relinked
      <3> QED BY <3>1, <3>2 DEF Boards
    <2>4. d.snake = r
      BY <2>3 DEF Boards
    <2>5. c = [d EXCEPT !.snake = [i \in DOMAIN @ \ {s} |-> @[i]]]
      BY <2>2 DEF free_snake, Freed
    <2>6. c = [d EXCEPT !.snake = v]
      BY <1>4, <2>1, <2>4, <2>5
    <2> QED BY <2>3, <2>6 DEF Boards
  <1>8. c \in Boards(T \ {s}) /\ c.allsnakes = a /\ c.snake = v
    BY <1>5, <1>7 DEF Boards
  <1>9. c.food = b.food /\ c.endsnake = b.endsnake /\ c.seed = b.seed /\ c.con = b.con
    BY <1>7 DEF Boards
  <1> QED BY <1>3, <1>5, <1>6, <1>8, <1>9 DEF Survivors

\* The list without its element j.
LEMMA Unlinked ==
    ASSUME NEW T \in SUBSET Ids, NEW b \in Boards(T), NEW s \in T, Linked(b, T), NEW c,
           c.allsnakes = IF b.allsnakes = s THEN b.snake[s].others ELSE b.allsnakes,
           \A t \in T \ {s} : c.snake[t].others =
              IF b.snake[t].others = s THEN b.snake[s].others ELSE b.snake[t].others
    PROVE  Linked(c, T \ {s})
  <1>0. PICK n \in Nat : \E L \in [1 .. n -> T] : Spells(b, T, n, L)
    BY DEF Linked
  <1>1. PICK L \in [1 .. n -> T] : Spells(b, T, n, L)
    BY <1>0
  <1>2. PICK j \in 1 .. n : L[j] = s
    BY <1>1 DEF Spells
  <1>3. PICK m \in Nat : n = m + 1
    <2>1. n - 1 \in Nat /\ n = (n - 1) + 1
      BY <1>2
    <2> QED BY <2>1
  <1> DEFINE At1(i) == IF i < j THEN i ELSE i + 1
  <1>4. PICK M : M = [i \in 1 .. m |-> L[At1(i)]]
    OBVIOUS
  <1>5. ASSUME NEW i \in 1 .. m PROVE At1(i) \in 1 .. n /\ At1(i) # j
    BY <1>2, <1>3
  <1>6. ASSUME NEW i \in 1 .. n, i # j PROVE L[i] # s
    BY <1>1, <1>2, <1>6 DEF Spells
  <1>7. M \in [1 .. m -> T \ {s}]
    <2> HIDE DEF At1
    <2>1. \A i \in 1 .. m : L[At1(i)] \in T \ {s}
      BY <1>5, <1>6
    <2> QED BY <1>4, <2>1
  <1>8. ASSUME NEW i \in 1 .. m, NEW k \in 1 .. m, M[i] = M[k] PROVE i = k
    <2>1. L[At1(i)] = L[At1(k)]
      BY <1>4, <1>8
    <2>2. At1(i) = At1(k)
      <3> HIDE DEF At1
      <3> QED BY <1>1, <1>5, <2>1 DEF Spells
    <2> QED BY <2>2
  <1>9. ASSUME NEW t \in T \ {s} PROVE \E i \in 1 .. m : M[i] = t
    <2>1. PICK k \in 1 .. n : L[k] = t /\ k # j
      BY <1>1, <1>2 DEF Spells
    <2>2. PICK i \in 1 .. m : At1(i) = k
      <3>1. CASE k < j
        <4>1. k \in 1 .. m /\ At1(k) = k
          BY <1>3, <3>1
        <4> QED BY <4>1
      <3>2. CASE ~ (k < j)
        <4>1. k - 1 \in 1 .. m /\ At1(k - 1) = k
          BY <1>3, <2>1, <3>2
        <4> QED BY <4>1
      <3> QED BY <3>1, <3>2
    <2> QED BY <1>4, <2>1, <2>2
  \* The one after i, when s is skipped.
  <1>10. ASSUME NEW i \in 0 .. m
         PROVE  Following(M, m, i) =
                   LET k == IF i < j THEN i ELSE i + 1
                       t == Following(L, n, k)
                   IN  IF t = s THEN Following(L, n, j) ELSE t
    <2>1. NULL # s
      BY SnakesAssumption
    <2>2. CASE i + 1 = j
      <3>1. i < j /\ i < n /\ Following(L, n, i) = s
        BY <1>2, <2>2 DEF Following
      <3>2. Following(M, m, i) = Following(L, n, j)
        <4>1. i < m <=> j < n
          BY <1>3, <2>2
        <4>2. i < m => i + 1 \in 1 .. m /\ At1(i + 1) = j + 1
          BY <2>2
        <4> QED BY <1>4, <4>1, <4>2 DEF Following
      <3> QED BY <3>1, <3>2
    <2>3. CASE i + 1 # j
      <3>1. PICK k \in 0 .. n : k = IF i < j THEN i ELSE i + 1
        BY <1>3
      <3>2. (i < m <=> k < n) /\ k + 1 # j
        BY <1>2, <1>3, <2>3, <3>1
      <3>3. i < m => i + 1 \in 1 .. m /\ At1(i + 1) = k + 1 /\ k + 1 \in 1 .. n
        BY <1>3, <2>3, <3>1
      <3>4. Following(M, m, i) = Following(L, n, k)
        BY <1>4, <3>2, <3>3 DEF Following
      <3>5. Following(L, n, k) # s
        BY <1>6, <2>1, <3>2, <3>3 DEF Following
      <3> QED BY <3>1, <3>4, <3>5
    <2> QED BY <2>2, <2>3
  <1>11. b.snake[s].others = Following(L, n, j) /\ b.allsnakes = Following(L, n, 0)
    BY <1>1, <1>2 DEF Spells
  <1>12. c.allsnakes = Following(M, m, 0)
    <2>1. 0 \in 0 .. m /\ 0 < j
      OBVIOUS
    <2> QED BY <1>10, <1>11, <2>1
  <1>13. ASSUME NEW i \in 1 .. m PROVE c.snake[M[i]].others = Following(M, m, i)
    <2>1. PICK k \in 1 .. n : k = At1(i) /\ M[i] = L[k] /\ M[i] \in T \ {s}
      BY <1>4, <1>5, <1>7
    <2>2. b.snake[M[i]].others = Following(L, n, k)
      BY <1>1, <2>1 DEF Spells
    <2>3. i \in 0 .. m
      OBVIOUS
    <2> QED BY <1>10, <1>11, <2>1, <2>2, <2>3
  <1>14. Spells(c, T \ {s}, m, M)
    BY <1>8, <1>9, <1>12, <1>13 DEF Spells
  <1> QED BY <1>7, <1>14 DEF Linked

LEMMA FreeFacts ==
    ASSUME NEW T \in SUBSET Ids, NEW b \in Boards(T), NEW s \in T, Linked(b, T), NEW c,
           c = free_snake(b, s)
    PROVE  c \in Boards(T \ {s}) /\ Linked(c, T \ {s}) /\ Survivors(b, c, T \ {s})
  <1>1. /\ c \in Boards(T \ {s}) /\ Survivors(b, c, T \ {s})
        /\ c.allsnakes = IF b.allsnakes = s THEN b.snake[s].others ELSE b.allsnakes
        /\ \A t \in T \ {s} : c.snake[t].others =
              IF b.snake[t].others = s THEN b.snake[s].others ELSE b.snake[t].others
    BY FreedFields
  <1> QED BY <1>1, Unlinked

-----------------------------------------------------------------------------
(***************************************************************************)
(* The screen: what is shown, erased and drawn.                            *)
(***************************************************************************)
LEMMA ScreenPut ==
    ASSUME NEW m \in Screens, NEW p \in Points, NEW glyph \in Glyphs
    PROVE  /\ Put(m, At(p), glyph) \in Screens
           /\ \A q \in Points :
                 Put(m, At(p), glyph).cell[At(q)] = IF q = p THEN glyph ELSE m.cell[At(q)]
  <1>1. PICK c \in Cells : c = At(p)
    BY CellOfPoint
  <1>2. PICK w : w = Put(m, At(p), glyph)
    OBVIOUS
  <1>3. w = [m EXCEPT !.cell[c] = glyph]
    BY <1>1, <1>2 DEF Put
  <1>4. w \in Screens /\ w.cell = [m.cell EXCEPT ![c] = glyph]
    BY <1>3 DEF Screens
  <1>5. ASSUME NEW q \in Points PROVE w.cell[At(q)] = IF q = p THEN glyph ELSE m.cell[At(q)]
    <2>1. At(q) \in Cells /\ (At(q) = c <=> q = p)
      BY <1>1, CellOfPoint, OneCellEach
    <2>2. m.cell \in [Cells -> Glyphs]
      BY DEF Screens
    <2> QED BY <1>4, <2>1, <2>2
  <1> QED BY <1>2, <1>4, <1>5

Spots(P) == {p.y * cols + p.x : p \in P}

LEMMA ScreenPutAll ==
    ASSUME NEW m \in Screens, NEW P \in SUBSET Points, NEW glyph \in Glyphs, NEW w,
           w = PutAll(m, Spots(P), glyph)
    PROVE  /\ w \in Screens
           /\ \A q \in Points : w.cell[At(q)] = IF q \in P THEN glyph ELSE m.cell[At(q)]
  <1>1. PICK cs : cs = {At(p) : p \in P}
    OBVIOUS
  <1>2. cs \subseteq Cells
    BY <1>1, CellOfPoint
  <1>3. PICK f : f = [c \in Cells |-> IF c \in cs THEN glyph ELSE m.cell[c]]
    OBVIOUS
  <1>4. w = [m EXCEPT !.cell = f, !.beyond = FALSE]
    <2>1. cs = Spots(P)
      BY <1>1 DEF At, Spots
    <2>2. w = [m EXCEPT !.cell = [p \in Cells |-> IF p \in cs THEN glyph ELSE @[p]],
                        !.beyond = @ \/ ~(cs \subseteq Cells)]
      BY <2>1 DEF PutAll
    <2>3. m.beyond = FALSE
      BY DEF Screens
    <2> QED BY <1>2, <1>3, <2>2, <2>3 DEF Screens
  <1>5. f \in [Cells -> Glyphs]
    <2>1. m.cell \in [Cells -> Glyphs]
      BY DEF Screens
    <2> QED BY <1>3, <2>1
  <1>6. w \in Screens /\ w.cell = f
    BY <1>4, <1>5 DEF Screens
  <1>7. ASSUME NEW q \in Points PROVE w.cell[At(q)] = IF q \in P THEN glyph ELSE m.cell[At(q)]
    <2>1. At(q) \in Cells
      BY CellOfPoint
    <2>2. At(q) \in cs <=> q \in P
      BY <1>1, OneCellEach
    <2> QED BY <1>3, <1>6, <2>1, <2>2
  <1> QED BY <1>6, <1>7

\* All of the board but the screen.
SameBoard(b, c) ==
    /\ c.snake = b.snake /\ c.allsnakes = b.allsnakes /\ c.food = b.food
    /\ c.endsnake = b.endsnake /\ c.seed = b.seed

LEMMA ShownFacts ==
    ASSUME NEW T, NEW b \in Boards(T), NEW p \in Points, NEW glyph \in Glyphs, NEW c,
           c = Shown(b, p, glyph)
    PROVE  /\ c \in Boards(T) /\ SameBoard(b, c)
           /\ \A q \in Points :
                 c.con.cell[At(q)] = IF q = p THEN glyph ELSE b.con.cell[At(q)]
  <1>1. PICK w : w = Put(b.con, At(p), glyph)
    OBVIOUS
  <1>2. /\ w \in Screens
        /\ \A q \in Points : w.cell[At(q)] = IF q = p THEN glyph ELSE b.con.cell[At(q)]
    BY <1>1, BoardFields, ScreenPut
  <1>3. c = [b EXCEPT !.con = w]
    BY <1>1 DEF Shown, PrintCharAt, At
  <1>4. c \in Boards(T) /\ SameBoard(b, c) /\ c.con = w
    BY <1>2, <1>3 DEF Boards, SameBoard
  <1> QED BY <1>2, <1>4

LEMMA AllShownFacts ==
    ASSUME NEW T, NEW b \in Boards(T), NEW P \in SUBSET Points, NEW glyph \in Glyphs, NEW c,
           c = AllShown(b, P, glyph)
    PROVE  /\ c \in Boards(T) /\ SameBoard(b, c)
           /\ \A q \in Points :
                 c.con.cell[At(q)] = IF q \in P THEN glyph ELSE b.con.cell[At(q)]
  <1>1. PICK w : w = PutAll(b.con, Spots(P), glyph)
    OBVIOUS
  <1>2. /\ w \in Screens
        /\ \A q \in Points : w.cell[At(q)] = IF q \in P THEN glyph ELSE b.con.cell[At(q)]
    BY <1>1, BoardFields, ScreenPutAll
  <1>3. c = [b EXCEPT !.con = w]
    BY <1>1 DEF AllShown, Spots
  <1>4. c \in Boards(T) /\ SameBoard(b, c) /\ c.con = w
    BY <1>2, <1>3 DEF Boards, SameBoard
  <1> QED BY <1>2, <1>4

LEMMA EraseFacts ==
    ASSUME NEW T, NEW b \in Boards(T), NEW s \in T, NEW c, c = erase_snake(b, s)
    PROVE  /\ c \in Boards(T) /\ SameBoard(b, c)
           /\ \A q \in Points :
                 c.con.cell[At(q)] = IF q \in Body(b, s) THEN Blank ELSE b.con.cell[At(q)]
  <1>1. Body(b, s) \in SUBSET Points
    BY BodyFacts
  <1>2. Blank \in Glyphs
    BY DEF Glyphs
  <1>3. c = AllShown(b, Body(b, s), Blank)
    BY DEF erase_snake
  <1> QED BY <1>1, <1>2, <1>3, AllShownFacts

LEMMA LookIsGlyph ==
    ASSUME NEW T, NEW b \in Boards(T), NEW s \in T
    PROVE  /\ <<head[b.snake[s].dir + 1], b.snake[s].color>> \in Glyphs
           /\ <<SN_BODY_CHAR, b.snake[s].color>> \in Glyphs
  <1>1. PICK d \in Directions, k \in Colors : d = b.snake[s].dir /\ k = b.snake[s].color
    BY RecordFields
  <1>2. d + 1 \in 1 .. NUMDIRS
    BY DEF Directions, NUMDIRS
  <1>3. head[d + 1] \in Characters /\ SN_BODY_CHAR \in Characters
    BY <1>2 DEF Characters
  <1> QED BY <1>1, <1>3 DEF Glyphs

\* A point of the body is the first of it or one of the rest.
LEMMA TailOfBody ==
    ASSUME NEW T, NEW b \in Boards(T), NEW s \in T, NEW q
    PROVE  LET body == b.snake[s].body
           IN  /\ q \in ToSet(Tail(body)) <=> \E i \in 2 .. Len(body) : q = body[i]
               /\ q \in Body(b, s) <=> q = body[1] \/ \E i \in 2 .. Len(body) : q = body[i]
  <1> DEFINE body == b.snake[s].body
  <1>1. PICK n \in Nat \ {0} : /\ body \in [1 .. n -> Points] /\ Len(body) = n
                               /\ Body(b, s) = {body[i] : i \in 1 .. n}
    BY BodyFacts
  <1>2. PICK l : l = Tail(body)
    OBVIOUS
  <1> HIDE DEF body
  <1>3. body \in Seq(Points) /\ body # <<>>
    BY <1>1
  <1>4. Len(l) = n - 1 /\ DOMAIN l = 1 .. n - 1 /\ \A i \in 1 .. n - 1 : l[i] = body[i + 1]
    BY <1>1, <1>2, <1>3
  <1>5. q \in ToSet(l) <=> \E i \in 2 .. n : q = body[i]
    <2>1. ASSUME NEW i \in 1 .. n - 1, q = l[i] PROVE \E j \in 2 .. n : q = body[j]
      <3>1. i + 1 \in 2 .. n
        OBVIOUS
      <3> QED BY <1>4, <2>1, <3>1
    <2>2. ASSUME NEW j \in 2 .. n, q = body[j] PROVE \E i \in 1 .. n - 1 : q = l[i]
      <3>1. j - 1 \in 1 .. n - 1 /\ (j - 1) + 1 = j
        OBVIOUS
      <3> QED BY <1>4, <2>2, <3>1
    <2> QED BY <1>4, <2>1, <2>2 DEF ToSet
  <1>6. \A i \in 1 .. n : i = 1 \/ i \in 2 .. n
    OBVIOUS
  <1>7. 1 \in 1 .. n /\ \A i \in 2 .. n : i \in 1 .. n
    OBVIOUS
  <1>8. q \in Body(b, s) <=> q = body[1] \/ \E i \in 2 .. n : q = body[i]
    BY <1>1, <1>6, <1>7
  <1> QED BY <1>1, <1>2, <1>5, <1>8 DEF body

LEMMA DrawFacts ==
    ASSUME NEW T, NEW b \in Boards(T), NEW s \in T, NEW c, c = draw_snake(b, s)
    PROVE  /\ c \in Boards(T) /\ SameBoard(b, c)
           /\ \A q \in Points :
                 c.con.cell[At(q)] = IF q \in Body(b, s) THEN Look(b, s, q)
                                     ELSE b.con.cell[At(q)]
  <1> DEFINE body == b.snake[s].body
             first == <<head[b.snake[s].dir + 1], b.snake[s].color>>
             rest == <<SN_BODY_CHAR, b.snake[s].color>>
  <1>1. first \in Glyphs /\ rest \in Glyphs
    BY LookIsGlyph
  <1>2. PICK P : P = ToSet(Tail(body))
    OBVIOUS
  <1>3. body[1] \in Points /\ P \in SUBSET Points
    <2>1. Body(b, s) \subseteq Points /\ body[1] \in Body(b, s)
      BY BodyFacts
    <2>2. P \subseteq Body(b, s)
      BY <1>2, TailOfBody
    <2> QED BY <2>1, <2>2
  <1>4. PICK m : m = Shown(b, body[1], first)
    OBVIOUS
  <1>5. /\ m \in Boards(T) /\ SameBoard(b, m)
        /\ \A q \in Points :
              m.con.cell[At(q)] = IF q = body[1] THEN first ELSE b.con.cell[At(q)]
    <2> HIDE DEF body, first
    <2> QED BY <1>1, <1>3, <1>4, ShownFacts
  <1>6. c = AllShown(m, P, rest)
    BY <1>2, <1>4 DEF draw_snake
  <1>7. /\ c \in Boards(T) /\ SameBoard(m, c)
        /\ \A q \in Points : c.con.cell[At(q)] = IF q \in P THEN rest ELSE m.con.cell[At(q)]
    <2> HIDE DEF rest
    <2> QED BY <1>1, <1>3, <1>5, <1>6, AllShownFacts
  <1>8. ASSUME NEW q \in Points
        PROVE  c.con.cell[At(q)] = IF q \in Body(b, s) THEN Look(b, s, q) ELSE b.con.cell[At(q)]
    <2>1. /\ q \in P <=> \E i \in 2 .. Len(body) : q = body[i]
          /\ q \in Body(b, s) <=> q = body[1] \/ \E i \in 2 .. Len(body) : q = body[i]
      BY <1>2, TailOfBody
    <2>2. CASE q \in P
      <3>1. ~Leading(b, s, q)
        BY <2>1, <2>2 DEF Leading
      <3> QED BY <1>7, <2>1, <2>2, <3>1 DEF Look
    <2>3. CASE q \notin P
      <3>1. c.con.cell[At(q)] = m.con.cell[At(q)]
        BY <1>7, <2>3
      <3>2. CASE q = body[1]
        <4>1. Leading(b, s, q)
          BY <2>1, <2>3, <3>2 DEF Leading
        <4> QED BY <1>5, <2>1, <3>1, <3>2, <4>1 DEF Look
      <3>3. CASE q # body[1]
        BY <1>5, <2>1, <2>3, <3>1, <3>3
      <3> QED BY <3>2, <3>3
    <2> QED BY <2>2, <2>3
  <1>9. SameBoard(b, c)
    BY <1>5, <1>7 DEF SameBoard
  <1> QED BY <1>7, <1>8, <1>9

LEMMA SameFacts ==
    ASSUME NEW T, NEW b, NEW c, SameBoard(b, c)
    PROVE  /\ \A s : Body(c, s) = Body(b, s) /\ \A p : Look(c, s, p) = Look(b, s, p)
           /\ Apart(b, T) => Apart(c, T)
           /\ Linked(b, T) => Linked(c, T)
           /\ Fare(b, T) => Fare(c, T)
           /\ Slender(b, T) => Slender(c, T)
  <1>1. c.snake = b.snake /\ c.allsnakes = b.allsnakes /\ c.food = b.food
    BY DEF SameBoard
  <1>2. ASSUME NEW s PROVE Body(c, s) = Body(b, s) /\ \A p : Look(c, s, p) = Look(b, s, p)
    BY <1>1 DEF Body, Look, Leading
  <1>3. Linked(b, T) => Linked(c, T)
    BY <1>1, SameList
  <1> QED BY <1>1, <1>2, <1>3 DEF Apart, Fare, Slender

\* The screen shows no more of a snake than how it lies and its colour.
SameLook(b, c, U) ==
    \A t \in U : /\ c.snake[t].dir = b.snake[t].dir /\ c.snake[t].color = b.snake[t].color
                 /\ c.snake[t].body = b.snake[t].body

LEMMA LooksFacts ==
    ASSUME NEW U, NEW b, NEW c, SameLook(b, c, U)
    PROVE  /\ \A s \in U : Body(c, s) = Body(b, s) /\ \A p : Look(c, s, p) = Look(b, s, p)
           /\ Apart(b, U) => Apart(c, U)
  <1>1. ASSUME NEW s \in U PROVE Body(c, s) = Body(b, s) /\ \A p : Look(c, s, p) = Look(b, s, p)
    BY DEF SameLook, Body, Look, Leading
  <1> QED BY <1>1 DEF Apart

LEMMA StillRight ==
    ASSUME NEW U, NEW b, NEW c, SameLook(b, c, U), c.con = b.con, c.food = b.food, NEW p,
           Right(b, U, p)
    PROVE  Right(c, U, p)
  BY LooksFacts DEF Right

LEMMA StillPainted ==
    ASSUME NEW U, NEW b, NEW c, SameLook(b, c, U), c.con = b.con, c.food = b.food, Painted(b, U)
    PROVE  Painted(c, U)
  BY StillRight DEF Painted

\* Off one snake, the screen is right for the others.
LEMMA WithoutOne ==
    ASSUME NEW T, NEW b, NEW s \in T, Painted(b, T), NEW p \in Points \ Body(b, s)
    PROVE  Right(b, T \ {s}, p)
  BY DEF Painted, Right

LEMMA ErasePaints ==
    ASSUME NEW T, NEW b \in Boards(T), NEW s \in T, Apart(b, T), b.food \notin Body(b, s),
           \A p \in Points \ Body(b, s) : Right(b, T \ {s}, p), NEW c, c = erase_snake(b, s)
    PROVE  Painted(c, T \ {s})
  <1>1. /\ SameBoard(b, c) /\ c.food = b.food
        /\ \A q \in Points :
              c.con.cell[At(q)] = IF q \in Body(b, s) THEN Blank ELSE b.con.cell[At(q)]
    BY EraseFacts DEF SameBoard
  <1>2. \A t : Body(c, t) = Body(b, t) /\ \A p : Look(c, t, p) = Look(b, t, p)
    BY <1>1, SameFacts
  <1>3. ASSUME NEW p \in Points PROVE Right(c, T \ {s}, p)
    <2>1. CASE p \in Body(b, s)
      <3>1. \A t \in T \ {s} : p \notin Body(c, t)
        BY <1>2, <2>1 DEF Apart
      <3>2. c.con.cell[At(p)] = Blank /\ p # c.food
        BY <1>1, <2>1
      <3> QED BY <3>1, <3>2 DEF Right
    <2>2. CASE p \notin Body(b, s)
      <3>1. c.con.cell[At(p)] = b.con.cell[At(p)]
        BY <1>1, <2>2
      <3>2. Right(b, T \ {s}, p)
        BY <2>2
      <3> QED BY <1>1, <1>2, <3>1, <3>2 DEF Right
    <2> QED BY <2>1, <2>2
  <1> QED BY <1>3 DEF Painted

LEMMA DrawPaints ==
    ASSUME NEW T, NEW b \in Boards(T), NEW s \in T, NEW U \in SUBSET T,
           \A t \in U : Body(b, t) \cap Body(b, s) = {},
           Painted(b, U), NEW c, c = draw_snake(b, s)
    PROVE  Painted(c, U \cup {s})
  <1>1. /\ SameBoard(b, c) /\ c.food = b.food
        /\ \A q \in Points :
              c.con.cell[At(q)] = IF q \in Body(b, s) THEN Look(b, s, q) ELSE b.con.cell[At(q)]
    BY DrawFacts DEF SameBoard
  <1>2. \A t : Body(c, t) = Body(b, t) /\ \A p : Look(c, t, p) = Look(b, t, p)
    BY <1>1, SameFacts
  <1>3. ASSUME NEW p \in Points PROVE Right(c, U \cup {s}, p)
    <2>1. CASE p \in Body(b, s)
      <3>1. \A t \in U : p \notin Body(c, t)
        BY <1>2, <2>1
      <3>2. c.con.cell[At(p)] = Look(c, s, p) /\ p \in Body(c, s)
        BY <1>1, <1>2, <2>1
      <3> QED BY <3>1, <3>2 DEF Right
    <2>2. CASE p \notin Body(b, s)
      <3>1. c.con.cell[At(p)] = b.con.cell[At(p)] /\ p \notin Body(c, s)
        BY <1>1, <1>2, <2>2
      <3>2. Right(b, U, p)
        BY DEF Painted
      <3> QED BY <1>1, <1>2, <3>1, <3>2 DEF Right
    <2> QED BY <2>1, <2>2
  <1> QED BY <1>3 DEF Painted

\* The food is drawn where there is nothing, once what there was is eaten.
LEMMA FoodPaints ==
    ASSUME NEW T, NEW b \in Boards(T), Painted(b, T),
           b.food = NoFood \/ \E s \in T : b.food \in Body(b, s),
           NEW p \in Points, \A s \in T : p \notin Body(b, s),
           NEW seed \in Seeds, NEW c, c = draw_food(Served(b, p, seed))
    PROVE  /\ c \in Boards(T) /\ Painted(c, T)
           /\ c.snake = b.snake /\ c.allsnakes = b.allsnakes /\ c.food = p
           /\ c.endsnake = b.endsnake
  <1>1. PICK m : m = Served(b, p, seed)
    OBVIOUS
  <1>2. /\ m \in Boards(T) /\ m.snake = b.snake /\ m.allsnakes = b.allsnakes /\ m.food = p
        /\ m.endsnake = b.endsnake /\ m.con = b.con
    BY <1>1 DEF Boards, Served
  <1>3. Food \in Glyphs
    BY DEF Glyphs
  <1>4. c = Shown(m, p, Food)
    BY <1>1, <1>2 DEF draw_food
  <1>5. /\ c \in Boards(T) /\ SameBoard(m, c)
        /\ \A q \in Points : c.con.cell[At(q)] = IF q = p THEN Food ELSE m.con.cell[At(q)]
    BY <1>2, <1>3, <1>4, ShownFacts
  <1>6. /\ c.snake = b.snake /\ c.allsnakes = b.allsnakes /\ c.food = p
        /\ c.endsnake = b.endsnake
    BY <1>2, <1>5 DEF SameBoard
  <1>7. \A t : Body(c, t) = Body(b, t) /\ \A q : Look(c, t, q) = Look(b, t, q)
    BY <1>6 DEF Body, Look, Leading
  <1>8. ASSUME NEW q \in Points PROVE Right(c, T, q)
    <2>1. CASE q = p
      BY <1>5, <1>6, <1>7, <2>1 DEF Right
    <2>2. CASE q # p
      <3>1. c.con.cell[At(q)] = b.con.cell[At(q)]
        BY <1>2, <1>5, <2>2
      <3>2. Right(b, T, q)
        BY DEF Painted
      <3>3. (\A s \in T : q \notin Body(b, s)) => q # b.food
        BY PointsAreOnBoard
      <3> QED BY <1>6, <1>7, <2>2, <3>1, <3>2, <3>3 DEF Right
    <2> QED BY <2>1, <2>2
  <1> QED BY <1>5, <1>6, <1>8 DEF Painted

-----------------------------------------------------------------------------
(***************************************************************************)
(* Moves: nine rounds are enough, for eight draws in a row are the eight   *)
(* directions.                                                             *)
(***************************************************************************)
LEMMA RandFacts ==
    /\ \A k \in 0 .. 7 : rand(k) \in 0 .. 7
    /\ rand(0) = 7 /\ rand(7) = 2 /\ rand(2) = 1 /\ rand(1) = 4
    /\ rand(4) = 3 /\ rand(3) = 6 /\ rand(6) = 5 /\ rand(5) = 0
  BY DEF rand

LEMMA DrawsFacts ==
    ASSUME NEW seed \in 0 .. 7
    PROVE  LET f == Draws[seed]
           IN  /\ f \in [0 .. 9 -> 0 .. 7] /\ f[0] = seed
               /\ \A k \in 1 .. 9 : f[k] = rand(f[k - 1])
  <1> DEFINE Good(f) == f = [k \in 0 .. MaxTries |-> IF k = 0 THEN seed ELSE rand(f[k - 1])]
  <1>1. MaxTries = 9
    BY DEF MaxTries, NUMDIRS
  <1>2. \E f : Good(f)
    <2>1. PICK F : F = [k \in 0 .. 7 |-> rand(k)]
      OBVIOUS
    <2>2. F \in [0 .. 7 -> 0 .. 7]
      BY <2>1, RandFacts
    <2>3. PICK f \in [0 .. 9 -> 0 .. 7] : Iterates(f, 9, seed, F)
      <3>1. 9 \in Nat
        OBVIOUS
      <3> QED BY <2>2, <3>1, Iterated
    <2>4. ASSUME NEW k \in 0 .. 9, k # 0 PROVE f[k] = rand(f[k - 1])
      <3>1. k \in 1 .. 9 /\ k - 1 \in 0 .. 9
        BY <2>4
      <3>2. f[k - 1] \in 0 .. 7 /\ f[k] = F[f[k - 1]]
        BY <2>3, <3>1 DEF Iterates
      <3> QED BY <2>1, <3>2
    <2>5. f[0] = seed /\ f = [k \in 0 .. 9 |-> f[k]]
      BY <2>3 DEF Iterates
    <2>6. f = [k \in 0 .. 9 |-> IF k = 0 THEN seed ELSE rand(f[k - 1])]
      BY <2>4, <2>5
    <2> QED BY <1>1, <2>6
  <1>3. Good(Draws[seed])
    <2>1. Draws[seed] = CHOOSE f : Good(f)
      BY DEF Draws
    <2> HIDE DEF Good
    <2> QED BY <1>2, <2>1
  <1>4. PICK f : f = Draws[seed] /\ f = [k \in 0 .. 9 |-> IF k = 0 THEN seed ELSE rand(f[k - 1])]
    BY <1>1, <1>3
  <1>5. f[0] = seed /\ (\A k \in 1 .. 9 : f[k] = rand(f[k - 1])) /\ f = [k \in 0 .. 9 |-> f[k]]
    <2>1. 0 \in 0 .. 9 /\ \A k \in 1 .. 9 : k \in 0 .. 9 /\ k # 0
      OBVIOUS
    <2> QED BY <1>4, <2>1
  <1>6. \A k \in 0 .. 9 : f[k] \in 0 .. 7
    <2> DEFINE S == {k \in 0 .. 9 : f[k] \in 0 .. 7}
    <2>1. 0 \in S
      BY <1>5
    <2>2. ASSUME NEW k \in 0 .. 9, k + 1 \in 0 .. 9, k \in S PROVE k + 1 \in S
      <3>1. k + 1 \in 1 .. 9 /\ (k + 1) - 1 = k
        BY <2>2
      <3> QED BY <1>5, <2>2, <3>1, RandFacts
    <2>3. 9 \in Nat
      OBVIOUS
    <2> HIDE DEF S
    <2>4. \A k \in 0 .. 9 : k \in S
      BY <2>1, <2>2, <2>3, Upward
    <2> QED BY <2>4 DEF S
  <1> QED BY <1>4, <1>5, <1>6

LEMMA DrawsCover ==
    ASSUME NEW seed \in 0 .. 7, NEW d \in 0 .. 7
    PROVE  \E i \in 1 .. 8 : Draws[seed][i] = d
  <1>1. PICK f : f = Draws[seed]
    OBVIOUS
  <1>2. f[0] = seed /\ \A k \in 1 .. 9 : f[k] = rand(f[k - 1])
    BY <1>1, DrawsFacts
  <1>3. /\ f[1] = rand(f[0]) /\ f[2] = rand(f[1]) /\ f[3] = rand(f[2]) /\ f[4] = rand(f[3])
        /\ f[5] = rand(f[4]) /\ f[6] = rand(f[5]) /\ f[7] = rand(f[6]) /\ f[8] = rand(f[7])
    BY <1>2
  <1>4. \/ seed = 0 \/ seed = 1 \/ seed = 2 \/ seed = 3
        \/ seed = 4 \/ seed = 5 \/ seed = 6 \/ seed = 7
    OBVIOUS
  <1>5. SUFFICES \/ f[1] = d \/ f[2] = d \/ f[3] = d \/ f[4] = d
                 \/ f[5] = d \/ f[6] = d \/ f[7] = d \/ f[8] = d
    BY <1>1
  <1>6. \/ d = 0 \/ d = 1 \/ d = 2 \/ d = 3 \/ d = 4 \/ d = 5 \/ d = 6 \/ d = 7
    OBVIOUS
  <1> QED BY <1>2, <1>3, <1>4, <1>6, RandFacts

LEMMA TriedFacts ==
    ASSUME NEW T, NEW b \in Boards(T), NEW first \in Directions
    PROVE  /\ Tried(b, first) \in [0 .. 9 -> Directions]
           /\ \A d \in Directions : \E i \in 0 .. 8 : Tried(b, first)[i] = d
  <1>1. PICK f \in [0 .. 9 -> 0 .. 7] : f = Draws[b.seed]
    BY BoardFields, DrawsFacts
  <1>2. Directions = 0 .. 7
    BY DEF Directions, NUMDIRS
  <1>3. PICK t : t = Tried(b, first)
    OBVIOUS
  <1>4. t = [f EXCEPT ![0] = first]
    BY <1>1, <1>3 DEF Tried
  <1>5. t \in [0 .. 9 -> Directions] /\ \A i \in 1 .. 8 : t[i] = f[i]
    BY <1>2, <1>4
  <1>6. ASSUME NEW d \in Directions PROVE \E i \in 0 .. 8 : t[i] = d
    <2>1. PICK i \in 1 .. 8 : f[i] = d
      BY <1>1, <1>2, BoardFields, DrawsCover
    <2>2. i \in 0 .. 8
      OBVIOUS
    <2> QED BY <1>5, <2>1, <2>2
  <1> QED BY <1>3, <1>5, <1>6

LEMMA RoundsFacts ==
    ASSUME NEW T, NEW b \in Boards(T), NEW first \in Directions, NEW blocked \in SUBSET Directions
    PROVE  LET tried == Tried(b, first)
           IN  /\ Rounds(tried, blocked) # {}
               /\ \A k \in Rounds(tried, blocked) :
                     /\ k \in 0 .. 9 /\ tried[k] \in Directions
                     /\ alldead(tried, k) <=> blocked = Directions
                     /\ tried[k] \notin blocked \/ alldead(tried, k)
  <1>1. PICK tried : tried = Tried(b, first)
    OBVIOUS
  <1>2. tried \in [0 .. 9 -> Directions] /\ \A d \in Directions : \E i \in 0 .. 8 : tried[i] = d
    BY <1>1, TriedFacts
  <1> DEFINE Ends(k) == tried[k] \notin blocked \/ alldead(tried, k)
             S == {k \in 0 .. 9 : Ends(k)}
  <1>3. Rounds(tried, blocked) = {k \in 0 .. 9 : Ends(k) /\ \A i \in 0 .. k - 1 : ~Ends(i)}
    <2>1. MaxTries = 9
      BY DEF MaxTries, NUMDIRS
    <2> QED BY <2>1 DEF Rounds
  <1>4. 9 \in S
    <2>1. {tried[i] : i \in 0 .. 8} = Directions
      <3>1. \A i \in 0 .. 8 : i \in 0 .. 9
        OBVIOUS
      <3>2. \A i \in 0 .. 8 : tried[i] \in Directions
        BY <1>2, <3>1
      <3> QED BY <1>2, <3>2
    <2>2. 9 - 1 = 8
      OBVIOUS
    <2>3. alldead(tried, 9)
      BY <2>1, <2>2 DEF alldead
    <2> QED BY <2>3
  <1>5. Rounds(tried, blocked) # {}
    <2>1. PICK k \in 0 .. 9 : k \in S /\ \A i \in 0 .. k - 1 : i \notin S
      <3>1. 9 \in Nat /\ 9 \in 0 .. 9
        OBVIOUS
      <3> HIDE DEF S
      <3> QED BY <1>4, <3>1, Least
    <2>2. \A i \in 0 .. k - 1 : i \in 0 .. 9
      OBVIOUS
    <2>3. k \in 0 .. 9 /\ Ends(k) /\ \A i \in 0 .. k - 1 : ~Ends(i)
      BY <2>1, <2>2
    <2> HIDE DEF Ends
    <2> QED BY <1>3, <2>3
  <1>6. ASSUME NEW k \in Rounds(tried, blocked)
        PROVE  /\ k \in 0 .. 9 /\ tried[k] \in Directions
               /\ alldead(tried, k) <=> blocked = Directions
               /\ tried[k] \notin blocked \/ alldead(tried, k)
    <2>1. k \in 0 .. 9 /\ Ends(k) /\ \A i \in 0 .. k - 1 : ~Ends(i)
      BY <1>3
    <2>2. tried[k] \in Directions
      BY <1>2, <2>1
    <2>3. ASSUME alldead(tried, k) PROVE blocked = Directions
      <3>1. \A i \in 0 .. k - 1 : tried[i] \in blocked
        BY <2>1
      <3>2. {tried[i] : i \in 0 .. k - 1} = Directions
        BY <2>3 DEF alldead
      <3> QED BY <3>1, <3>2
    <2>4. ASSUME blocked = Directions PROVE alldead(tried, k)
      BY <2>1, <2>2, <2>4
    <2> QED BY <2>1, <2>2, <2>3, <2>4
  <1> QED BY <1>1, <1>5, <1>6

LEMMA NeighbourFacts ==
    ASSUME NEW p \in Points, NEW d \in Directions
    PROVE  Neighbour(p, d) \in [x : Int, y : Int]
  <1>1. d + 1 \in 1 .. 8
    BY DEF Directions, NUMDIRS
  <1>2. \A i \in 1 .. 8 : deltaX[i] \in Int
    BY DEF deltaX
  <1>3. \A i \in 1 .. 8 : deltaY[i] \in Int
    BY DEF deltaY
  <1>4. PICK u \in Int, v \in Int : u = deltaX[d + 1] /\ v = deltaY[d + 1]
    BY <1>1, <1>2, <1>3
  <1>5. p.x \in Int /\ p.y \in Int
    BY BoardSize DEF Points
  <1>6. p.x + u \in Int /\ p.y + v \in Int
    BY <1>4, <1>5
  <1> QED BY <1>4, <1>6 DEF Neighbour

LEMMA FreePoint ==
    ASSUME NEW T \in SUBSET Ids, NEW b, Board(b, T), NEW p \in [x : Int, y : Int],
           ~obstructed(b, p)
    PROVE  p \in Points /\ \A s \in T : p \notin Body(b, s)
  <1>1. Community(b) = T
    BY WalkFacts DEF Board
  <1> QED BY <1>1, PointsAreOnBoard DEF obstructed

\* What the steps of a move leave as it is.
Steady(b, c, T, s) ==
    /\ SameLook(b, c, T \ {s})
    /\ c.allsnakes = b.allsnakes /\ c.food = b.food /\ c.endsnake = b.endsnake
    /\ c.con = b.con /\ c.snake[s].color = b.snake[s].color
    /\ \A t \in T : c.snake[t].others = b.snake[t].others

Turn(b, s, d, e) == [b EXCEPT !.snake[s].dir = d, !.seed = e]

LEMMA Turned ==
    ASSUME NEW T, NEW b \in Boards(T), NEW s \in T, NEW d \in Directions, NEW e \in Seeds, NEW c,
           c = Turn(b, s, d, e)
    PROVE  c \in Boards(T) /\ Steady(b, c, T, s) /\ c.snake[s].body = b.snake[s].body
  <1>1. PICK r \in Records : r = b.snake[s]
    BY RecordFields
  <1>2. PICK q : q = [r EXCEPT !.dir = d]
    OBVIOUS
  <1>3. q \in Records /\ q.body = r.body /\ q.color = r.color /\ q.others = r.others
    BY <1>2 DEF Records
  <1>4. PICK f : f = [b.snake EXCEPT ![s] = q]
    OBVIOUS
  <1>5. b.snake \in [T -> Records]
    BY BoardFields
  <1>6. f \in [T -> Records] /\ f[s] = q /\ \A t \in T \ {s} : f[t] = b.snake[t]
    BY <1>3, <1>4, <1>5
  <1>7. c = [b EXCEPT !.snake = f, !.seed = e]
    BY <1>1, <1>2, <1>4, <1>5 DEF Boards, Turn
  <1>8. /\ c \in Boards(T) /\ c.snake = f
        /\ c.allsnakes = b.allsnakes /\ c.food = b.food /\ c.endsnake = b.endsnake
        /\ c.con = b.con
    BY <1>6, <1>7 DEF Boards
  <1>9. \A t \in T \ {s} : c.snake[t] = b.snake[t]
    BY <1>6, <1>8
  <1> QED BY <1>1, <1>3, <1>6, <1>8, <1>9 DEF SameLook, Steady

LEMMA CrawledFacts ==
    ASSUME NEW T, NEW b \in Boards(T), NEW s \in T, NEW p \in Points, NEW c,
           c = Crawled(b, s, p)
    PROVE  /\ c \in Boards(T) /\ Steady(b, c, T, s)
           /\ c.snake[s].body[1] = p /\ Body(c, s) \subseteq Body(b, s) \cup {p}
  <1>1. PICK r \in Records : r = b.snake[s]
    BY RecordFields
  <1>2. PICK n \in Nat \ {0} : r.body \in [1 .. n -> Points] /\ DOMAIN r.body = 1 .. n
                               /\ Body(b, s) = {r.body[i] : i \in 1 .. n}
    BY <1>1, BodyFacts
  <1>3. PICK w : w = [i \in 1 .. n |-> IF i = 1 THEN p ELSE r.body[i - 1]]
    OBVIOUS
  <1>4. ASSUME NEW i \in 1 .. n, i # 1 PROVE i - 1 \in 1 .. n
    BY <1>4
  <1>5. w \in [1 .. n -> Points] /\ w[1] = p /\ \A i \in 1 .. n : w[i] \in Body(b, s) \cup {p}
    BY <1>2, <1>3, <1>4
  <1>6. PICK q : q = [r EXCEPT !.body = w]
    OBVIOUS
  <1>7. q \in Records /\ q.body = w /\ q.color = r.color /\ q.others = r.others
    <2>1. w \in Bodies
      BY <1>5 DEF Bodies
    <2> QED BY <1>6, <2>1 DEF Records
  <1>8. PICK f : f = [b.snake EXCEPT ![s] = q]
    OBVIOUS
  <1>9. b.snake \in [T -> Records]
    BY BoardFields
  <1>10. f \in [T -> Records] /\ f[s] = q /\ \A t \in T \ {s} : f[t] = b.snake[t]
    BY <1>7, <1>8, <1>9
  <1>11. c = [b EXCEPT !.snake = f]
    <2>1. q = [r EXCEPT !.body = [i \in DOMAIN @ |-> IF i = 1 THEN p ELSE @[i - 1]]]
      BY <1>2, <1>3, <1>6
    <2>2. c = [b EXCEPT !.snake[s].body = [i \in DOMAIN @ |-> IF i = 1 THEN p ELSE @[i - 1]]]
      BY DEF Crawled
    <2> QED BY <1>1, <1>2, <1>3, <1>6, <1>8, <1>9, <2>2 DEF Boards
  <1>12. /\ c \in Boards(T) /\ c.snake = f
         /\ c.allsnakes = b.allsnakes /\ c.food = b.food /\ c.endsnake = b.endsnake
         /\ c.con = b.con
    BY <1>10, <1>11 DEF Boards
  <1>13. \A t \in T \ {s} : c.snake[t] = b.snake[t]
    BY <1>10, <1>12
  <1>14. Body(c, s) \subseteq Body(b, s) \cup {p} /\ c.snake[s].body = w
    <2>1. c.snake[s].body = w /\ DOMAIN w = 1 .. n
      BY <1>5, <1>7, <1>10, <1>12
    <2>2. Body(c, s) = {w[i] : i \in 1 .. n}
      BY <2>1 DEF Body
    <2> QED BY <1>5, <2>1, <2>2
  <1> QED BY <1>1, <1>5, <1>7, <1>10, <1>12, <1>13, <1>14 DEF SameLook, Steady

\* What a move leaves of the board: the others as they were, and the snake
\* where it was but for its head, which is on the food or off it.
MovedOn(b, c, T, s) ==
    /\ Board(c, T) /\ SameLook(b, c, T \ {s})
    /\ c.food = b.food /\ c.endsnake = b.endsnake /\ c.con = b.con
    /\ c.snake[s].color = b.snake[s].color
    /\ (\A t \in T : b.food \notin Body(b, t)) =>
          /\ \A t \in T \ {s} : c.food \notin Body(c, t)
          /\ c.food \in Body(c, s) => c.snake[s].body[1] = c.food

LEMMA MoveFacts ==
    ASSUME NEW T \in SUBSET Ids, NEW b, Board(b, T), NEW s \in T, NEW first \in Directions,
           NEW c \in Moved(b, s, first)
    PROVE  MovedOn(b, c, T, s)
  <1>1. b \in Boards(T) /\ Linked(b, T) /\ Apart(b, T)
    BY DEF Board
  <1>2. PICK tried : tried = Tried(b, first)
    OBVIOUS
  <1>3. PICK blocked : blocked = Blocked(b, s) /\ blocked \in SUBSET Directions
    BY DEF Blocked
  <1>4. PICK at \in Points : at = b.snake[s].body[1] /\ at \in Body(b, s)
    BY <1>1, BodyFacts
  <1>5. PICK k \in Rounds(tried, blocked) :
          c = Crawled([b EXCEPT !.snake[s].dir = tried[k], !.seed = Draws[b.seed][k]], s,
                      IF alldead(tried, k) THEN at ELSE Neighbour(at, tried[k]))
    BY <1>2, <1>3, <1>4 DEF Moved
  <1>6. /\ k \in 0 .. 9 /\ tried[k] \in Directions
        /\ tried[k] \notin blocked \/ alldead(tried, k)
    BY <1>1, <1>2, <1>3, RoundsFacts
  <1>7. PICK p : p = IF alldead(tried, k) THEN at ELSE Neighbour(at, tried[k])
    OBVIOUS
  <1>8. p \in Points /\ (p = at \/ \A t \in T : p \notin Body(b, t))
    <2>1. CASE alldead(tried, k)
      BY <1>7, <2>1
    <2>2. CASE ~alldead(tried, k)
      <3>1. p = Neighbour(at, tried[k]) /\ p \in [x : Int, y : Int]
        BY <1>6, <1>7, <2>2, NeighbourFacts
      <3>2. ~obstructed(b, p)
        BY <1>3, <1>4, <1>6, <2>2, <3>1 DEF Blocked
      <3> QED BY <3>1, <3>2, FreePoint
    <2> QED BY <2>1, <2>2
  <1>9. PICK e \in Seeds : e = Draws[b.seed][k]
    BY <1>1, <1>6, BoardFields, DrawsFacts DEF Seeds
  <1>10. PICK d \in Directions : d = tried[k]
    BY <1>6
  <1>11. PICK m : m = Turn(b, s, d, e)
    OBVIOUS
  <1>12. m \in Boards(T) /\ Steady(b, m, T, s) /\ m.snake[s].body = b.snake[s].body
    BY <1>1, <1>11, Turned
  <1>13. c = Crawled(m, s, p)
    BY <1>5, <1>7, <1>9, <1>10, <1>11 DEF Turn
  <1>14. /\ c \in Boards(T) /\ Steady(m, c, T, s)
         /\ c.snake[s].body[1] = p /\ Body(c, s) \subseteq Body(m, s) \cup {p}
    <2>1. m \in Boards(T)
      BY <1>12
    <2> QED BY <1>8, <1>13, <2>1, CrawledFacts
  <1>15. Steady(b, c, T, s) /\ SameLook(b, c, T \ {s}) /\ c.food = b.food
    BY <1>12, <1>14 DEF Steady, SameLook
  <1>16. Body(m, s) = Body(b, s)
    BY <1>12 DEF Body
  <1>17. \A t \in T \ {s} : Body(c, t) = Body(b, t)
    BY <1>15, LooksFacts
  <1>18. Linked(c, T)
    BY <1>1, <1>15, SameList DEF Steady
  <1>19. ASSUME NEW t \in T \ {s} PROVE Body(c, t) \cap Body(c, s) = {}
    <2>1. Body(b, t) \cap Body(b, s) = {}
      BY <1>1 DEF Apart
    <2>2. p \notin Body(b, t)
      BY <1>4, <1>8, <2>1
    <2> QED BY <1>14, <1>16, <1>17, <2>1, <2>2
  <1>20. Apart(c, T)
    <2>1. ASSUME NEW t \in T, NEW u \in T, t # u PROVE Body(c, t) \cap Body(c, u) = {}
      <3>1. CASE t # s /\ u # s
        BY <1>1, <1>17, <2>1, <3>1 DEF Apart
      <3>2. CASE t = s \/ u = s
        BY <1>19, <2>1, <3>2
      <3> QED BY <3>1, <3>2
    <2> QED BY <2>1 DEF Apart
  <1>21. ASSUME \A t \in T : b.food \notin Body(b, t)
         PROVE  /\ \A t \in T \ {s} : c.food \notin Body(c, t)
                /\ c.food \in Body(c, s) => c.snake[s].body[1] = c.food
    BY <1>14, <1>15, <1>16, <1>17, <1>21
  <1> QED BY <1>14, <1>15, <1>18, <1>20, <1>21 DEF MovedOn, Board, Steady

LEMMA FirstFacts ==
    ASSUME NEW T, NEW b \in Boards(T), NEW s \in T
    PROVE  First(b, s) \in Directions
  <1> DEFINE sign(n) == IF n > 0 THEN 1 ELSE IF n < 0 THEN -1 ELSE 0
             delta2dir == <<<<0, 1, 2>>, <<3, 1, 4>>, <<5, 6, 7>>>>
  <1>1. PICK p : p = b.snake[s].body[1]
    OBVIOUS
  <1>2. \A n : sign(n) \in -1 .. 1
    OBVIOUS
  <1>3. PICK i \in -1 .. 1, j \in -1 .. 1 : i = sign(b.food.y - p.y) /\ j = sign(b.food.x - p.x)
    <2> HIDE DEF sign
    <2> QED BY <1>2
  <1>4. delta2dir[i + 2][j + 2] \in 0 .. 7
    <2>1. i + 2 \in 1 .. 3 /\ j + 2 \in 1 .. 3
      OBVIOUS
    <2>2. \A l, k \in 1 .. 3 : delta2dir[l][k] \in 0 .. 7
      OBVIOUS
    <2> HIDE DEF delta2dir
    <2> QED BY <2>1, <2>2
  <1>5. food_direction(b, p) = delta2dir[i + 2][j + 2]
    BY <1>3 DEF food_direction
  <1>6. food_direction(b, p) \in Directions
    <2> HIDE DEF delta2dir
    <2> QED BY <1>4, <1>5 DEF Directions, NUMDIRS
  <1> QED BY <1>1, <1>6, RecordFields DEF First

LEMMA PlacedFacts ==
    ASSUME NEW T \in SUBSET Ids, NEW b, Board(b, T), NEW c \in place_food(b)
    PROVE  \E p \in Points, e \in Seeds : c = Served(b, p, e) /\ \A s \in T : p \notin Body(b, s)
  <1>1. PICK p \in Points, n \in 1 .. 4 :
          ~obstructed(b, p) /\ c = Served(b, p, Draws[b.seed][2 * n])
    BY DEF place_food, Points
  <1>2. \A s \in T : p \notin Body(b, s)
    BY <1>1, FreePoint DEF Points, Board
  <1>3. Draws[b.seed][2 * n] \in Seeds
    <2>1. 2 * n \in 0 .. 9
      OBVIOUS
    <2> QED BY <2>1, BoardFields, DrawsFacts DEF Board, Seeds
  <1> QED BY <1>1, <1>2, <1>3

-----------------------------------------------------------------------------
(***************************************************************************)
(* A turn.                                                                 *)
(***************************************************************************)
\* A snake that is not on the screen is taken off the list.
LEMMA FreeTidies ==
    ASSUME NEW T \in SUBSET Ids, NEW b, NEW s \in T, Board(b, T), Fare(b, T),
           Slender(b, T \ {s}), Painted(b, T \ {s}), NEW c, c = free_snake(b, s)
    PROVE  Tidy(c, T \ {s})
  <1>1. b \in Boards(T) /\ Linked(b, T) /\ Apart(b, T)
    BY DEF Board
  <1>2. c \in Boards(T \ {s}) /\ Linked(c, T \ {s}) /\ Survivors(b, c, T \ {s})
    BY <1>1, FreeFacts
  <1>3. SameLook(b, c, T \ {s}) /\ c.food = b.food /\ c.con = b.con
    BY <1>2 DEF Survivors, SameLook
  <1>4. Apart(b, T \ {s})
    BY <1>1 DEF Apart
  <1>5. Apart(c, T \ {s}) /\ \A t \in T \ {s} : Body(c, t) = Body(b, t)
    BY <1>3, <1>4, LooksFacts
  <1>6. Board(c, T \ {s})
    BY <1>2, <1>5 DEF Board
  <1>7. Fare(c, T \ {s})
    BY <1>3, <1>5 DEF Fare
  <1>8. Slender(c, T \ {s})
    BY <1>3 DEF Slender, SameLook
  <1>9. Painted(c, T \ {s})
    BY <1>3, StillPainted
  <1> QED BY <1>6, <1>7, <1>8, <1>9 DEF Tidy

LEMMA LeaveKeeps ==
    ASSUME threads \in SUBSET Ids, hungry \in BOOLEAN, NEW b, NEW s \in threads,
           Board(b, threads), Fare(b, threads),
           Slender(b, threads \ {s}), Painted(b, threads \ {s}), Leave(b, s)
    PROVE  IInv' /\ threads' = threads \ {s} /\ hungry' = hungry /\ g'.endsnake = b.endsnake
  <1>1. g' = free_snake(b, s) /\ threads' = threads \ {s} /\ hungry' = hungry
    BY DEF Leave
  <1>2. Tidy(g', threads \ {s})
    BY <1>1, FreeTidies
  <1>3. Tidy(g, threads)'
    BY <1>1, <1>2 DEF Tidy, Fare
  <1>4. g'.endsnake = b.endsnake
    <2>1. Survivors(b, g', threads \ {s})
      BY <1>1, FreeFacts DEF Board
    <2> QED BY <2>1 DEF Survivors
  <1> QED BY <1>1, <1>3, <1>4 DEF IInv

\* The board without the flag.
LEMMA FlagDown ==
    ASSUME NEW T, NEW b, Tidy(b, T), NEW c, c = [b EXCEPT !.endsnake = FALSE]
    PROVE  Tidy(c, T) /\ c.endsnake = FALSE
  <1>1. b \in Boards(T) /\ Linked(b, T) /\ Apart(b, T)
    BY DEF Tidy, Board
  <1>2. /\ c \in Boards(T) /\ c.endsnake = FALSE /\ c.snake = b.snake
        /\ c.allsnakes = b.allsnakes /\ c.food = b.food /\ c.con = b.con
    BY <1>1 DEF Boards
  <1>3. SameLook(b, c, T)
    BY <1>2 DEF SameLook
  <1>4. \A t \in T : Body(c, t) = Body(b, t)
    BY <1>2 DEF Body
  <1>5. Apart(c, T)
    BY <1>1, <1>4 DEF Apart
  <1>6. Linked(c, T)
    BY <1>1, <1>2, SameList
  <1>7. Painted(c, T)
    BY <1>2, <1>3, StillPainted DEF Tidy
  <1> QED BY <1>2, <1>4, <1>5, <1>6, <1>7 DEF Tidy, Board, Fare, Slender

\* A snake that is erased from a tidy board.
LEMMA Erased ==
    ASSUME NEW T, NEW b, Tidy(b, T), NEW s \in T, NEW c, c = erase_snake(b, s)
    PROVE  /\ SameBoard(b, c) /\ Board(c, T) /\ Fare(c, T) /\ Slender(c, T)
           /\ Painted(c, T \ {s})
  <1>1. b \in Boards(T) /\ Linked(b, T) /\ Apart(b, T) /\ Fare(b, T) /\ Painted(b, T)
    BY DEF Tidy, Board
  <1>2. c \in Boards(T) /\ SameBoard(b, c)
    BY <1>1, EraseFacts
  <1>3. Apart(c, T) /\ Linked(c, T) /\ Fare(c, T) /\ Slender(c, T)
    BY <1>1, <1>2, SameFacts DEF Tidy
  <1>4. \A p \in Points \ Body(b, s) : Right(b, T \ {s}, p)
    BY <1>1, WithoutOne
  <1>5. b.food \notin Body(b, s)
    BY <1>1 DEF Fare
  <1>6. Painted(c, T \ {s})
    BY <1>1, <1>4, <1>5, ErasePaints
  <1> QED BY <1>2, <1>3, <1>6 DEF Board

\* How a turn of s ends for the flag and for the threads.
TurnEnds(flag, s) ==
    \/ flag /\ threads' = threads \ {s} /\ g'.endsnake = FALSE
    \/ ~flag /\ threads' = threads

LEMMA EndOfTurnKeeps ==
    ASSUME threads \in SUBSET Ids, hungry \in BOOLEAN, NEW b, NEW s \in threads,
           Tidy(b, threads), EndOfTurn(b, s)
    PROVE  IInv' /\ hungry' = hungry /\ TurnEnds(b.endsnake, s)
  <1>1. CASE b.endsnake
    <2>1. PICK d : d = [b EXCEPT !.endsnake = FALSE]
      OBVIOUS
    <2>2. Tidy(d, threads) /\ d.endsnake = FALSE
      BY <2>1, FlagDown
    <2>3. PICK c : c = erase_snake(d, s)
      OBVIOUS
    <2>4. /\ SameBoard(d, c) /\ Board(c, threads) /\ Fare(c, threads)
          /\ Slender(c, threads) /\ Painted(c, threads \ {s})
      BY <2>2, <2>3, Erased
    <2>5. Slender(c, threads \ {s}) /\ c.endsnake = FALSE
      BY <2>2, <2>4 DEF Slender, SameBoard
    <2>6. Leave(c, s)
      BY <1>1, <2>1, <2>3 DEF EndOfTurn
    <2>7. IInv' /\ threads' = threads \ {s} /\ hungry' = hungry /\ g'.endsnake = c.endsnake
      BY <2>4, <2>5, <2>6, LeaveKeeps
    <2> QED BY <1>1, <2>5, <2>7 DEF TurnEnds
  <1>2. CASE ~b.endsnake
    <2>1. g' = b /\ threads' = threads /\ hungry' = hungry
      BY <1>2 DEF EndOfTurn, ProcYield
    <2>2. Tidy(g, threads)'
      BY <2>1 DEF Tidy, Fare
    <2> QED BY <1>2, <2>1, <2>2 DEF IInv, TurnEnds
  <1> QED BY <1>1, <1>2

\* A snake has moved and is drawn again; it may have its head on the food.
Arrived(b, c, T, s) ==
    /\ Board(c, T) /\ Slender(c, T) /\ Painted(c, T)
    /\ c.endsnake = b.endsnake /\ c.food = b.food
    /\ \A t \in T : c.snake[t].color = b.snake[t].color
    /\ \A t \in T \ {s} : c.food \notin Body(c, t)
    /\ c.food \in Body(c, s) => onfood(c, s)

LEMMA MoveAndDraw ==
    ASSUME NEW T \in SUBSET Ids, NEW b, Tidy(b, T), NEW s \in T,
           NEW m \in Moves(erase_snake(b, s), s), NEW c, c = draw_snake(m, s)
    PROVE  Arrived(b, c, T, s)
  <1>1. PICK e : e = erase_snake(b, s)
    OBVIOUS
  <1>2. SameBoard(b, e) /\ Board(e, T) /\ Fare(e, T) /\ Slender(e, T) /\ Painted(e, T \ {s})
    BY <1>1, Erased
  <1>3. e \in Boards(T)
    BY <1>2 DEF Board
  <1>4. m \in Moved(e, s, First(e, s)) /\ First(e, s) \in Directions
    BY <1>1, <1>3, FirstFacts DEF Moves
  <1>5. MovedOn(e, m, T, s)
    BY <1>2, <1>4, MoveFacts
  <1>6. /\ Board(m, T) /\ SameLook(e, m, T \ {s})
        /\ m.food = e.food /\ m.endsnake = e.endsnake /\ m.con = e.con
        /\ m.snake[s].color = e.snake[s].color
    BY <1>5 DEF MovedOn
  <1>7. /\ \A t \in T \ {s} : m.food \notin Body(m, t)
        /\ m.food \in Body(m, s) => m.snake[s].body[1] = m.food
    BY <1>2, <1>5 DEF MovedOn, Fare
  <1>8. m \in Boards(T) /\ Linked(m, T) /\ Apart(m, T)
    BY <1>6 DEF Board
  <1>9. Painted(m, T \ {s})
    BY <1>2, <1>6, StillPainted
  <1>10. \A t \in T \ {s} : Body(m, t) \cap Body(m, s) = {}
    BY <1>8 DEF Apart
  <1>11. c \in Boards(T) /\ SameBoard(m, c)
    BY <1>8, DrawFacts
  <1>12. Painted(c, T)
    <2>1. Painted(c, (T \ {s}) \cup {s})
      <3>1. T \ {s} \in SUBSET T
        OBVIOUS
      <3> QED BY <1>8, <1>9, <1>10, <3>1, DrawPaints
    <2>2. (T \ {s}) \cup {s} = T
      OBVIOUS
    <2> QED BY <2>1, <2>2
  <1>13. Board(c, T) /\ \A t : Body(c, t) = Body(m, t)
    BY <1>8, <1>11, SameFacts DEF Board
  <1>14. \A t \in T : m.snake[t].color = b.snake[t].color
    <2>1. \A t \in T : e.snake[t].color = b.snake[t].color
      BY <1>2 DEF SameBoard
    <2> QED BY <1>6, <2>1 DEF SameLook
  <1>15. /\ c.snake = m.snake /\ c.food = b.food /\ c.food = m.food
         /\ c.endsnake = b.endsnake
    BY <1>2, <1>6, <1>11 DEF SameBoard
  <1>16. \A t \in T : c.snake[t].color = b.snake[t].color
    BY <1>14, <1>15
  <1>17. Slender(c, T)
    BY <1>16 DEF Slender, Tidy
  <1>18. c.food \in Body(c, s) => onfood(c, s)
    BY <1>7, <1>13, <1>15 DEF onfood
  <1>19. \A t \in T \ {s} : c.food \notin Body(c, t)
    BY <1>7, <1>13, <1>15
  <1> QED BY <1>12, <1>13, <1>15, <1>16, <1>17, <1>18, <1>19 DEF Arrived

\* A board where s has eaten one more.
OneMore(b, s) == [b EXCEPT !.snake[s].color = @ + 1]

LEMMA Fed ==
    ASSUME NEW T, NEW b \in Boards(T), NEW s \in T, b.snake[s].color \in 1 .. MAX_VISIBLE_SNAKE,
           Linked(b, T), Apart(b, T), NEW c, c = OneMore(b, s)
    PROVE  /\ Board(c, T) /\ SameLook(b, c, T \ {s})
           /\ c.food = b.food /\ c.endsnake = b.endsnake /\ c.con = b.con
           /\ c.snake[s].body = b.snake[s].body
           /\ c.snake[s].color = b.snake[s].color + 1
  <1>1. PICK r \in Records : r = b.snake[s]
    BY RecordFields
  <1>2. PICK q : q = [r EXCEPT !.color = @ + 1]
    OBVIOUS
  <1>3. /\ q \in Records /\ q.body = r.body /\ q.dir = r.dir /\ q.others = r.others
        /\ q.color = r.color + 1
    <2>1. r.color + 1 \in Colors
      BY <1>1, BoardSize DEF Colors
    <2> QED BY <1>2, <2>1 DEF Records
  <1>4. PICK f : f = [b.snake EXCEPT ![s] = q]
    OBVIOUS
  <1>5. b.snake \in [T -> Records]
    BY BoardFields
  <1>6. f \in [T -> Records] /\ f[s] = q /\ \A t \in T \ {s} : f[t] = b.snake[t]
    BY <1>3, <1>4, <1>5
  <1>7. c = [b EXCEPT !.snake = f]
    BY <1>1, <1>2, <1>4, <1>5 DEF Boards, OneMore
  <1>8. /\ c \in Boards(T) /\ c.snake = f /\ c.allsnakes = b.allsnakes
        /\ c.food = b.food /\ c.endsnake = b.endsnake /\ c.con = b.con
    BY <1>6, <1>7 DEF Boards
  <1>9. SameLook(b, c, T \ {s})
    BY <1>6, <1>8 DEF SameLook
  <1>10. \A t \in T : c.snake[t].body = b.snake[t].body
    BY <1>1, <1>3, <1>6, <1>8
  <1>11. Apart(c, T)
    <2>1. \A t \in T : Body(c, t) = Body(b, t)
      BY <1>10 DEF Body
    <2> QED BY <2>1 DEF Apart
  <1>12. Linked(c, T)
    <2>1. \A t \in T : c.snake[t].others = b.snake[t].others
      BY <1>1, <1>3, <1>6, <1>8
    <2> QED BY <1>8, <2>1, SameList
  <1> QED BY <1>1, <1>3, <1>6, <1>8, <1>9, <1>10, <1>11, <1>12 DEF Board

\* A full snake leaves, whatever the flag says.
Full(s) ==
    hungry /\ g.snake[s].color = MAX_VISIBLE_SNAKE /\ threads' = threads \ {s}

LEMMA EatKeeps ==
    ASSUME threads \in SUBSET Ids, hungry = TRUE, NEW b, NEW s \in threads,
           Board(b, threads), Slender(b, threads), Painted(b, threads), onfood(b, s),
           b.snake[s].color = g.snake[s].color, Eat(b, s)
    PROVE  IInv' /\ hungry' = hungry /\ (TurnEnds(b.endsnake, s) \/ Full(s))
  <1>1. PICK o \in place_food(b) :
          LET fed == erase_snake([draw_food(o) EXCEPT !.snake[s].color = @ + 1], s)
          IN  IF fed.snake[s].color > MAX_VISIBLE_SNAKE THEN Leave(fed, s)
              ELSE EndOfTurn(draw_snake(fed, s), s)
    BY DEF Eat
  <1>2. b \in Boards(threads) /\ Linked(b, threads) /\ Apart(b, threads)
    BY DEF Board
  <1>3. PICK p \in Points, e \in Seeds :
          o = Served(b, p, e) /\ \A t \in threads : p \notin Body(b, t)
    BY PlacedFacts
  <1>4. PICK d : d = draw_food(o)
    OBVIOUS
  <1>5. b.food \in Body(b, s)
    <2>1. b.snake[s].body[1] \in Body(b, s)
      BY <1>2, BodyFacts
    <2> QED BY <2>1 DEF onfood
  <1>6. /\ d \in Boards(threads) /\ Painted(d, threads)
        /\ d.snake = b.snake /\ d.allsnakes = b.allsnakes /\ d.food = p
        /\ d.endsnake = b.endsnake
    BY <1>2, <1>3, <1>4, <1>5, FoodPaints
  <1>7. SameLook(b, d, threads)
    BY <1>6 DEF SameLook
  <1>8. Apart(d, threads) /\ \A t \in threads : Body(d, t) = Body(b, t)
    BY <1>2, <1>7, LooksFacts
  <1>9. Linked(d, threads)
    BY <1>2, <1>6, SameList
  <1>10. d.snake[s].color \in 1 .. MAX_VISIBLE_SNAKE /\ d.snake[s].color = g.snake[s].color
    BY <1>6 DEF Slender
  <1>11. PICK w : w = OneMore(d, s)
    OBVIOUS
  <1>12. /\ Board(w, threads) /\ SameLook(d, w, threads \ {s})
         /\ w.food = d.food /\ w.endsnake = d.endsnake /\ w.con = d.con
         /\ w.snake[s].body = d.snake[s].body
         /\ w.snake[s].color = d.snake[s].color + 1
    BY <1>6, <1>8, <1>9, <1>10, <1>11, Fed
  <1>13. w \in Boards(threads) /\ Apart(w, threads)
    BY <1>12 DEF Board
  <1>14. \A t \in threads : Body(w, t) = Body(b, t)
    <2>1. Body(w, s) = Body(d, s)
      BY <1>12 DEF Body
    <2>2. \A t \in threads \ {s} : Body(w, t) = Body(d, t)
      BY <1>12, LooksFacts
    <2> QED BY <1>8, <2>1, <2>2
  <1>15. \A q \in Points \ Body(w, s) : Right(w, threads \ {s}, q)
    <2>1. \A q \in Points \ Body(d, s) : Right(d, threads \ {s}, q)
      BY <1>6, WithoutOne
    <2> QED BY <1>8, <1>12, <1>14, <2>1, StillRight
  <1>16. Fare(w, threads)
    BY <1>3, <1>6, <1>12, <1>14 DEF Fare
  <1>17. Slender(w, threads \ {s})
    BY <1>6, <1>12 DEF Slender, SameLook
  <1>18. PICK fed : fed = erase_snake(w, s)
    OBVIOUS
  <1>19. /\ fed \in Boards(threads) /\ SameBoard(w, fed)
    BY <1>13, <1>18, EraseFacts
  <1>20. Painted(fed, threads \ {s})
    <2>1. w.food \notin Body(w, s)
      BY <1>16 DEF Fare
    <2> QED BY <1>13, <1>15, <1>18, <2>1, ErasePaints
  <1>21. Board(fed, threads) /\ Fare(fed, threads) /\ Slender(fed, threads \ {s})
    BY <1>12, <1>16, <1>17, <1>19, SameFacts DEF Board
  <1>22. fed.snake = w.snake /\ fed.endsnake = b.endsnake
    BY <1>6, <1>12, <1>19 DEF SameBoard
  <1>23. IF fed.snake[s].color > MAX_VISIBLE_SNAKE THEN Leave(fed, s)
         ELSE EndOfTurn(draw_snake(fed, s), s)
    BY <1>1, <1>4, <1>11, <1>18 DEF OneMore
  <1>24. PICK k \in Nat :
            /\ k = g.snake[s].color /\ k \in 1 .. MAX_VISIBLE_SNAKE
            /\ fed.snake[s].color = k + 1
    BY <1>10, <1>12, <1>22
  <1>25. CASE k + 1 > MAX_VISIBLE_SNAKE
    <2>1. Leave(fed, s)
      BY <1>23, <1>24, <1>25
    <2>2. IInv' /\ threads' = threads \ {s} /\ hungry' = hungry
      BY <1>20, <1>21, <2>1, LeaveKeeps
    <2>3. k = MAX_VISIBLE_SNAKE
      BY <1>24, <1>25, BoardSize
    <2> QED BY <1>24, <2>2, <2>3 DEF Full
  <1>26. CASE ~ (k + 1 > MAX_VISIBLE_SNAKE)
    <2>1. PICK c : c = draw_snake(fed, s)
      OBVIOUS
    <2>2. c \in Boards(threads) /\ SameBoard(fed, c)
      BY <1>19, <2>1, DrawFacts
    <2>3. Painted(c, threads)
      <3>1. Painted(c, (threads \ {s}) \cup {s})
        <4>1. threads \ {s} \in SUBSET threads
          OBVIOUS
        <4>2. \A t \in threads \ {s} : Body(fed, t) \cap Body(fed, s) = {}
          BY <1>21 DEF Board, Apart
        <4> QED BY <1>19, <1>20, <2>1, <4>1, <4>2, DrawPaints
      <3>2. (threads \ {s}) \cup {s} = threads
        OBVIOUS
      <3> QED BY <3>1, <3>2
    <2>4. Board(c, threads) /\ Fare(c, threads)
      BY <1>21, <2>2, SameFacts DEF Board
    <2>5. Slender(c, threads)
      <3>1. c.snake = fed.snake /\ fed.snake[s].color \in 1 .. MAX_VISIBLE_SNAKE
        BY <1>24, <1>26, <2>2, BoardSize DEF SameBoard
      <3> QED BY <1>21, <3>1 DEF Slender
    <2>6. EndOfTurn(c, s)
      BY <1>23, <1>24, <1>26, <2>1
    <2>7. c.endsnake = b.endsnake
      BY <1>22, <2>2 DEF SameBoard
    <2> QED BY <2>3, <2>4, <2>5, <2>6, <2>7, EndOfTurnKeeps DEF Tidy
  <1> QED BY <1>25, <1>26

\* The two ways a turn ends, or the snake is full.
Ending(s) == TurnEnds(g.endsnake, s) \/ Full(s)

\* The first hungry snake finds no food and places it.
LEMMA FirstServed ==
    ASSUME IInv, NEW o \in place_food(g), g.food = NoFood, hungry = TRUE, NEW b, b = draw_food(o)
    PROVE  Tidy(b, threads) /\ b.endsnake = g.endsnake /\ b.snake = g.snake /\ b.food \in Points
  <1>1. /\ g \in Boards(threads) /\ Linked(g, threads) /\ Apart(g, threads)
        /\ Board(g, threads) /\ Painted(g, threads) /\ Slender(g, threads)
        /\ threads \in SUBSET Ids
    BY DEF IInv, Tidy, Board
  <1>2. PICK p \in Points, e \in Seeds :
          o = Served(g, p, e) /\ \A t \in threads : p \notin Body(g, t)
    BY <1>1, PlacedFacts
  <1>3. /\ b \in Boards(threads) /\ Painted(b, threads)
        /\ b.snake = g.snake /\ b.allsnakes = g.allsnakes /\ b.food = p
        /\ b.endsnake = g.endsnake
    BY <1>1, <1>2, FoodPaints
  <1>4. SameLook(g, b, threads)
    BY <1>3 DEF SameLook
  <1>5. Apart(b, threads) /\ \A t \in threads : Body(b, t) = Body(g, t)
    BY <1>1, <1>4, LooksFacts
  <1>6. Linked(b, threads)
    BY <1>1, <1>3, SameList
  <1>7. Fare(b, threads)
    BY <1>2, <1>3, <1>5 DEF Fare
  <1>8. Slender(b, threads)
    BY <1>1, <1>3 DEF Slender
  <1> QED BY <1>3, <1>5, <1>6, <1>7, <1>8 DEF Tidy, Board

LEMMA HungryKeeps ==
    ASSUME IInv, NEW s \in Ids, run_hungry_snake(s)
    PROVE  IInv' /\ s \in threads /\ hungry' = hungry /\ Ending(s)
  <1>1. hungry = TRUE /\ s \in threads
    BY DEF IInv, run_hungry_snake
  <1>2. PICK b \in IF g.food = NoFood THEN {draw_food(p) : p \in place_food(g)} ELSE {g} :
          \E moved \in Moves(erase_snake(b, s), s) :
             LET drawn == draw_snake(moved, s)
             IN  IF onfood(drawn, s) THEN Eat(drawn, s) ELSE EndOfTurn(drawn, s)
    BY DEF run_hungry_snake
  <1>3. PICK m \in Moves(erase_snake(b, s), s) :
          LET drawn == draw_snake(m, s)
          IN  IF onfood(drawn, s) THEN Eat(drawn, s) ELSE EndOfTurn(drawn, s)
    BY <1>2
  <1>4. Tidy(b, threads) /\ b.endsnake = g.endsnake /\ b.snake = g.snake
    <2>1. CASE g.food = NoFood
      <3>1. PICK o \in place_food(g) : b = draw_food(o)
        BY <2>1
      <3> QED BY <1>1, <2>1, <3>1, FirstServed
    <2>2. CASE g.food # NoFood
      BY <2>2 DEF IInv
    <2> QED BY <2>1, <2>2
  <1>5. threads \in SUBSET Ids /\ hungry \in BOOLEAN
    BY DEF IInv
  <1>6. PICK c : c = draw_snake(m, s)
    OBVIOUS
  <1>7. /\ Board(c, threads) /\ Slender(c, threads) /\ Painted(c, threads)
        /\ c.endsnake = b.endsnake /\ c.food = b.food
        /\ \A t \in threads : c.snake[t].color = b.snake[t].color
        /\ \A t \in threads \ {s} : c.food \notin Body(c, t)
        /\ c.food \in Body(c, s) => onfood(c, s)
    <2>1. Arrived(b, c, threads, s)
      BY <1>1, <1>3, <1>4, <1>5, <1>6, MoveAndDraw
    <2> QED BY <2>1 DEF Arrived
  <1>8. CASE onfood(c, s)
    <2>1. Eat(c, s)
      BY <1>3, <1>6, <1>8
    <2>2. c.snake[s].color = g.snake[s].color
      BY <1>1, <1>4, <1>7
    <2> QED BY <1>1, <1>4, <1>5, <1>7, <1>8, <2>1, <2>2, EatKeeps DEF Ending
  <1>9. CASE ~onfood(c, s)
    <2>1. EndOfTurn(c, s)
      BY <1>3, <1>6, <1>9
    <2>2. Fare(c, threads)
      BY <1>1, <1>7, <1>9 DEF Fare
    <2>3. Tidy(c, threads)
      BY <1>7, <2>2 DEF Tidy
    <2> QED BY <1>1, <1>4, <1>5, <1>7, <2>1, <2>3, EndOfTurnKeeps DEF Ending
  <1> QED BY <1>8, <1>9

LEMMA SnakeKeeps ==
    ASSUME IInv, NEW s \in Ids, run_snake(s)
    PROVE  IInv' /\ s \in threads /\ hungry' = hungry /\ Ending(s)
  <1>1. ~hungry /\ s \in threads /\ threads \in SUBSET Ids /\ hungry \in BOOLEAN
    BY DEF IInv, run_snake
  <1>2. PICK m \in Moves(erase_snake(g, s), s) : EndOfTurn(draw_snake(m, s), s)
    BY DEF run_snake
  <1>3. PICK c : c = draw_snake(m, s)
    OBVIOUS
  <1>4. Tidy(g, threads) /\ g.food = NoFood
    BY <1>1 DEF IInv, Tidy, Fare
  <1>5. /\ Board(c, threads) /\ Slender(c, threads) /\ Painted(c, threads)
        /\ c.endsnake = g.endsnake /\ c.food = g.food
    <2>1. Arrived(g, c, threads, s)
      BY <1>1, <1>2, <1>3, <1>4, MoveAndDraw
    <2> QED BY <2>1 DEF Arrived
  <1>6. Fare(c, threads)
    <2>1. ASSUME NEW t \in threads PROVE c.food \notin Body(c, t)
      <3>1. Body(c, t) \subseteq Points
        BY <1>5, BodyFacts DEF Board
      <3> QED BY <1>4, <1>5, <3>1, PointsAreOnBoard
    <2> QED BY <1>4, <1>5, <2>1 DEF Fare
  <1>7. Tidy(c, threads) /\ EndOfTurn(c, s)
    BY <1>2, <1>3, <1>5, <1>6 DEF Tidy
  <1> QED BY <1>1, <1>5, <1>7, EndOfTurnKeeps DEF Ending

LEMMA KillKeeps ==
    ASSUME IInv, kill_snake
    PROVE  IInv' /\ threads' = threads /\ (g.endsnake => UNCHANGED vars)
  <1>1. g' = [g EXCEPT !.endsnake = TRUE] /\ threads' = threads /\ hungry' = hungry
    BY DEF kill_snake
  <1>2. g \in Boards(threads) /\ Linked(g, threads) /\ Apart(g, threads)
    BY DEF IInv, Tidy, Board
  <1>3. /\ g' \in Boards(threads) /\ g'.snake = g.snake
        /\ g'.allsnakes = g.allsnakes /\ g'.food = g.food /\ g'.con = g.con
    BY <1>1, <1>2 DEF Boards
  <1>4. g.endsnake => g' = g
    BY <1>1, <1>2 DEF Boards
  <1>5. SameLook(g, g', threads)
    BY <1>3 DEF SameLook
  <1>6. Apart(g', threads) /\ \A t \in threads : Body(g', t) = Body(g, t)
    BY <1>2, <1>5, LooksFacts
  <1>7. Linked(g', threads)
    BY <1>2, <1>3, SameList
  <1>8. Painted(g', threads)
    BY <1>3, <1>5, StillPainted DEF IInv, Tidy
  <1>9. Fare(g', threads) /\ Slender(g', threads)
    BY <1>3, <1>6 DEF IInv, Tidy, Fare, Slender
  <1>10. Tidy(g, threads)'
    BY <1>1, <1>3, <1>6, <1>7, <1>8, <1>9 DEF Tidy, Board, Fare
  <1> QED BY <1>1, <1>4, <1>10 DEF IInv, vars

\* What somebody else stores in a cell does not change what the others show.
LEMMA OverwriteKeeps ==
    ASSUME IInv, Overwrite
    PROVE  IInv' /\ UNCHANGED game
  <1>1. threads' = threads /\ hungry' = hungry
    BY DEF Overwrite
  <1>2. g \in Boards(threads) /\ Linked(g, threads) /\ Apart(g, threads)
    BY DEF IInv, Tidy, Board
  <1>3. PICK c \in Cells : g' = [g EXCEPT !.con.cell[c] = Scrawl]
    BY DEF Overwrite
  <1>4. PICK w : w = [g.con EXCEPT !.cell[c] = Scrawl]
    OBVIOUS
  <1>5. w \in Screens /\ \A q \in Cells : w.cell[q] = IF q = c THEN Scrawl ELSE g.con.cell[q]
    <2>1. g.con \in Screens
      BY <1>2, BoardFields
    <2>2. Scrawl \in Glyphs
      BY DEF Glyphs
    <2> QED BY <1>4, <2>1, <2>2 DEF Screens
  <1>6. g' = [g EXCEPT !.con = w]
    BY <1>2, <1>3, <1>4 DEF Boards
  <1>7. g' \in Boards(threads) /\ SameBoard(g, g') /\ g'.con = w
    BY <1>2, <1>5, <1>6 DEF Boards, SameBoard
  <1>8. /\ Apart(g', threads) /\ Linked(g', threads) /\ Slender(g', threads)
        /\ Fare(g', threads)
        /\ \A s : Body(g', s) = Body(g, s) /\ \A p : Look(g', s, p) = Look(g, s, p)
    BY <1>2, <1>7, SameFacts DEF IInv, Tidy
  <1>9. ASSUME NEW p \in Points PROVE Right(g', threads, p)
    <2>1. At(p) \in Cells
      BY CellOfPoint
    <2>2. CASE At(p) = c
      BY <1>5, <1>7, <2>1, <2>2 DEF Right
    <2>3. CASE At(p) # c
      <3>1. g'.con.cell[At(p)] = g.con.cell[At(p)] /\ g'.food = g.food
        BY <1>5, <1>7, <2>1, <2>3 DEF SameBoard
      <3>2. Right(g, threads, p)
        BY DEF IInv, Tidy, Painted
      <3> QED BY <1>8, <3>1, <3>2 DEF Right
    <2> QED BY <2>2, <2>3
  <1>10. Painted(g', threads)
    BY <1>9 DEF Painted
  <1>11. Tidy(g, threads)'
    BY <1>1, <1>7, <1>8, <1>10 DEF Tidy, Board, Fare
  <1> QED BY <1>1, <1>7, <1>11 DEF IInv, game, SameBoard

LEMMA NextKeeps == IInv /\ [Next]_vars => IInv'
  <1>1. ASSUME IInv, NEW s \in Ids, run_hungry_snake(s) PROVE IInv'
    BY <1>1, HungryKeeps
  <1>2. ASSUME IInv, NEW s \in Ids, run_snake(s) PROVE IInv'
    BY <1>2, SnakeKeeps
  <1>3. ASSUME IInv, kill_snake PROVE IInv'
    BY <1>3, KillKeeps
  <1>4. ASSUME IInv, Overwrite PROVE IInv'
    BY <1>4, OverwriteKeeps
  <1>5. ASSUME IInv, UNCHANGED vars PROVE IInv'
    BY <1>5 DEF IInv, Tidy, Fare, vars
  <1> QED BY <1>1, <1>2, <1>3, <1>4, <1>5 DEF Next

-----------------------------------------------------------------------------
(***************************************************************************)
(* The start.  All snakes are drawn by a fold: its values, one by one.     *)
(***************************************************************************)
Folds(h, b, n, G) ==
    \A s \in SUBSET (1 .. n) : h[s] = IF s = {} THEN b ELSE G[Max(s)][h[s \ {Max(s)}]]

LEMMA Folding ==
    ASSUME NEW M, NEW b \in M, NEW n \in Nat, NEW G \in [1 .. n -> [M -> M]]
    PROVE  \E h \in [SUBSET (1 .. n) -> M] : Folds(h, b, n, G)
  <1> DEFINE Good(k, h) ==
               \A s \in SUBSET (1 .. k) : h[s] = IF s = {} THEN b ELSE G[Max(s)][h[s \ {Max(s)}]]
             S == {k \in 0 .. n : \E h \in [SUBSET (1 .. k) -> M] : Good(k, h)}
  <1>1. 0 \in S
    <2>1. PICK h : h = [s \in SUBSET (1 .. 0) |-> b]
      OBVIOUS
    <2>2. h \in [SUBSET (1 .. 0) -> M] /\ \A s \in SUBSET (1 .. 0) : s = {} /\ h[s] = b
      BY <2>1
    <2>3. Good(0, h)
      BY <2>2
    <2> HIDE DEF Good
    <2>4. \E f \in [SUBSET (1 .. 0) -> M] : Good(0, f)
      BY <2>2, <2>3, Zenon
    <2>5. 0 \in 0 .. n
      OBVIOUS
    <2> QED BY <2>4, <2>5, Zenon
  <1>2. ASSUME NEW k \in 0 .. n, k + 1 \in 0 .. n, k \in S PROVE k + 1 \in S
    <2>1. PICK h \in [SUBSET (1 .. k) -> M] : Good(k, h)
      BY <1>2
    <2>2. /\ 1 .. k \subseteq 1 .. k + 1 /\ k + 1 \in 1 .. n
          /\ \A s \in SUBSET (1 .. k + 1) : s \ {k + 1} \in SUBSET (1 .. k)
          /\ \A s \in SUBSET (1 .. k) : k + 1 \notin s
          /\ \A s \in SUBSET (1 .. k + 1) : k + 1 \notin s => s \in SUBSET (1 .. k)
      BY <1>2
    <2>3. PICK f : f = [s \in SUBSET (1 .. k + 1) |->
                          IF k + 1 \in s THEN G[k + 1][h[s \ {k + 1}]] ELSE h[s]]
      OBVIOUS
    <2>4. f \in [SUBSET (1 .. k + 1) -> M]
      <3>1. ASSUME NEW s \in SUBSET (1 .. k + 1)
            PROVE  (IF k + 1 \in s THEN G[k + 1][h[s \ {k + 1}]] ELSE h[s]) \in M
        <4>1. CASE k + 1 \in s
          <5>1. h[s \ {k + 1}] \in M
            BY <2>1, <2>2
          <5> QED BY <2>2, <4>1, <5>1
        <4>2. CASE k + 1 \notin s
          BY <2>1, <2>2, <4>2
        <4> QED BY <4>1, <4>2
      <3> QED BY <2>3, <3>1
    <2>5. ASSUME NEW s \in SUBSET (1 .. k + 1)
          PROVE  f[s] = IF s = {} THEN b ELSE G[Max(s)][f[s \ {Max(s)}]]
      <3>1. CASE k + 1 \in s
        <4>1. \A x \in s : k + 1 >= x
          BY <1>2
        <4>2. Max(s) = k + 1
          <5>1. \A x \in s : (\A y \in s : x >= y) => x = k + 1
            BY <1>2, <3>1
          <5> QED BY <3>1, <4>1, <5>1 DEF Max
        <4>3. s \ {k + 1} \in SUBSET (1 .. k + 1) /\ f[s \ {k + 1}] = h[s \ {k + 1}]
          BY <2>2, <2>3
        <4> QED BY <2>3, <3>1, <4>2, <4>3
      <3>2. CASE k + 1 \notin s
        <4>1. s \in SUBSET (1 .. k) /\ s \ {Max(s)} \in SUBSET (1 .. k)
          BY <2>2, <3>2
        <4>2. s \ {Max(s)} \in SUBSET (1 .. k + 1) /\ k + 1 \notin s \ {Max(s)}
          BY <2>2, <4>1
        <4>3. f[s] = h[s] /\ f[s \ {Max(s)}] = h[s \ {Max(s)}]
          BY <2>3, <3>2, <4>2
        <4> QED BY <2>1, <4>1, <4>3
      <3> QED BY <3>1, <3>2
    <2>6. Good(k + 1, f)
      BY <2>5
    <2> QED BY <1>2, <2>4, <2>6
  <1>3. n \in S
    <2> HIDE DEF S
    <2>1. \A k \in 0 .. n : k \in S
      BY <1>1, <1>2, Upward
    <2> QED BY <2>1
  <1> QED BY <1>3 DEF Folds

LEMMA Largest ==
    ASSUME NEW n \in Nat, NEW s \in SUBSET (1 .. n), s # {}
    PROVE  Max(s) \in s
  <1>1. SUFFICES ASSUME \A x \in s : \E y \in s : ~ (x >= y) PROVE FALSE
    BY DEF Max
  <1> DEFINE S == {i \in 0 .. n : \E y \in s : y >= i}
  <1>2. 0 \in S
    <2>1. PICK y \in s : y \in 1 .. n
      OBVIOUS
    <2>2. y >= 0 /\ 0 \in 0 .. n
      BY <2>1
    <2> QED BY <2>2
  <1>3. ASSUME NEW i \in 0 .. n, i + 1 \in 0 .. n, i \in S PROVE i + 1 \in S
    <2>1. PICK y \in s : y >= i
      BY <1>3
    <2>2. PICK z \in s : ~ (y >= z)
      BY <1>1
    <2>3. z >= i + 1
      BY <2>1, <2>2
    <2> QED BY <1>3, <2>3
  <1>4. n \in S
    <2> HIDE DEF S
    <2>1. \A i \in 0 .. n : i \in S
      BY <1>2, <1>3, Upward
    <2> QED BY <2>1
  <1>5. PICK y \in s : y >= n
    BY <1>4
  <1> QED BY <1>1, <1>5

LEMMA Intervals ==
    ASSUME NEW n \in Nat, NEW i \in 1 .. n
    PROVE  /\ 1 .. i \in SUBSET (1 .. n) /\ 1 .. i # {} /\ Max(1 .. i) = i
           /\ (1 .. i) \ {i} = 1 .. i - 1
  <1>1. 1 .. i \in SUBSET (1 .. n) /\ i \in 1 .. i /\ (1 .. i) \ {i} = 1 .. i - 1
    OBVIOUS
  <1>2. Max(1 .. i) = i
    <2>1. \A x \in 1 .. i : (\A y \in 1 .. i : x >= y) => x = i
      OBVIOUS
    <2>2. \A y \in 1 .. i : i >= y
      OBVIOUS
    <2> QED BY <1>1, <2>1, <2>2 DEF Max
  <1> QED BY <1>1, <1>2

\* The values of a fold h on the intervals from 1 up.
Climbs(h, b, n, M, G) ==
    h[{}] = b /\ \A i \in 1 .. n : h[1 .. i - 1] \in M => h[1 .. i] = G[i][h[1 .. i - 1]]

Chained(f, b, n, e, G) == f[0] = b /\ f[n] = e /\ \A i \in 1 .. n : f[i] = G[i][f[i - 1]]

LEMMA Chain ==
    ASSUME NEW M, NEW b \in M, NEW n \in Nat, NEW G \in [1 .. n -> [M -> M]], NEW h,
           Climbs(h, b, n, M, G)
    PROVE  \E f \in [0 .. n -> M] : Chained(f, b, n, h[1 .. n], G)
  <1>1. PICK f : f = [i \in 0 .. n |-> h[1 .. i]]
    OBVIOUS
  <1>2. f[0] = b /\ f[n] = h[1 .. n] /\ f = [i \in 0 .. n |-> f[i]]
    <2>1. 1 .. 0 = {}
      OBVIOUS
    <2>2. f[0] = h[1 .. 0] /\ f[n] = h[1 .. n] /\ f = [i \in 0 .. n |-> f[i]]
      BY <1>1
    <2> QED BY <2>1, <2>2 DEF Climbs
  <1>3. ASSUME NEW i \in 1 .. n, f[i - 1] \in M PROVE f[i] = G[i][f[i - 1]]
    <2>1. i - 1 \in 0 .. n /\ i \in 0 .. n
      OBVIOUS
    <2> QED BY <1>1, <1>3, <2>1 DEF Climbs
  <1>4. \A i \in 0 .. n : f[i] \in M
    <2> DEFINE S == {i \in 0 .. n : f[i] \in M}
    <2>1. 0 \in S
      BY <1>2
    <2>2. ASSUME NEW i \in 0 .. n, i + 1 \in 0 .. n, i \in S PROVE i + 1 \in S
      <3>1. i + 1 \in 1 .. n /\ (i + 1) - 1 = i
        BY <2>2
      <3>2. f[i + 1] = G[i + 1][f[i]]
        BY <1>3, <2>2, <3>1
      <3> QED BY <2>2, <3>1, <3>2
    <2>3. \A i \in 0 .. n : i \in S
      <3> HIDE DEF S
      <3> QED BY <2>1, <2>2, Upward
    <2> QED BY <2>3
  <1>5. f \in [0 .. n -> M]
    BY <1>2, <1>4
  <1>6. \A i \in 1 .. n : f[i] = G[i][f[i - 1]]
    BY <1>3, <1>4
  <1> QED BY <1>2, <1>5, <1>6 DEF Chained

InOrder(b, L) == FoldLeft(draw_snake, b, L)

LEMMA DrawnChain ==
    ASSUME NEW T, NEW m \in Boards(T), NEW n \in Nat, NEW L \in [1 .. n -> T]
    PROVE  \E f \in [0 .. n -> Boards(T)] :
              /\ f[0] = m /\ f[n] = InOrder(m, L)
              /\ \A i \in 1 .. n : f[i] = draw_snake(f[i - 1], L[i])
  <1>1. PICK G : G = [i \in 1 .. n |-> [w \in Boards(T) |-> draw_snake(w, L[i])]]
    OBVIOUS
  <1>2. G \in [1 .. n -> [Boards(T) -> Boards(T)]]
    <2>1. ASSUME NEW i \in 1 .. n, NEW w \in Boards(T) PROVE draw_snake(w, L[i]) \in Boards(T)
      <3>1. L[i] \in T
        OBVIOUS
      <3> QED BY <3>1, DrawFacts
    <2> QED BY <1>1, <2>1
  <1>3. \A i \in 1 .. n, w \in Boards(T) : G[i][w] = draw_snake(w, L[i])
    BY <1>1
  <1> DEFINE Fold(h) == h = [s \in SUBSET (1 .. n) |->
                               IF s = {} THEN m ELSE draw_snake(h[s \ {Max(s)}], L[Max(s)])]
  <1>4. \E h : Fold(h)
    <2>1. PICK h \in [SUBSET (1 .. n) -> Boards(T)] : Folds(h, m, n, G)
      BY <1>2, Folding
    <2>2. h = [s \in SUBSET (1 .. n) |-> h[s]]
      OBVIOUS
    <2>3. ASSUME NEW s \in SUBSET (1 .. n)
          PROVE  h[s] = IF s = {} THEN m ELSE draw_snake(h[s \ {Max(s)}], L[Max(s)])
      <3>1. CASE s = {}
        BY <2>1, <3>1 DEF Folds
      <3>2. CASE s # {}
        <4>1. Max(s) \in 1 .. n
          BY <3>2, Largest
        <4>2. s \ {Max(s)} \in SUBSET (1 .. n)
          OBVIOUS
        <4> QED BY <1>3, <2>1, <3>2, <4>1, <4>2 DEF Folds
      <3> QED BY <3>1, <3>2
    <2>4. Fold(h)
      BY <2>2, <2>3
    <2> QED BY <2>4
  <1>5. PICK h : Fold(h) /\ InOrder(m, L) = h[1 .. n]
    <2>1. Fold(CHOOSE h : Fold(h))
      BY <1>4
    <2>2. InOrder(m, L) = (CHOOSE h : Fold(h))[1 .. n]
      BY DEF InOrder, FoldLeft, MapThenFoldSet
    <2> QED BY <2>1, <2>2
  <1>6. h[{}] = m
    BY <1>5
  <1>7. ASSUME NEW i \in 1 .. n PROVE h[1 .. i] = draw_snake(h[1 .. i - 1], L[i])
    <2>1. PICK s \in SUBSET (1 .. n) : s = 1 .. i /\ s # {} /\ Max(s) = i /\ s \ {i} = 1 .. i - 1
      BY Intervals
    <2>2. h[s] = draw_snake(h[s \ {Max(s)}], L[Max(s)])
      BY <1>5, <2>1
    <2> QED BY <2>1, <2>2
  <1>8. Climbs(h, m, n, Boards(T), G)
    BY <1>3, <1>6, <1>7 DEF Climbs
  <1>9. PICK f \in [0 .. n -> Boards(T)] :
          f[0] = m /\ f[n] = h[1 .. n] /\ \A i \in 1 .. n : f[i] = G[i][f[i - 1]]
    <2>1. \E f \in [0 .. n -> Boards(T)] : Chained(f, m, n, h[1 .. n], G)
      BY <1>2, <1>8, Chain
    <2> QED BY <2>1 DEF Chained
  <1>10. \A i \in 1 .. n : f[i] = draw_snake(f[i - 1], L[i])
    <2>1. \A i \in 1 .. n : f[i - 1] \in Boards(T)
      <3>1. \A i \in 1 .. n : i - 1 \in 0 .. n
        OBVIOUS
      <3> QED BY <3>1
    <2> QED BY <1>3, <1>9, <2>1
  <1> QED BY <1>5, <1>9, <1>10

\* A cell of a body behind the one at p.
Behind(a, p) ==
    [x |-> limit(p.x - deltaX[a.dir + 1], cols - 1), y |-> limit(p.y - deltaY[a.dir + 1], rows - 1)]

LEMMA Limited ==
    ASSUME NEW x \in Int, NEW y \in Int
    PROVE  [x |-> limit(x, cols - 1), y |-> limit(y, rows - 1)] \in Points
  <1>1. cols - 1 \in Nat /\ rows - 1 \in Nat
    BY BoardSize
  <1>2. limit(x, cols - 1) \in 0 .. cols - 1 /\ limit(y, rows - 1) \in 0 .. rows - 1
    BY <1>1 DEF limit
  <1> QED BY <1>2 DEF Points

LEMMA CoiledFacts ==
    ASSUME NEW a \in Starts
    PROVE  a.len \in Nat \ {0} /\ Coiled(a) \in [1 .. a.len -> Points]
  <1>1. PICK n \in Nat, u \in Int, v \in Int, d \in Directions :
          n + 1 = a.len /\ u = a.x /\ v = a.y /\ d = a.dir
    <2>1. a.len - 1 \in Nat /\ (a.len - 1) + 1 = a.len /\ a.x \in Int /\ a.y \in Int
      BY DEF Starts
    <2>2. a.dir \in Directions
      BY DEF Starts, Directions, NUMDIRS
    <2> QED BY <2>1, <2>2
  <1>2. ASSUME NEW p \in Points PROVE Behind(a, p) \in Points
    <2>1. d + 1 \in 1 .. 8
      BY DEF Directions, NUMDIRS
    <2>2. \A i \in 1 .. 8 : deltaX[i] \in Int
      BY DEF deltaX
    <2>3. \A i \in 1 .. 8 : deltaY[i] \in Int
      BY DEF deltaY
    <2>4. PICK i \in Int, j \in Int : i = deltaX[d + 1] /\ j = deltaY[d + 1]
      BY <2>1, <2>2, <2>3
    <2>5. p.x \in Int /\ p.y \in Int
      BY BoardSize DEF Points
    <2>6. p.x - i \in Int /\ p.y - j \in Int
      BY <2>4, <2>5
    <2>7. Behind(a, p) = [x |-> limit(p.x - i, cols - 1), y |-> limit(p.y - j, rows - 1)]
      BY <1>1, <2>4 DEF Behind
    <2> QED BY <2>6, <2>7, Limited
  <1>3. PICK at \in Points : at = [x |-> limit(a.x, cols - 1), y |-> limit(a.y, rows - 1)]
    BY <1>1, Limited
  <1> DEFINE Good(w) == w = [i \in 1 .. a.len |-> IF i = 1 THEN at ELSE Behind(a, w[i - 1])]
  <1>4. \E w : Good(w)
    <2>1. PICK F : F = [p \in Points |-> Behind(a, p)]
      OBVIOUS
    <2>2. F \in [Points -> Points]
      BY <1>2, <2>1
    <2>3. PICK f \in [0 .. n -> Points] : Iterates(f, n, at, F)
      BY <2>2, Iterated
    <2>4. PICK w : w = [i \in 1 .. n + 1 |-> f[i - 1]]
      OBVIOUS
    <2>5. \A i \in 1 .. n + 1 : i - 1 \in 0 .. n /\ w[i] = f[i - 1]
      BY <2>4
    <2>6. w[1] = at
      BY <2>3, <2>5 DEF Iterates
    <2>7. ASSUME NEW i \in 1 .. n + 1, i # 1 PROVE w[i] = Behind(a, w[i - 1])
      <3>1. i - 1 \in 1 .. n /\ i - 1 \in 1 .. n + 1 /\ (i - 1) - 1 \in 0 .. n
        BY <2>7
      <3>2. f[i - 1] = F[f[(i - 1) - 1]]
        BY <2>3, <3>1 DEF Iterates
      <3>3. w[i - 1] = f[(i - 1) - 1] /\ w[i] = f[i - 1] /\ f[(i - 1) - 1] \in Points
        BY <2>3, <2>5, <3>1
      <3> QED BY <2>1, <3>2, <3>3
    <2>8. w = [i \in 1 .. n + 1 |-> w[i]]
      BY <2>4, <2>5
    <2>9. w = [i \in 1 .. n + 1 |-> IF i = 1 THEN at ELSE Behind(a, w[i - 1])]
      BY <2>6, <2>7, <2>8
    <2> QED BY <1>1, <2>9
  <1>5. PICK w : w = Coiled(a) /\ Good(w)
    <2>1. Coiled(a) = CHOOSE w : Good(w)
      BY <1>3 DEF Coiled, Behind
    <2> HIDE DEF Good
    <2> QED BY <1>4, <2>1
  <1>6. /\ w = [i \in 1 .. n + 1 |-> w[i]] /\ w[1] = at
        /\ \A i \in 1 .. n + 1 : i # 1 => w[i] = Behind(a, w[i - 1])
    BY <1>1, <1>5
  <1>7. ASSUME NEW m \in 1 .. n + 1 PROVE w[m] \in Points
    <2> DEFINE S == {i \in 0 .. n : w[i + 1] \in Points}
    <2>1. 0 \in S
      BY <1>6
    <2>2. ASSUME NEW i \in 0 .. n, i + 1 \in 0 .. n, i \in S PROVE i + 1 \in S
      <3>1. (i + 1) + 1 \in 1 .. n + 1 /\ (i + 1) + 1 # 1 /\ ((i + 1) + 1) - 1 = i + 1
        BY <2>2
      <3>2. w[(i + 1) + 1] = Behind(a, w[i + 1])
        BY <1>6, <3>1
      <3> QED BY <1>2, <2>2, <3>2
    <2>3. \A i \in 0 .. n : i \in S
      <3> HIDE DEF S
      <3> QED BY <2>1, <2>2, Upward
    <2>4. m - 1 \in 0 .. n /\ (m - 1) + 1 = m
      OBVIOUS
    <2>5. w[(m - 1) + 1] \in Points
      BY <2>3, <2>4
    <2> QED BY <2>4, <2>5
  <1>8. w \in [1 .. n + 1 -> Points]
    BY <1>6, <1>7
  <1>9. a.len \in Nat \ {0}
    BY <1>1
  <1> QED BY <1>1, <1>5, <1>8, <1>9

\* The board before anything is drawn.
Start(setup, seed) ==
    [snake |-> [s \in DOMAIN setup.snakes |-> new_snake(setup, s)],
     allsnakes |-> Len(setup.snakes), food |-> NoFood,
     endsnake |-> FALSE, seed |-> seed, con |-> Cleared]

LEMMA ClearedFacts ==
    Cleared \in Screens /\ \A p \in Points : Cleared.cell[At(p)] = Blank
  <1>1. Cleared \in Screens
    BY DEF Cleared, Screens, Glyphs
  <1>2. \A c \in Cells : Cleared.cell[c] = Blank
    BY DEF Cleared
  <1> QED BY <1>1, <1>2, CellOfPoint

\* The snakes are numbered as they are started; the list is from the last.
LEMMA StartFacts ==
    ASSUME NEW setup \in Setups, NEW seed \in Seeds, NEW b, b = Start(setup, seed)
    PROVE  \E n \in Nat : \E L \in [1 .. n -> DOMAIN setup.snakes] :
              /\ DOMAIN setup.snakes = 1 .. n /\ DOMAIN setup.snakes \in SUBSET Ids
              /\ Board(b, DOMAIN setup.snakes) /\ Spells(b, DOMAIN setup.snakes, n, L)
              /\ Slender(b, DOMAIN setup.snakes) /\ Painted(b, {}) /\ b.food = NoFood
  <1>1. PICK n \in Nat \ {0} : DOMAIN setup.snakes = 1 .. n /\ Len(setup.snakes) = n
                               /\ \A s \in 1 .. n : setup.snakes[s] \in Starts
    <2>1. setup.snakes \in Seq(Starts) /\ setup.snakes # <<>>
      BY SnakesAssumption
    <2>2. Len(setup.snakes) # 0
      BY <2>1, EmptySeq
    <2> QED BY <2>1, <2>2, LenProperties
  <1>2. 1 .. n \in SUBSET Ids
    BY <1>1 DEF Ids
  <1>3. ASSUME NEW s \in 1 .. n
        PROVE  /\ b.snake[s] \in Records
               /\ b.snake[s].color \in 1 .. MAX_VISIBLE_SNAKE
               /\ b.snake[s].body = Coiled(setup.snakes[s])
               /\ b.snake[s].others = IF s = 1 THEN NULL ELSE s - 1
               /\ Body(b, s) = ToSet(Coiled(setup.snakes[s]))
    <2>1. PICK a \in Starts : a = setup.snakes[s]
      BY <1>1
    <2>2. PICK o : o = IF s = 1 THEN NULL ELSE s - 1
      OBVIOUS
    <2>3. o \in Links
      <3>1. s # 1 => s - 1 \in 1 .. n
        OBVIOUS
      <3> QED BY <1>2, <2>2, <3>1 DEF Links
    <2>4. Coiled(a) \in Bodies
      BY CoiledFacts DEF Bodies
    <2>5. a.dir \in Directions /\ a.color \in 1 .. MAX_VISIBLE_SNAKE /\ a.color \in Colors
      BY BoardSize DEF Starts, Directions, NUMDIRS, Colors
    <2>6. b.snake[s] = [dir |-> a.dir, color |-> a.color, body |-> Coiled(a), others |-> o]
      BY <1>1, <2>1, <2>2 DEF Start, new_snake
    <2>7. b.snake[s] \in Records
      BY <2>3, <2>4, <2>5, <2>6 DEF Records
    <2>8. Body(b, s) = ToSet(Coiled(a))
      BY <2>6 DEF Body, ToSet
    <2> QED BY <2>1, <2>2, <2>5, <2>6, <2>7, <2>8
  <1>4. b \in Boards(1 .. n)
    <2>1. b.snake \in [1 .. n -> Records]
      BY <1>1, <1>3 DEF Start
    <2>2. n \in Links
      BY <1>2 DEF Links
    <2>3. b.snake = [s \in 1 .. n |-> new_snake(setup, s)]
      BY <1>1 DEF Start
    <2> QED BY <1>1, <2>1, <2>2, ClearedFacts DEF Start, Boards
  <1>5. Apart(b, 1 .. n)
    <2>1. ASSUME NEW s \in 1 .. n, NEW t \in 1 .. n, s # t PROVE Body(b, s) \cap Body(b, t) = {}
      <3>1. s \in DOMAIN setup.snakes /\ t \in DOMAIN setup.snakes
        BY <1>1
      <3>2. ToSet(Coiled(setup.snakes[s])) \cap ToSet(Coiled(setup.snakes[t])) = {}
        BY <2>1, <3>1, SetupsAssumption, Zenon
      <3> QED BY <1>3, <3>2
    <2> QED BY <2>1 DEF Apart
  <1>6. PICK L : L = [i \in 1 .. n |-> n + 1 - i]
    OBVIOUS
  <1>7. L \in [1 .. n -> 1 .. n] /\ \A i \in 1 .. n : L[i] = n + 1 - i
    BY <1>6
  <1>8. Spells(b, 1 .. n, n, L)
    <2>1. ASSUME NEW i \in 1 .. n, NEW j \in 1 .. n, L[i] = L[j] PROVE i = j
      BY <1>7, <2>1
    <2>2. ASSUME NEW t \in 1 .. n PROVE \E i \in 1 .. n : L[i] = t
      <3>1. n + 1 - t \in 1 .. n /\ L[n + 1 - t] = t
        BY <1>7
      <3> QED BY <3>1
    <2>3. b.allsnakes = Following(L, n, 0)
      <3>1. b.allsnakes = n
        BY <1>1 DEF Start
      <3>2. L[1] = n
        BY <1>7
      <3> QED BY <3>1, <3>2 DEF Following
    <2>4. ASSUME NEW i \in 1 .. n PROVE b.snake[L[i]].others = Following(L, n, i)
      <3>1. PICK t \in 1 .. n : t = L[i] /\ t = n + 1 - i
        BY <1>7
      <3>2. CASE i = n
        BY <1>3, <3>1, <3>2 DEF Following
      <3>3. CASE i # n
        <4>1. t # 1 /\ i < n /\ i + 1 \in 1 .. n /\ L[i + 1] = t - 1
          BY <1>7, <3>1, <3>3
        <4> QED BY <1>3, <3>1, <4>1 DEF Following
      <3> QED BY <3>2, <3>3
    <2> QED BY <2>1, <2>2, <2>3, <2>4 DEF Spells
  <1>9. Linked(b, 1 .. n)
    BY <1>7, <1>8 DEF Linked
  <1>10. Slender(b, 1 .. n)
    BY <1>3 DEF Slender
  <1>11. b.food = NoFood /\ Painted(b, {})
    <2>1. b.food = NoFood /\ b.con = Cleared
      BY DEF Start
    <2> QED BY <2>1, ClearedFacts, PointsAreOnBoard DEF Painted, Right
  <1> QED BY <1>1, <1>2, <1>4, <1>5, <1>7, <1>8, <1>9, <1>10, <1>11 DEF Board

LEMMA AllDrawn ==
    ASSUME NEW T, NEW n \in Nat, NEW L \in [1 .. n -> T], NEW b, Board(b, T), Spells(b, T, n, L),
           Painted(b, {}), NEW c, c = InOrder(b, L)
    PROVE  c \in Boards(T) /\ SameBoard(b, c) /\ Painted(c, T)
  <1>1. b \in Boards(T) /\ Apart(b, T)
    BY DEF Board
  <1>2. PICK f \in [0 .. n -> Boards(T)] :
           /\ f[0] = b /\ f[n] = c /\ \A i \in 1 .. n : f[i] = draw_snake(f[i - 1], L[i])
    BY <1>1, DrawnChain
  <1> DEFINE Met(i) == {L[j] : j \in 1 .. i}
             S == {i \in 0 .. n : SameBoard(b, f[i]) /\ Painted(f[i], Met(i))}
  <1>3. 0 \in S
    <2>1. Met(0) = {}
      OBVIOUS
    <2>2. SameBoard(b, b)
      BY DEF SameBoard
    <2>3. SameBoard(b, f[0]) /\ Painted(f[0], Met(0))
      <3> HIDE DEF Met
      <3> QED BY <1>2, <2>1, <2>2
    <2> QED BY <2>3
  <1>4. ASSUME NEW i \in 0 .. n, i + 1 \in 0 .. n, i \in S PROVE i + 1 \in S
    <2>1. i + 1 \in 1 .. n /\ (i + 1) - 1 = i
      BY <1>4
    <2>2. PICK m \in Boards(T), s \in T : m = f[i] /\ s = L[i + 1] /\ f[i + 1] = draw_snake(m, s)
      BY <1>2, <2>1
    <2>3. SameBoard(b, m) /\ Painted(m, Met(i))
      BY <1>4, <2>2
    <2>4. Met(i) \in SUBSET T /\ Met(i + 1) = Met(i) \cup {s}
      <3>1. \A j \in 1 .. i : j \in 1 .. n
        BY <2>1
      <3>2. \A j \in 1 .. i + 1 : j \in 1 .. i \/ j = i + 1
        OBVIOUS
      <3>3. i + 1 \in 1 .. i + 1 /\ \A j \in 1 .. i : j \in 1 .. i + 1
        OBVIOUS
      <3> QED BY <2>2, <3>1, <3>2, <3>3
    <2>5. \A t \in Met(i) : t # s
      <3>1. ASSUME NEW j \in 1 .. i, L[j] = s PROVE FALSE
        <4>1. j \in 1 .. n /\ j # i + 1
          BY <2>1
        <4> QED BY <2>1, <2>2, <3>1, <4>1 DEF Spells
      <3> QED BY <3>1
    <2>6. \A t \in Met(i) : Body(m, t) \cap Body(m, s) = {}
      <3>1. Apart(m, T)
        BY <1>1, <2>3, SameFacts
      <3> HIDE DEF Met
      <3> QED BY <2>4, <2>5, <3>1 DEF Apart
    <2>7. PICK w : w = draw_snake(m, s)
      OBVIOUS
    <2>8. SameBoard(b, w)
      <3>1. SameBoard(m, w)
        BY <2>7, DrawFacts
      <3> QED BY <2>3, <3>1 DEF SameBoard
    <2>9. Painted(w, Met(i + 1))
      <3> HIDE DEF Met
      <3>1. Painted(w, Met(i) \cup {s})
        BY <2>3, <2>4, <2>6, <2>7, DrawPaints
      <3> QED BY <2>4, <3>1
    <2> HIDE DEF Met
    <2> QED BY <1>4, <2>2, <2>7, <2>8, <2>9
  <1>5. n \in S
    <2> HIDE DEF S
    <2>1. \A i \in 0 .. n : i \in S
      BY <1>3, <1>4, Upward
    <2> QED BY <2>1
  <1>6. Met(n) = T
    BY DEF Spells
  <1>7. SameBoard(b, c) /\ Painted(c, T)
    <2>1. SameBoard(b, f[n]) /\ Painted(f[n], Met(n))
      BY <1>5
    <2> HIDE DEF Met
    <2> QED BY <1>2, <1>6, <2>1
  <1>8. c \in Boards(T)
    <2>1. n \in 0 .. n
      OBVIOUS
    <2> QED BY <1>2, <2>1
  <1> QED BY <1>7, <1>8

\* The order of the list is what draw_all_snakes draws in.
LEMMA DrawnAll ==
    ASSUME NEW n \in Nat, 1 .. n \in SUBSET Ids, NEW b \in Boards(1 .. n),
           NEW L \in [1 .. n -> 1 .. n], Spells(b, 1 .. n, n, L)
    PROVE  draw_all_snakes(b) = InOrder(b, L)
  <1>1. Community(b) = 1 .. n
    <2>1. Linked(b, 1 .. n)
      BY DEF Linked
    <2> QED BY <2>1, WalkFacts
  <1>2. Cardinality(1 .. n) = n
    <2>1. 1 \in Int /\ n \in Int
      OBVIOUS
    <2>2. Cardinality(1 .. n) = IF 1 > n THEN 0 ELSE n - 1 + 1
      BY <2>1, FS_Interval
    <2> QED BY <2>2
  <1>3. PICK w : w = [k \in 1 .. Cardinality(Community(b)) |-> Nth(b)[k - 1]]
    OBVIOUS
  <1>4. w = L
    <2>1. ASSUME NEW k \in 1 .. n PROVE Nth(b)[k - 1] = L[k]
      <3>1. k - 1 \in Nat /\ k - 1 < n /\ (k - 1) + 1 = k
        OBVIOUS
      <3>2. Nth(b)[k - 1] = Following(L, n, k - 1)
        BY <3>1, WalkMeets
      <3> QED BY <3>1, <3>2 DEF Following
    <2>2. w = [k \in 1 .. n |-> Nth(b)[k - 1]]
      BY <1>1, <1>2, <1>3
    <2> QED BY <2>1, <2>2
  <1>5. draw_all_snakes(b) = InOrder(b, w)
    BY <1>3 DEF draw_all_snakes, InOrder
  <1> QED BY <1>4, <1>5

LEMMA InitKeeps == Init => IInv
  <1> SUFFICES ASSUME Init PROVE IInv
    OBVIOUS
  <1>1. PICK setup \in Setups :
          /\ hungry = setup.hungry /\ threads = DOMAIN setup.snakes
          /\ \E seed \in Seeds : g = draw_all_snakes(Start(setup, seed))
    BY DEF Init, Start, Seeds
  <1>2. PICK seed \in Seeds : g = draw_all_snakes(Start(setup, seed))
    BY <1>1
  <1>3. PICK b : b = Start(setup, seed)
    OBVIOUS
  <1>4. PICK n \in Nat : \E L \in [1 .. n -> threads] :
          /\ threads = 1 .. n /\ threads \in SUBSET Ids
          /\ Board(b, threads) /\ Spells(b, threads, n, L)
          /\ Slender(b, threads) /\ Painted(b, {}) /\ b.food = NoFood
    BY <1>1, <1>3, StartFacts
  <1>5. PICK L \in [1 .. n -> threads] :
          /\ threads = 1 .. n /\ threads \in SUBSET Ids
          /\ Board(b, threads) /\ Spells(b, threads, n, L)
          /\ Slender(b, threads) /\ Painted(b, {}) /\ b.food = NoFood
    BY <1>4
  <1>6. g = InOrder(b, L)
    BY <1>2, <1>3, <1>5, DrawnAll DEF Board
  <1>7. g \in Boards(threads) /\ SameBoard(b, g) /\ Painted(g, threads)
    BY <1>5, <1>6, AllDrawn
  <1>8. Board(g, threads) /\ Slender(g, threads)
    BY <1>5, <1>7, SameFacts DEF Board
  <1>9. Fare(g, threads)
    <2>1. g.food = NoFood
      BY <1>5, <1>7 DEF SameBoard
    <2>2. ASSUME NEW t \in threads PROVE g.food \notin Body(g, t)
      <3>1. Body(g, t) \subseteq Points
        BY <1>7, BodyFacts
      <3> QED BY <2>1, <3>1, PointsAreOnBoard
    <2> QED BY <2>1, <2>2 DEF Fare
  <1>10. hungry \in BOOLEAN
    BY <1>1, SnakesAssumption
  <1> QED BY <1>5, <1>7, <1>8, <1>9, <1>10 DEF IInv, Tidy

-----------------------------------------------------------------------------
(***************************************************************************)
(* The theorems.                                                           *)
(***************************************************************************)
\* In every state the board is tidy: the records and the screen are of their
\* kinds, the list is the snakes that did not leave, their bodies and the food
\* are apart, and the screen shows them wherever nobody else printed since.
THEOREM SnakesInductive == Spec => []IInv
  BY InitKeeps, NextKeeps, PTL DEF Spec

LEMMA TidyFacts ==
    ASSUME IInv
    PROVE  /\ threads \in SUBSET Ids /\ hungry \in BOOLEAN
           /\ g \in Boards(threads) /\ Linked(g, threads) /\ Apart(g, threads)
           /\ Fare(g, threads) /\ Slender(g, threads) /\ Painted(g, threads)
  BY DEF IInv, Tidy, Board

\* Nothing leaves its range: no snake the board, no store the screen, and no
\* snake that goes on the visible colours.
THEOREM SnakesTypeCorrect == Spec => []TypeOK
  <1>1. ASSUME IInv PROVE TypeOK
    <2>1. ASSUME NEW s \in threads
          PROVE  /\ g.snake[s].dir \in Directions
                 /\ g.snake[s].color \in 1 .. MAX_VISIBLE_SNAKE
                 /\ \A p \in Body(g, s) : OnBoard(p)
      <3>1. g.snake[s].dir \in Directions /\ g.snake[s].color \in 1 .. MAX_VISIBLE_SNAKE
        BY <1>1, TidyFacts, RecordFields DEF Slender
      <3>2. Body(g, s) \subseteq Points
        BY <1>1, TidyFacts, BodyFacts
      <3> QED BY <3>1, <3>2, PointsAreOnBoard
    <2>2. g.food = NoFood \/ OnBoard(g.food)
      BY <1>1, TidyFacts, BoardFields, PointsAreOnBoard
    <2>3. g.endsnake \in BOOLEAN /\ g.seed \in 0 .. 7
      BY <1>1, TidyFacts, BoardFields
    <2>4. ~g.con.beyond
      BY <1>1, TidyFacts, BoardFields DEF Screens
    <2>5. threads \subseteq Ids /\ hungry \in BOOLEAN
      BY <1>1, TidyFacts
    <2> QED BY <2>1, <2>2, <2>3, <2>4, <2>5 DEF TypeOK
  <1> QED BY <1>1, SnakesInductive, PTL

\* The list is walked to every snake that did not leave and to no other; no two
\* snakes cross, and none crosses the food.
THEOREM SnakesStayApart == Spec => []SnakesApart
  <1>1. ASSUME IInv PROVE SnakesApart
    <2>1. Community(g) = threads
      BY <1>1, TidyFacts, WalkFacts
    <2> QED BY <1>1, <2>1, TidyFacts DEF SnakesApart, Apart, Fare
  <1> QED BY <1>1, SnakesInductive, PTL

\* Whatever others print and wherever they scroll: at the end of a turn the cells
\* that the snakes wrote last show every snake where it is, the food, and nothing
\* else.
THEOREM ScreenIsBoard == Spec => []ScreenShowsBoard
  <1>1. ASSUME IInv PROVE ScreenShowsBoard
    <2>1. ASSUME NEW x \in 0 .. cols - 1, NEW y \in 0 .. rows - 1
          PROVE  LET p == [x |-> x, y |-> y]
                     shown == g.con.cell[y * cols + x]
                     looks(s) ==
                         LET sn == g.snake[s]
                             first == /\ p = sn.body[1]
                                      /\ \A i \in 2 .. Len(sn.body) : p # sn.body[i]
                         IN  <<IF first THEN head[sn.dir + 1] ELSE SN_BODY_CHAR, sn.color>>
                 IN  \/ shown = Scrawl
                     \/ \E s \in threads : p \in Body(g, s) /\ shown = looks(s)
                     \/ /\ \A s \in threads : p \notin Body(g, s)
                        /\ shown = IF p = g.food THEN Food ELSE Blank
      <3>1. PICK p \in Points : p = [x |-> x, y |-> y]
        BY DEF Points
      <3>2. At(p) = y * cols + x
        BY <3>1 DEF At
      <3>3. Right(g, threads, p)
        BY <1>1, TidyFacts DEF Painted
      <3>4. CASE g.con.cell[At(p)] = Scrawl
        BY <3>2, <3>4
      <3>5. CASE g.con.cell[At(p)] # Scrawl /\ \E s \in threads : p \in Body(g, s)
        <4>1. PICK s \in threads : p \in Body(g, s)
          BY <3>5
        <4>2. g.con.cell[At(p)] = Look(g, s, p)
          BY <3>3, <3>5, <4>1 DEF Right
        <4> QED BY <3>1, <3>2, <4>1, <4>2 DEF Look, Leading
      <3>6. CASE g.con.cell[At(p)] # Scrawl /\ ~ (\E s \in threads : p \in Body(g, s))
        BY <3>1, <3>2, <3>3, <3>6 DEF Right
      <3> QED BY <3>4, <3>5, <3>6
    <2> QED BY <2>1 DEF ScreenShowsBoard
  <1> QED BY <1>1, SnakesInductive, PTL

\* Nine rounds are enough for any snake on any board: it finds a way if there
\* is one and calls itself stuck only with none.
THEOREM WayOutIsAlwaysFound == Spec => []WayOutIsFound
  <1>1. ASSUME IInv PROVE WayOutIsFound
    <2>1. ASSUME NEW s \in threads
          PROVE  LET tried   == Tried(g, First(g, s))
                     blocked == Blocked(g, s)
                 IN  /\ Rounds(tried, blocked) # {}
                     /\ \A k \in Rounds(tried, blocked) :
                           alldead(tried, k) <=> blocked = Directions
      <3>1. g \in Boards(threads)
        BY <1>1, TidyFacts
      <3>2. PICK first \in Directions : first = First(g, s)
        BY <3>1, FirstFacts
      <3>3. PICK blocked \in SUBSET Directions : blocked = Blocked(g, s)
        BY DEF Blocked
      <3> QED BY <3>1, <3>2, <3>3, RoundsFacts
    <2> QED BY <2>1 DEF WayOutIsFound
  <1> QED BY <1>1, SnakesInductive, PTL

\* The flag makes the snake that runs next leave, and no other; without it only
\* a full snake leaves.
THEOREM OneSnakePerSignal == Spec => SignalEndsOneSnake
  <1> DEFINE Left == threads \ threads'
             Sated == \A s \in Left : hungry /\ g.snake[s].color = MAX_VISIBLE_SNAKE
             One == /\ g.endsnake => Cardinality(Left) = 1
                    /\ ~g.endsnake \/ g'.endsnake => Sated
  <1>1. ASSUME IInv, NEW s \in threads, Ending(s) PROVE One
    <2>1. CASE threads' = threads \ {s}
      <3>1. Left = {s}
        BY <2>1
      <3>2. Cardinality(Left) = 1
        BY <3>1, FS_Singleton
      <3>3. ~g.endsnake \/ g'.endsnake => Sated
        <4>1. CASE Full(s)
          BY <3>1, <4>1 DEF Full
        <4>2. CASE TurnEnds(g.endsnake, s)
          BY <2>1, <4>2 DEF TurnEnds
        <4> QED BY <1>1, <4>1, <4>2 DEF Ending
      <3> QED BY <3>2, <3>3
    <2>2. CASE threads' # threads \ {s}
      <3>1. ~g.endsnake /\ threads' = threads
        BY <1>1, <2>2 DEF Ending, TurnEnds, Full
      <3> QED BY <3>1
    <2> QED BY <2>1, <2>2
  <1>2. ASSUME IInv, [Next]_vars PROVE UNCHANGED game \/ One
    <2>1. CASE kill_snake
      <3>1. threads' = threads /\ (g.endsnake => UNCHANGED vars)
        BY <1>2, <2>1, KillKeeps
      <3>2. Sated
        BY <3>1
      <3>3. UNCHANGED vars => UNCHANGED game
        BY DEF vars, game
      <3> QED BY <3>1, <3>2, <3>3
    <2>2. ASSUME NEW s \in Ids, run_hungry_snake(s) PROVE One
      BY <1>1, <1>2, <2>2, HungryKeeps
    <2>3. ASSUME NEW s \in Ids, run_snake(s) PROVE One
      BY <1>1, <1>2, <2>3, SnakeKeeps
    <2>4. CASE Overwrite
      BY <1>2, <2>4, OverwriteKeeps
    <2>5. CASE UNCHANGED vars
      BY <2>5 DEF vars, game
    <2> HIDE DEF One
    <2> QED BY <1>2, <2>1, <2>2, <2>3, <2>4, <2>5 DEF Next
  <1>3. ASSUME IInv, [Next]_vars PROVE [One]_game
    <2> HIDE DEF One
    <2> QED BY <1>2, <1>3
  <1> QED BY <1>3, SnakesInductive, PTL DEF Spec, SignalEndsOneSnake
=============================================================================
