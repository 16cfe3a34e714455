------------------------------- MODULE Snakes -------------------------------
(***************************************************************************)
(* init/snakes.cpp: threads that share a board.  A thread gives the        *)
(* processor up at the end of its turn only, and only the snakes touch     *)
(* their records and the file's globals: a turn is a step, and turns come  *)
(* in any order (the scheduler's is one of them).  The globals, the        *)
(* records and the screen are one record, g, that the functions pass on.   *)
(*                                                                         *)
(* The screen is not the snakes' alone.  setup_snakes clears it, so kmain  *)
(* and the other threads print on the board from its first cell on, and    *)
(* ata_irq_handler prints, and scrolls, between any two stores of a turn.  *)
(* What they print is module Terminal's; here it is a scrawl, wherever and *)
(* whenever they store it.  A store in the middle of a turn is not lost by *)
(* taking the turn as one step: the snakes never read the screen, and what *)
(* the turn stores in the cell afterwards covers the scrawl, so it is as   *)
(* good as none or as one after the turn.                                  *)
(***************************************************************************)
EXTENDS VgaConsole, FiniteSets

CONSTANTS
    Setups,              \* what setup_snakes may start with: the arguments of
                         \* its calls to new_snake, and hungry
    MAX_VISIBLE_SNAKE,
    NULL,
    Scrawl,              \* what others store in a cell of the screen
    MaxScrawls           \* bound: cells that read so at a time

Ids == UNION {DOMAIN s.snakes : s \in Setups}

OnBoard(p) == p.x \in 0 .. cols - 1 /\ p.y \in 0 .. rows - 1

\* The arguments of new_snake.
Starts ==
    [y : Int, x : Int, len : Nat \ {0}, dir : 0 .. 7, color : 1 .. MAX_VISIBLE_SNAKE]

ASSUME SnakesAssumption ==
    /\ IsFiniteSet(Setups) /\ NULL \notin Ids /\ MAX_VISIBLE_SNAKE \in Nat
    /\ MaxScrawls \in Nat
    /\ \A s \in Setups : s.snakes \in Seq(Starts) \ {<<>>} /\ s.hungry \in BOOLEAN

VARIABLES
    g,         \* the board: snake (records), allsnakes, food, endsnake, seed, con
    threads,   \* the snakes whose thread did not exit
    hungry     \* whether they run run_hungry_snake or run_snake

vars == <<g, threads, hungry>>

\* All but the screen.
game == <<g.snake, g.allsnakes, g.food, g.endsnake, g.seed, threads, hungry>>

-----------------------------------------------------------------------------
\* NW, N, NE, W, E, SW, S, SE
NUMDIRS == 8

Directions == 0 .. NUMDIRS - 1

deltaX == <<-1, 0, 1, -1, 1, -1, 0, 1>>

deltaY == <<-1, -1, -1, 0, 0, 1, 1, 1>>

Neighbour(p, dir) == [x |-> p.x + deltaX[dir + 1], y |-> p.y + deltaY[dir + 1]]

head == <<"<", "^", ">", "<", ">", "<", "v", ">">>

SN_BODY_CHAR == "*"

Food == "food"

NoFood == [x |-> -1, y |-> -1]

\* Mutant: the increment is forgotten.
rand_even(seed) == (5 * seed) % 8

\* The last three bits of seed, which is all rand() % NUMDIRS depends on: the
\* factor is 5 and the increment 7 modulo 8.
rand(seed) == (5 * seed + 7) % 8

-----------------------------------------------------------------------------
(***************************************************************************)
(* new_snake, free_snake and the list of all snakes                        *)
(***************************************************************************)
limit(x, max) == IF x < 0 THEN 0 ELSE IF x > max THEN max ELSE x

Freed(b, s) == [b EXCEPT !.snake = [i \in DOMAIN @ \ {s} |-> @[i]]]

\* Mutant: the list is cut at the snake that leaves.
free_snake_cuts(b, s) == Freed([b EXCEPT !.allsnakes = b.snake[s].others], s)

\* The links are followed from allsnakes to the one to s; then s is given back.
free_snake(b, s) ==
    LET others == b.snake[s].others
        skip(i) == IF i = s THEN others ELSE i
        relinked(i) == [b.snake[i] EXCEPT !.others = skip(@)]
    IN  Freed([b EXCEPT !.allsnakes = skip(@),
                        !.snake = [i \in DOMAIN @ |-> relinked(i)]], s)

Nth(b) ==
    LET nth[k \in Nat] ==
            IF k = 0 THEN b.allsnakes
            ELSE LET s == nth[k - 1] IN IF s = NULL THEN NULL ELSE b.snake[s].others
    IN  nth

\* The snakes that a walk along the list meets.
Community(b) == {Nth(b)[k] : k \in 0 .. Cardinality(Ids)} \ {NULL}

Body(b, s) == {b.snake[s].body[i] : i \in DOMAIN b.snake[s].body}

obstructed(b, p) == ~OnBoard(p) \/ \E s \in Community(b) : p \in Body(b, s)

\* Mutant: the coordinates are not brought back to the board.
CoiledOff(a) ==
    LET body[i \in 1 .. a.len] ==
            IF i = 1 THEN [x |-> a.x, y |-> a.y]
            ELSE [x |-> body[i - 1].x - deltaX[a.dir + 1],
                  y |-> body[i - 1].y - deltaY[a.dir + 1]]
    IN  body

\* The body trails off behind the head; what would be off the board is coiled
\* up at its edge.
Coiled(a) ==
    LET body[i \in 1 .. a.len] ==
            IF i = 1 THEN [x |-> limit(a.x, cols - 1), y |-> limit(a.y, rows - 1)]
            ELSE [x |-> limit(body[i - 1].x - deltaX[a.dir + 1], cols - 1),
                  y |-> limit(body[i - 1].y - deltaY[a.dir + 1], rows - 1)]
    IN  body

\* setup_snakes starts no snake on another.
ASSUME SetupsAssumption ==
    \A setup \in Setups : \A s, t \in DOMAIN setup.snakes :
        s # t => ToSet(Coiled(setup.snakes[s])) \cap ToSet(Coiled(setup.snakes[t])) = {}

\* Each snake is linked in front of the one before.
new_snake(setup, s) ==
    LET a == setup.snakes[s]
    IN  [dir |-> a.dir, color |-> a.color, body |-> Coiled(a),
         others |-> IF s = 1 THEN NULL ELSE s - 1]

-----------------------------------------------------------------------------
(***************************************************************************)
(* The screen: a glyph is a character and the colour of its snake          *)
(***************************************************************************)
Shown(b, p, glyph) == [b EXCEPT !.con = PrintCharAt(@, glyph, p.y, p.x)]

AllShown(b, points, glyph) ==
    [b EXCEPT !.con = PutAll(@, {p.y * cols + p.x : p \in points}, glyph)]

draw_food(b) == Shown(b, b.food, Food)

\* Mutant: the tail stays.
erase_but_tail(b, s) == AllShown(b, ToSet(Front(b.snake[s].body)), Blank)

erase_snake(b, s) == AllShown(b, Body(b, s), Blank)

\* The head first: where the snake is coiled up, the body covers it.
draw_snake(b, s) ==
    LET sn == b.snake[s]
    IN  AllShown(Shown(b, sn.body[1], <<head[sn.dir + 1], sn.color>>),
                 ToSet(Tail(sn.body)), <<SN_BODY_CHAR, sn.color>>)

\* In the order of the list.
draw_all_snakes(b) ==
    FoldLeft(draw_snake, b, [k \in 1 .. Cardinality(Community(b)) |-> Nth(b)[k - 1]])

-----------------------------------------------------------------------------
(***************************************************************************)
(* Moves                                                                   *)
(***************************************************************************)
\* The most rounds the loop of a move can take.
MaxTries == NUMDIRS + 1

\* From a seed, what it is after each call of rand.
Draws ==
    [seed \in 0 .. 7 |->
        LET draw[k \in 0 .. MaxTries] == IF k = 0 THEN seed ELSE rand(draw[k - 1]) IN draw]

\* The directions of the rounds: the one it starts with, then the ones drawn.
Tried(b, first) == [Draws[b.seed] EXCEPT ![0] = first]

Blocked(b, s) == {d \in Directions : obstructed(b, Neighbour(b.snake[s].body[1], d))}

alldead(tried, k) == {tried[i] : i \in 0 .. k - 1} = Directions

\* The round after which the loop ends, if it does.
Rounds(tried, blocked) ==
    LET ends(k) == tried[k] \notin blocked \/ alldead(tried, k)
    IN  {k \in 0 .. MaxTries : ends(k) /\ \A i \in 0 .. k - 1 : ~ends(i)}

Crawled(b, s, newhead) ==
    [b EXCEPT !.snake[s].body = [i \in DOMAIN @ |-> IF i = 1 THEN newhead ELSE @[i - 1]]]

\* A snake that is boxed in keeps its head where it is and pulls up its body.
Moved(b, s, first) ==
    LET tried == Tried(b, first)
        at    == b.snake[s].body[1]
    IN  {Crawled([b EXCEPT !.snake[s].dir = tried[k], !.seed = Draws[b.seed][k]], s,
                 IF alldead(tried, k) THEN at ELSE Neighbour(at, tried[k])) :
            k \in Rounds(tried, Blocked(b, s))}

\* delta2dir of the signs of the two distances.
food_direction(b, p) ==
    LET sign(n) == IF n > 0 THEN 1 ELSE IF n < 0 THEN -1 ELSE 0
        delta2dir == <<<<0, 1, 2>>, <<3, 1, 4>>, <<5, 6, 7>>>>
    IN  delta2dir[sign(b.food.y - p.y) + 2][sign(b.food.x - p.x) + 2]

First(b, s) == IF hungry THEN food_direction(b, b.snake[s].body[1]) ELSE b.snake[s].dir

\* move_snake and move_hungry_snake
Moves(b, s) == Moved(b, s, First(b, s))

Served(b, p, seed) == [b EXCEPT !.food = p, !.seed = seed]

\* Any free cell may come up; each try draws twice.
place_food(b) ==
    LET open == {p \in [x : 0 .. cols - 1, y : 0 .. rows - 1] : ~obstructed(b, p)}
    IN  {Served(b, p, Draws[b.seed][2 * n]) : p \in open, n \in 1 .. 4}

onfood(b, s) == b.snake[s].body[1] = b.food

-----------------------------------------------------------------------------
(***************************************************************************)
(* The threads                                                             *)
(***************************************************************************)
Init ==
    \E setup \in Setups :
        /\ hungry = setup.hungry
        /\ threads = DOMAIN setup.snakes
        /\ \E seed \in 0 .. 7 :   \* the pid of whoever calls
              g = draw_all_snakes(
                    [snake |-> [s \in DOMAIN setup.snakes |-> new_snake(setup, s)],
                     allsnakes |-> Len(setup.snakes), food |-> NoFood,
                     endsnake |-> FALSE, seed |-> seed, con |-> Cleared])

ProcYield(b) == g' = b /\ UNCHANGED <<threads, hungry>>

\* free_snake and ProcExit
Leave(b, s) ==
    /\ g' = free_snake(b, s)
    /\ threads' = threads \ {s}
    /\ UNCHANGED hungry

\* Mutant: a thread does not look at the flag.
EndOfTurnOnly(b, s) == ProcYield(b)

\* The flag that kill_snake sets makes one snake leave.
EndOfTurn(b, s) ==
    IF b.endsnake THEN Leave(erase_snake([b EXCEPT !.endsnake = FALSE], s), s)
    ELSE ProcYield(b)

\* The colour counts the meals: above MAX_VISIBLE_SNAKE the snake is full.
Eat(b, s) ==
    \E placed \in place_food(b) :
        LET fed == erase_snake([draw_food(placed) EXCEPT !.snake[s].color = @ + 1], s)
        IN  IF fed.snake[s].color > MAX_VISIBLE_SNAKE THEN Leave(fed, s)
            ELSE EndOfTurn(draw_snake(fed, s), s)

\* The first hungry snake to run finds no food on the board and places it.
run_hungry_snake(s) ==
    /\ hungry /\ s \in threads
    /\ \E b \in IF g.food = NoFood THEN {draw_food(p) : p \in place_food(g)} ELSE {g} :
       \E moved \in Moves(erase_snake(b, s), s) :
          LET drawn == draw_snake(moved, s)
          IN  IF onfood(drawn, s) THEN Eat(drawn, s) ELSE EndOfTurn(drawn, s)

run_snake(s) ==
    /\ ~hungry /\ s \in threads
    /\ \E moved \in Moves(erase_snake(g, s), s) : EndOfTurn(draw_snake(moved, s), s)

kill_snake == g' = [g EXCEPT !.endsnake = TRUE] /\ UNCHANGED <<threads, hungry>>

\* One store of somebody else's printk: kmain's (kmain.cpp:59 and 61), another
\* thread's, or ata_irq_handler's (AtaDevice.cpp:84).  It puts a character in a
\* cell, or what Scroll moves there (a piece of a snake, it may be) or clears.
\* It moves pos as well, which the snakes never read.
Overwrite ==
    /\ Cardinality({p \in Cells : g.con.cell[p] = Scrawl}) < MaxScrawls
    /\ \E p \in Cells : g' = [g EXCEPT !.con.cell[p] = Scrawl]
    /\ UNCHANGED <<threads, hungry>>

Next == kill_snake \/ Overwrite \/ \E s \in Ids : run_hungry_snake(s) \/ run_snake(s)

Spec == Init /\ [][Next]_vars

-----------------------------------------------------------------------------
(***************************************************************************)
(* Properties                                                              *)
(***************************************************************************)
\* Every body lies on the board, wherever its snake started and however it was
\* coiled up, nothing is drawn past the screen, and no snake that goes on has
\* eaten itself out of the visible colours.
TypeOK ==
    /\ threads \subseteq Ids /\ hungry \in BOOLEAN
    /\ \A s \in threads :
          /\ g.snake[s].dir \in Directions
          /\ g.snake[s].color \in 1 .. MAX_VISIBLE_SNAKE
          /\ \A p \in Body(g, s) : OnBoard(p)
    /\ g.food = NoFood \/ OnBoard(g.food)
    /\ g.endsnake \in BOOLEAN /\ g.seed \in 0 .. 7
    /\ ~g.con.beyond

\* The list that obstructed walks holds the snakes that did not leave, each of
\* them and no other; so no two snakes ever cross, and none crosses the food.
SnakesApart ==
    /\ Community(g) = threads
    /\ \A s, t \in threads : s # t => Body(g, s) \cap Body(g, t) = {}
    /\ \A s \in threads : g.food \notin Body(g, s)

\* At the end of a turn the screen is the board, but for the cells somebody else
\* stored in since a snake did: every snake in its colour, its head where its
\* body does not lie on it, the food, and nothing of the snakes that left or of
\* the cells they crawled off.
ScreenShowsBoard ==
    \A x \in 0 .. cols - 1, y \in 0 .. rows - 1 :
        LET p == [x |-> x, y |-> y]
            shown == g.con.cell[y * cols + x]
            looks(s) ==
                LET sn == g.snake[s]
                    first == p = sn.body[1] /\ \A i \in 2 .. Len(sn.body) : p # sn.body[i]
                IN  <<IF first THEN head[sn.dir + 1] ELSE SN_BODY_CHAR, sn.color>>
        IN  \/ shown = Scrawl
            \/ \E s \in threads : p \in Body(g, s) /\ shown = looks(s)
            \/ /\ \A s \in threads : p \notin Body(g, s)
               /\ shown = IF p = g.food THEN Food ELSE Blank

\* Wherever the seed is, a snake's draws come to an end, within nine of them;
\* it finds a way if there is one, and calls itself stuck only with none.
WayOutIsFound ==
    \A s \in threads :
        LET tried   == Tried(g, First(g, s))
            blocked == Blocked(g, s)
        IN  /\ Rounds(tried, blocked) # {}
            /\ \A k \in Rounds(tried, blocked) : alldead(tried, k) <=> blocked = Directions

\* kill_snake: "set the flag so that the next time run_snake goes around it's
\* killed".  The snake that runs next leaves, and takes the flag down unless it
\* leaves because it is full; without the flag only a full snake leaves.  What
\* others print is no turn.
SignalEndsOneSnake ==
    [][LET left == threads \ threads'
           full == \A s \in left : hungry /\ g.snake[s].color = MAX_VISIBLE_SNAKE
       IN  /\ g.endsnake => Cardinality(left) = 1
           /\ ~g.endsnake \/ g'.endsnake => full]_game
=============================================================================
