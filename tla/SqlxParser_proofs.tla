------------------------- MODULE SqlxParser_proofs -------------------------
(***************************************************************************)
(* find_matching_brace finds the block that the grammar has, for every     *)
(* text.  The grammar is turned into its equation first (ContentEquation), *)
(* and then read from the left: Rest says that the text from i on, with d  *)
(* braces open, can be completed to a block that ends at b.  Each token    *)
(* changes i and d so that Rest stays what it was; this is the invariant   *)
(* of the scan, and it needs no induction over the text.                   *)
(***************************************************************************)
EXTENDS SqlxParserProperties, Common_proofs

(* The grammar *)

LEMMA PhraseDependsOnShorter ==
  ASSUME NEW t \in Seq(Token), NEW s \in Stretches(t),
         NEW f, NEW g,
         \A u \in Stretches(t) : u[1] > s[1] /\ u[2] <= s[2] => f[u] = g[u]
  PROVE  Phrase(t, f, s) <=> Phrase(t, g, s)
<1> DEFINE a == s[1]
           b == s[2]
<1>1. a \in 1..(Len(t) + 1) /\ b \in 0..Len(t) /\ Len(t) \in Nat
  BY DEF Stretches
<1>2. ASSUME NEW c \in 1..(Len(t) + 1), NEW d \in 0..Len(t), c > a, d <= b
      PROVE  f[<<c, d>>] = g[<<c, d>>]
  <2>1. <<c, d>> \in Stretches(t) /\ <<c, d>>[1] = c /\ <<c, d>>[2] = d
    BY DEF Stretches
  <2> QED
    BY <1>2, <2>1
<1>3. CASE a > b
  BY <1>3 DEF Phrase
<1>4. CASE a <= b
  <2>1. a + 1 \in 1..(Len(t) + 1) /\ a + 1 > a /\ b <= b
    BY <1>1, <1>4
  <2>2. f[<<a + 1, b>>] = g[<<a + 1, b>>]
    BY <1>1, <1>2, <2>1, Zenon
  <2>3. ASSUME NEW k \in (a + 1)..b
        PROVE  f[<<a + 1, k - 1>>] = g[<<a + 1, k - 1>>] /\ f[<<k + 1, b>>] = g[<<k + 1, b>>]
    <3>1. k - 1 \in 0..Len(t) /\ k - 1 <= b /\ k + 1 \in 1..(Len(t) + 1) /\ k + 1 > a
      BY <1>1
    <3> QED
      BY <1>1, <1>2, <2>1, <3>1, Zenon
  <2> QED
    BY <2>2, <2>3 DEF Phrase
<1> QED
  BY <1>1, <1>3, <1>4

\* The grammar's recursive function satisfies its definition.
LEMMA ContentEquation ==
  ASSUME NEW t \in Seq(Token)
  PROVE  Content(t) = [s \in Stretches(t) |-> Phrase(t, Content(t), s)]
<1> DEFINE D == Stretches(t)
           G == [f \in [D -> BOOLEAN] |-> [s \in D |-> Phrase(t, f, s)]]
           rank == [s \in D |-> (Len(t) + 1) - s[1]]
<1>1. rank \in [D -> Nat]
  BY DEF Stretches
<1>2. G \in [[D -> BOOLEAN] -> [D -> BOOLEAN]]
  BY DEF Phrase
<1>3. ASSUME NEW f \in [D -> BOOLEAN], NEW g \in [D -> BOOLEAN], NEW s \in D,
             \A u \in D : rank[u] < rank[s] => f[u] = g[u]
      PROVE  G[f][s] = G[g][s]
  <2>1. \A u \in D : u[1] > s[1] => rank[u] < rank[s]
    BY DEF Stretches
  <2>2. Phrase(t, f, s) <=> Phrase(t, g, s)
    BY <1>3, <2>1, PhraseDependsOnShorter
  <2>3. Phrase(t, f, s) \in BOOLEAN /\ Phrase(t, g, s) \in BOOLEAN
    BY DEF Phrase
  <2>4. Phrase(t, f, s) = Phrase(t, g, s)
    BY <2>2, <2>3
  <2> QED
    BY <2>4
<1>4. \E f \in [D -> BOOLEAN] : f = G[f]
  <2>1. LooksDown(D, BOOLEAN, rank, G)
    BY <1>1, <1>2, <1>3 DEF LooksDown
  <2> HIDE DEF D, G, rank
  <2> QED
    BY <2>1, RecursiveFunction
<1>5. \E f : f = [s \in D |-> Phrase(t, f, s)]
  BY <1>4
<1> QED
  BY <1>5 DEF Content

LEMMA ContentOf ==
  ASSUME NEW t \in Seq(Token), NEW a \in 1..(Len(t) + 1), NEW b \in 0..Len(t)
  PROVE  Content(t)[<<a, b>>] <=> Phrase(t, Content(t), <<a, b>>)
<1>1. <<a, b>> \in Stretches(t)
  BY DEF Stretches
<1> QED
  BY <1>1, ContentEquation

\* From a to b a text has what may stand between braces.
Inner(t, a, b) == Content(t)[<<a, b>>]

\* The equation, by the token that comes first.
LEMMA InnerOf ==
  ASSUME NEW t \in Seq(Token), NEW a \in 1..(Len(t) + 1), NEW b \in 0..Len(t)
  PROVE  /\ a > b => Inner(t, a, b)
         /\ a <= b /\ t[a] \notin {LBrace, RBrace, Quote} =>
              (Inner(t, a, b) <=> Inner(t, a + 1, b))
         /\ a <= b /\ t[a] = LBrace =>
              (Inner(t, a, b) <=>
                 \E k \in (a + 1)..b : t[k] = RBrace /\ Inner(t, a + 1, k - 1) /\ Inner(t, k + 1, b))
         /\ a <= b /\ t[a] = Quote =>
              (Inner(t, a, b) <=> \E k \in (a + 1)..b : Literal(t, a, k) /\ Inner(t, k + 1, b))
         /\ a <= b /\ t[a] = RBrace => ~Inner(t, a, b)
<1>1. Inner(t, a, b) <=>
        \/ a > b
        \/ /\ a <= b
           /\ \/ t[a] \notin {LBrace, RBrace, Quote} /\ Inner(t, a + 1, b)
              \/ \E k \in (a + 1)..b :
                   /\ \/ Literal(t, a, k)
                      \/ t[a] = LBrace /\ t[k] = RBrace /\ Inner(t, a + 1, k - 1)
                   /\ Inner(t, k + 1, b)
  BY ContentOf DEF Inner, Phrase
<1>2. \A k : Literal(t, a, k) => t[a] = Quote
  BY DEF Literal
<1>3. Quote \notin {LBrace, RBrace}
  BY DEF Quote, LBrace, RBrace
<1>4. LBrace # RBrace
  BY DEF LBrace, RBrace
<1> QED
  BY <1>1, <1>2, <1>3, <1>4

(* What is left to scan *)

\* With d braces open at i, the text can be read on to a block that ends at b:
\* c has the braces that close them, the outermost first.
Closes(t, d, i_, b, c) ==
  /\ c \in [1..d -> 1..Len(t)]
  /\ c[1] = b /\ i_ <= c[d]
  /\ \A k \in 1..d : t[c[k]] = RBrace
  /\ \A k \in 1..(d - 1) : c[k + 1] < c[k] /\ Inner(t, c[k + 1] + 1, c[k] - 1)
  /\ Inner(t, i_, c[d] - 1)

Rest(t, d, i_, b) == \E c : Closes(t, d, i_, b, c)

\* A token that is none of brace and quote changes nothing.
LEMMA RestPlain ==
  ASSUME NEW t \in Seq(Token), NEW d \in Nat \ {0}, NEW j \in 1..Len(t), NEW b,
         t[j] \notin {LBrace, RBrace, Quote}
  PROVE  Rest(t, d, j, b) <=> Rest(t, d, j + 1, b)
<1> SUFFICES ASSUME NEW c PROVE Closes(t, d, j, b, c) <=> Closes(t, d, j + 1, b, c)
  BY DEF Rest
<1>1. ASSUME c \in [1..d -> 1..Len(t)], t[c[d]] = RBrace, j <= c[d]
      PROVE  j + 1 <= c[d] /\ (Inner(t, j, c[d] - 1) <=> Inner(t, j + 1, c[d] - 1))
  <2>1. c[d] \in 1..Len(t) /\ Len(t) \in Nat
    BY <1>1
  <2>2. j # c[d]
    BY <1>1
  <2>3. j + 1 <= c[d] /\ c[d] - 1 \in 0..Len(t) /\ j <= c[d] - 1 /\ j \in 1..(Len(t) + 1)
    BY <1>1, <2>1, <2>2
  <2> QED
    BY <2>3, InnerOf
<1>2. ASSUME Closes(t, d, j, b, c) PROVE Closes(t, d, j + 1, b, c)
  <2>1. c \in [1..d -> 1..Len(t)] /\ t[c[d]] = RBrace /\ j <= c[d]
    BY <1>2 DEF Closes
  <2> QED
    BY <1>1, <1>2, <2>1 DEF Closes
<1>3. ASSUME Closes(t, d, j + 1, b, c) PROVE Closes(t, d, j, b, c)
  <2>1. c \in [1..d -> 1..Len(t)] /\ t[c[d]] = RBrace /\ j + 1 <= c[d]
    BY <1>3 DEF Closes
  <2>2. j <= c[d]
    BY <2>1
  <2> QED
    BY <1>1, <1>3, <2>1, <2>2 DEF Closes
<1> QED
  BY <1>2, <1>3

\* The block may end only after the text has.
LEMMA RestEnd ==
  ASSUME NEW t \in Seq(Token), NEW d \in Nat \ {0}, NEW j \in Nat, j > Len(t), NEW b
  PROVE  ~Rest(t, d, j, b)
<1> SUFFICES ASSUME NEW c, Closes(t, d, j, b, c) PROVE FALSE
  BY DEF Rest
<1>1. c[d] \in 1..Len(t) /\ j <= c[d]
  BY DEF Closes
<1> QED
  BY <1>1

\* A block is what is left after its brace.
LEMMA RestFirst ==
  ASSUME NEW t \in Seq(Token), NEW j \in 1..Len(t), t[j] = LBrace, NEW b \in 1..Len(t)
  PROVE  Block(t, j, b) <=> Rest(t, 1, j + 1, b)
<1>1. ASSUME Block(t, j, b) PROVE Rest(t, 1, j + 1, b)
  <2>1. Closes(t, 1, j + 1, b, [k \in 1..1 |-> b])
    BY <1>1 DEF Block, Closes, Inner
  <2> QED
    BY <2>1 DEF Rest
<1>2. ASSUME NEW c, Closes(t, 1, j + 1, b, c) PROVE Block(t, j, b)
  BY <1>2 DEF Block, Closes, Inner
<1> QED
  BY <1>1, <1>2 DEF Rest
\* An opening brace is one more to close.
LEMMA RestOpening ==
  ASSUME NEW t \in Seq(Token), NEW d \in Nat \ {0}, NEW j \in 1..Len(t), NEW b,
         t[j] = LBrace
  PROVE  Rest(t, d, j, b) <=> Rest(t, d + 1, j + 1, b)
<1>b. LBrace # RBrace
  BY DEF LBrace, RBrace
<1>n. Len(t) \in Nat /\ j \in 1..(Len(t) + 1) /\ d \in 1..d /\ d + 1 \in 1..(d + 1)
  OBVIOUS
<1>1. ASSUME NEW c, Closes(t, d, j, b, c)
      PROVE  Rest(t, d + 1, j + 1, b)
  <2>1. /\ c \in [1..d -> 1..Len(t)] /\ t[c[d]] = RBrace /\ j <= c[d]
        /\ Inner(t, j, c[d] - 1)
    BY <1>1, <1>n DEF Closes
  <2>2. c[d] \in 1..Len(t) /\ j # c[d]
    BY <1>b, <1>n, <2>1
  <2>3. j <= c[d] - 1 /\ c[d] - 1 \in 0..Len(t)
    BY <1>n, <2>1, <2>2
  <2>4. PICK k \in (j + 1)..(c[d] - 1) :
          t[k] = RBrace /\ Inner(t, j + 1, k - 1) /\ Inner(t, k + 1, c[d] - 1)
    BY <1>n, <2>1, <2>3, InnerOf
  <2>5. k \in 1..Len(t) /\ k < c[d] /\ j + 1 <= k
    BY <1>n, <2>2, <2>4
  <2> DEFINE e == [n \in 1..(d + 1) |-> IF n = d + 1 THEN k ELSE c[n]]
  <2>6. /\ e \in [1..(d + 1) -> 1..Len(t)] /\ e[d + 1] = k
        /\ \A n \in 1..d : e[n] = c[n]
    BY <2>1, <2>5
  <2> HIDE DEF e
  <2>7. \A n \in 1..(d + 1) : t[e[n]] = RBrace
    <3>1. \A n \in 1..(d + 1) : n = d + 1 \/ n \in 1..d
      OBVIOUS
    <3> QED
      BY <1>1, <2>4, <2>6, <3>1 DEF Closes
  <2>8. \A n \in 1..d : e[n + 1] < e[n] /\ Inner(t, e[n + 1] + 1, e[n] - 1)
    <3> SUFFICES ASSUME NEW n \in 1..d
                 PROVE  e[n + 1] < e[n] /\ Inner(t, e[n + 1] + 1, e[n] - 1)
      OBVIOUS
    <3>1. CASE n = d
      BY <2>4, <2>5, <2>6, <3>1
    <3>2. CASE n # d
      <4>1. n \in 1..(d - 1) /\ n + 1 \in 1..d
        BY <3>2
      <4> QED
        BY <1>1, <2>6, <4>1 DEF Closes
    <3> QED
      BY <3>1, <3>2
  <2>9. e[1] = b /\ (d + 1) - 1 = d
    <3>1. 1 \in 1..d
      OBVIOUS
    <3> QED
      BY <1>1, <2>6, <3>1 DEF Closes
  <2> QED
    BY <2>4, <2>5, <2>6, <2>7, <2>8, <2>9 DEF Rest, Closes
<1>2. ASSUME NEW e, Closes(t, d + 1, j + 1, b, e)
      PROVE  Rest(t, d, j, b)
  <2> DEFINE c == [n \in 1..d |-> e[n]]
  <2>1. /\ e \in [1..(d + 1) -> 1..Len(t)] /\ e[1] = b /\ j + 1 <= e[d + 1]
        /\ \A n \in 1..(d + 1) : t[e[n]] = RBrace
        /\ \A n \in 1..d : e[n + 1] < e[n] /\ Inner(t, e[n + 1] + 1, e[n] - 1)
        /\ Inner(t, j + 1, e[d + 1] - 1)
    <3>1. (d + 1) - 1 = d
      OBVIOUS
    <3> QED
      BY <1>2, <3>1 DEF Closes
  <2>2. /\ c \in [1..d -> 1..Len(t)]
        /\ \A n \in 1..d : c[n] = e[n] /\ n \in 1..(d + 1)
    BY <2>1
  <2> HIDE DEF c
  <2>3. e[d + 1] \in 1..Len(t) /\ c[d] \in 1..Len(t) /\ e[d + 1] < c[d] /\ Inner(t, e[d + 1] + 1, c[d] - 1)
    BY <1>n, <2>1, <2>2
  <2>4. /\ e[d + 1] \in (j + 1)..(c[d] - 1) /\ j <= c[d] - 1 /\ c[d] - 1 \in 0..Len(t)
        /\ j <= c[d]
    <3> DEFINE x == e[d + 1]
               y == c[d]
    <3>1. x \in 1..Len(t) /\ y \in 1..Len(t) /\ x < y /\ j + 1 <= x
      BY <2>1, <2>3
    <3> HIDE DEF x, y
    <3>2. x \in (j + 1)..(y - 1) /\ j <= y - 1 /\ y - 1 \in 0..Len(t) /\ j <= y
      BY <1>n, <3>1
    <3> QED
      BY <3>2 DEF x, y
  <2>5. t[e[d + 1]] = RBrace
    BY <1>n, <2>1
  <2>6. Inner(t, j, c[d] - 1)
    BY <1>n, <2>1, <2>3, <2>4, <2>5, InnerOf
  <2>7. c[1] = b /\ \A n \in 1..d : t[c[n]] = RBrace
    <3>1. 1 \in 1..d
      OBVIOUS
    <3> QED
      BY <2>1, <2>2, <3>1
  <2>8. \A n \in 1..(d - 1) : c[n + 1] < c[n] /\ Inner(t, c[n + 1] + 1, c[n] - 1)
    <3>1. \A n \in 1..(d - 1) : n \in 1..d /\ n + 1 \in 1..d
      OBVIOUS
    <3> QED
      BY <2>1, <2>2, <3>1
  <2> QED
    BY <2>2, <2>4, <2>6, <2>7, <2>8 DEF Rest, Closes
<1> QED
  BY <1>1, <1>2 DEF Rest
\* Where a closing brace stands nothing else can be read: it is the next closer.
LEMMA ClosesHere ==
  ASSUME NEW t \in Seq(Token), NEW d \in Nat \ {0}, NEW j \in 1..Len(t), NEW b, NEW c,
         t[j] = RBrace, Closes(t, d, j, b, c)
  PROVE  c[d] = j
<1>1. c[d] \in 1..Len(t) /\ j <= c[d] /\ Inner(t, j, c[d] - 1) /\ Len(t) \in Nat
  <2>1. d \in 1..d
    OBVIOUS
  <2> QED
    BY <2>1 DEF Closes
<1> SUFFICES ASSUME c[d] # j PROVE FALSE
  OBVIOUS
<1>2. j <= c[d] - 1 /\ c[d] - 1 \in 0..Len(t) /\ j \in 1..(Len(t) + 1)
  BY <1>1
<1> QED
  BY <1>1, <1>2, InnerOf

\* A closing brace is one less to close, if it is not the last.
LEMMA RestClosing ==
  ASSUME NEW t \in Seq(Token), NEW d \in Nat \ {0, 1}, NEW j \in 1..Len(t), NEW b,
         t[j] = RBrace
  PROVE  Rest(t, d, j, b) <=> Rest(t, d - 1, j + 1, b)
<1>n. /\ Len(t) \in Nat /\ d \in 1..d /\ d - 1 \in 1..(d - 1) /\ d - 1 \in 1..d
      /\ (d - 1) + 1 = d /\ 1 \in 1..(d - 1) /\ 1 \in 1..d /\ d \in Nat \ {0}
  OBVIOUS
<1>1. ASSUME NEW c, Closes(t, d, j, b, c)
      PROVE  Rest(t, d - 1, j + 1, b)
  <2> DEFINE e == [n \in 1..(d - 1) |-> c[n]]
  <2>1. /\ c \in [1..d -> 1..Len(t)] /\ c[1] = b /\ c[d] = j
        /\ \A n \in 1..d : t[c[n]] = RBrace
        /\ \A n \in 1..(d - 1) : c[n + 1] < c[n] /\ Inner(t, c[n + 1] + 1, c[n] - 1)
    <3>1. c[d] = j
      BY <1>1, <1>n, ClosesHere
    <3> QED
      BY <1>1, <3>1 DEF Closes
  <2>2. e \in [1..(d - 1) -> 1..Len(t)] /\ \A n \in 1..(d - 1) : e[n] = c[n] /\ n \in 1..d
    BY <2>1
  <2> HIDE DEF e
  <2>3. j < c[d - 1] /\ Inner(t, j + 1, c[d - 1] - 1) /\ c[d - 1] \in Nat
    <3>1. c[(d - 1) + 1] < c[d - 1] /\ Inner(t, c[(d - 1) + 1] + 1, c[d - 1] - 1)
      BY <1>n, <2>1
    <3> QED
      BY <1>n, <2>1, <3>1
  <2>4. j + 1 <= e[d - 1] /\ Inner(t, j + 1, e[d - 1] - 1)
    <3>1. j + 1 <= c[d - 1]
      BY <2>3
    <3> QED
      BY <1>n, <2>2, <2>3, <3>1
  <2>5. e[1] = b /\ \A n \in 1..(d - 1) : t[e[n]] = RBrace
    BY <1>n, <2>1, <2>2
  <2>6. \A n \in 1..((d - 1) - 1) : e[n + 1] < e[n] /\ Inner(t, e[n + 1] + 1, e[n] - 1)
    <3>1. \A n \in 1..((d - 1) - 1) : n \in 1..(d - 1) /\ n + 1 \in 1..(d - 1)
      OBVIOUS
    <3> QED
      BY <2>1, <2>2, <3>1
  <2> QED
    BY <2>2, <2>4, <2>5, <2>6 DEF Rest, Closes
<1>2. ASSUME NEW e, Closes(t, d - 1, j + 1, b, e)
      PROVE  Rest(t, d, j, b)
  <2> DEFINE c == [n \in 1..d |-> IF n = d THEN j ELSE e[n]]
  <2>1. /\ e \in [1..(d - 1) -> 1..Len(t)] /\ e[1] = b /\ j + 1 <= e[d - 1]
        /\ \A n \in 1..(d - 1) : t[e[n]] = RBrace
        /\ \A n \in 1..((d - 1) - 1) : e[n + 1] < e[n] /\ Inner(t, e[n + 1] + 1, e[n] - 1)
        /\ Inner(t, j + 1, e[d - 1] - 1)
    BY <1>2 DEF Closes
  <2>2. /\ c \in [1..d -> 1..Len(t)] /\ c[d] = j
        /\ \A n \in 1..(d - 1) : c[n] = e[n]
    BY <2>1
  <2> HIDE DEF c
  <2>3. \A n \in 1..d : t[c[n]] = RBrace
    <3>1. \A n \in 1..d : n = d \/ n \in 1..(d - 1)
      OBVIOUS
    <3> QED
      BY <2>1, <2>2, <3>1
  <2>4. \A n \in 1..(d - 1) : c[n + 1] < c[n] /\ Inner(t, c[n + 1] + 1, c[n] - 1)
    <3> SUFFICES ASSUME NEW n \in 1..(d - 1)
                 PROVE  c[n + 1] < c[n] /\ Inner(t, c[n + 1] + 1, c[n] - 1)
      OBVIOUS
    <3>1. CASE n = d - 1
      <4>1. c[n + 1] = j /\ c[n] = e[d - 1] /\ e[d - 1] \in 1..Len(t)
        BY <1>n, <2>1, <2>2, <3>1
      <4>2. j < e[d - 1]
        <5> DEFINE x == e[d - 1]
        <5>1. x \in 1..Len(t) /\ j + 1 <= x
          BY <2>1, <4>1
        <5> HIDE DEF x
        <5>2. j < x
          BY <5>1
        <5> QED
          BY <5>2 DEF x
      <4> QED
        BY <2>1, <4>1, <4>2
    <3>2. CASE n # d - 1
      <4>1. n \in 1..((d - 1) - 1) /\ n + 1 \in 1..(d - 1)
        BY <3>2
      <4> QED
        BY <2>1, <2>2, <4>1
    <3> QED
      BY <3>1, <3>2
  <2>5. Inner(t, j, j - 1)
    <3>1. j \in 1..(Len(t) + 1) /\ j - 1 \in 0..Len(t) /\ j > j - 1
      BY <1>n
    <3> QED
      BY <3>1, InnerOf
  <2>6. c[1] = b /\ j <= c[d]
    BY <1>n, <2>1, <2>2
  <2> QED
    BY <2>2, <2>3, <2>4, <2>5, <2>6 DEF Rest, Closes
<1> QED
  BY <1>1, <1>2 DEF Rest

\* The closing brace of the last one open ends the block.
LEMMA RestLast ==
  ASSUME NEW t \in Seq(Token), NEW j \in 1..Len(t), NEW b, t[j] = RBrace
  PROVE  Rest(t, 1, j, b) <=> b = j
<1>1. ASSUME NEW c, Closes(t, 1, j, b, c) PROVE b = j
  <2>1. 1 \in Nat \ {0} /\ c[1] = b
    BY <1>1 DEF Closes
  <2> QED
    BY <1>1, <2>1, ClosesHere
<1>2. ASSUME b = j PROVE Rest(t, 1, j, b)
  <2> DEFINE c == [n \in 1..1 |-> j]
  <2>1. c \in [1..1 -> 1..Len(t)] /\ c[1] = j
    OBVIOUS
  <2> HIDE DEF c
  <2>2. j \in 1..(Len(t) + 1) /\ j - 1 \in 0..Len(t) /\ j > j - 1 /\ j <= j
    OBVIOUS
  <2>3. Inner(t, j, j - 1)
    BY <2>2, InnerOf
  <2>4. \A n \in 1..1 : n = 1
    OBVIOUS
  <2>5. \A n \in 1..(1 - 1) : FALSE
    OBVIOUS
  <2> QED
    BY <1>2, <2>1, <2>2, <2>3, <2>4, <2>5 DEF Rest, Closes
<1> QED
  BY <1>1, <1>2 DEF Rest

\* A quote begins a literal.
LEMMA RestQuote ==
  ASSUME NEW t \in Seq(Token), NEW d \in Nat \ {0}, NEW j \in 1..Len(t), NEW b,
         t[j] = Quote
  PROVE  Rest(t, d, j, b) <=>
           \E k \in (j + 1)..Len(t) : Literal(t, j, k) /\ Rest(t, d, k + 1, b)
<1>b. Quote # RBrace
  BY DEF Quote, RBrace
<1>n. Len(t) \in Nat /\ j \in 1..(Len(t) + 1) /\ d \in 1..d
  OBVIOUS
<1>1. ASSUME NEW c, Closes(t, d, j, b, c)
      PROVE  \E k \in (j + 1)..Len(t) : Literal(t, j, k) /\ Rest(t, d, k + 1, b)
  <2>1. c[d] \in 1..Len(t) /\ t[c[d]] = RBrace /\ j <= c[d] /\ Inner(t, j, c[d] - 1)
    BY <1>1, <1>n DEF Closes
  <2>2. j # c[d]
    BY <1>b, <2>1
  <2>3. j <= c[d] - 1 /\ c[d] - 1 \in 0..Len(t)
    BY <1>n, <2>1, <2>2
  <2>4. PICK k \in (j + 1)..(c[d] - 1) : Literal(t, j, k) /\ Inner(t, k + 1, c[d] - 1)
    BY <1>n, <2>1, <2>3, InnerOf
  <2>5. k \in (j + 1)..Len(t) /\ k + 1 <= c[d]
    BY <1>n, <2>1, <2>4
  <2>6. Closes(t, d, k + 1, b, c)
    BY <1>1, <2>4, <2>5 DEF Closes
  <2> QED
    BY <2>4, <2>5, <2>6 DEF Rest
<1>2. ASSUME NEW k \in (j + 1)..Len(t), Literal(t, j, k), NEW c, Closes(t, d, k + 1, b, c)
      PROVE  Rest(t, d, j, b)
  <2>1. c[d] \in 1..Len(t) /\ k + 1 <= c[d] /\ Inner(t, k + 1, c[d] - 1)
    BY <1>2, <1>n DEF Closes
  <2>2. k \in (j + 1)..(c[d] - 1) /\ j <= c[d] - 1 /\ c[d] - 1 \in 0..Len(t) /\ j <= c[d]
    <3> DEFINE x == c[d]
    <3>1. x \in 1..Len(t) /\ k + 1 <= x
      BY <2>1
    <3> HIDE DEF x
    <3>2. k \in (j + 1)..(x - 1) /\ j <= x - 1 /\ x - 1 \in 0..Len(t) /\ j <= x
      BY <1>n, <3>1
    <3> QED
      BY <3>2 DEF x
  <2>3. Inner(t, j, c[d] - 1)
    BY <1>2, <1>n, <2>1, <2>2, InnerOf
  <2> QED
    BY <1>2, <2>2, <2>3 DEF Rest, Closes
<1> QED
  BY <1>1, <1>2 DEF Rest
(* String literals *)

\* Going back from a token one comes to the first that is no backslash, or to
\* the quote.
LEMMA BackslashesBefore ==
  ASSUME NEW t, NEW q \in Nat, NEW k \in Nat, q < k
  PROVE  \E n \in 0..(k - q - 1) :
           /\ \A b \in (k - n)..(k - 1) : t[b] = Backslash
           /\ k - n - 1 = q \/ t[k - n - 1] # Backslash
<1> DEFINE M == {n \in Nat : n <= k - q - 1 /\ (k - n - 1 = q \/ t[k - n - 1] # Backslash)}
<1>1. k - q - 1 \in M
  OBVIOUS
<1>2. M \in SUBSET Nat /\ M # {}
  BY <1>1
<1>3. PICK n \in M : \A m \in M : n <= m
  <2> HIDE DEF M
  <2> QED
    BY <1>2, LeastNumber
<1>4. ASSUME NEW b \in (k - n)..(k - 1) PROVE t[b] = Backslash
  <2> DEFINE m == k - 1 - b
  <2>1. m \in Nat /\ m < n /\ m <= k - q - 1 /\ k - m - 1 = b
    BY <1>3
  <2>2. m \notin M
    BY <1>3, <2>1
  <2> HIDE DEF m
  <2> QED
    BY <2>1, <2>2
<1>5. n \in 0..(k - q - 1) /\ (k - n - 1 = q \/ t[k - n - 1] # Backslash)
  BY <1>3
<1> QED
  BY <1>4, <1>5

LEMMA Parity ==
  ASSUME NEW n \in Nat
  PROVE  (n + 1) % 2 = 1 <=> n % 2 # 1
OBVIOUS

\* The flag of the scan: a token is escaped if an unescaped backslash is before it.
LEMMA EscapedNext ==
  ASSUME NEW t, NEW q \in Nat, NEW k \in Nat, q < k
  PROVE  Escaped(t, q, k + 1) <=> t[k] = Backslash /\ ~Escaped(t, q, k)
<1>1. ASSUME Escaped(t, q, k + 1) PROVE t[k] = Backslash /\ ~Escaped(t, q, k)
  <2>1. PICK m \in 1..((k + 1) - q - 1) :
          /\ m % 2 = 1
          /\ \A b \in ((k + 1) - m)..((k + 1) - 1) : t[b] = Backslash
          /\ (k + 1) - m - 1 = q \/ t[(k + 1) - m - 1] # Backslash
    BY <1>1 DEF Escaped
  <2>2. k \in ((k + 1) - m)..((k + 1) - 1)
    OBVIOUS
  <2>3. ASSUME NEW n \in 1..(k - q - 1), n % 2 = 1,
               \A b \in (k - n)..(k - 1) : t[b] = Backslash,
               k - n - 1 = q \/ t[k - n - 1] # Backslash
        PROVE  FALSE
    <3>1. CASE n + 1 = m
      <4>1. m % 2 = 1 <=> n % 2 # 1
        BY <3>1, Parity
      <4> QED
        BY <2>1, <2>3, <4>1
    <3>2. CASE m < n + 1
      <4>1. k - n <= k - m /\ k - m <= k - 1 /\ q < k - m
        BY <3>2
      <4>2. (k + 1) - m - 1 = k - m
        OBVIOUS
      <4>3. (k + 1) - m - 1 \in (k - n)..(k - 1) /\ (k + 1) - m - 1 # q
        BY <4>1, <4>2
      <4> QED
        BY <2>1, <2>3, <4>3
    <3>3. CASE n + 1 < m
      <4>1. k - n - 1 \in ((k + 1) - m)..((k + 1) - 1) /\ k - n - 1 # q
        BY <3>3
      <4> QED
        BY <2>1, <2>3, <4>1
    <3> QED
      BY <3>1, <3>2, <3>3
  <2> QED
    BY <2>1, <2>2, <2>3 DEF Escaped
<1>2. ASSUME t[k] = Backslash, ~Escaped(t, q, k) PROVE Escaped(t, q, k + 1)
  <2>1. PICK n \in 0..(k - q - 1) :
          /\ \A b \in (k - n)..(k - 1) : t[b] = Backslash
          /\ k - n - 1 = q \/ t[k - n - 1] # Backslash
    BY BackslashesBefore
  <2>2. n % 2 # 1
    <3>1. CASE n = 0
      BY <3>1
    <3>2. CASE n \in 1..(k - q - 1)
      BY <1>2, <2>1, <3>2 DEF Escaped
    <3> QED
      BY <3>1, <3>2
  <2>3. (n + 1) % 2 = 1
    BY <2>2, Parity
  <2>4. n + 1 \in 1..((k + 1) - q - 1)
    OBVIOUS
  <2>5. \A b \in ((k + 1) - (n + 1))..((k + 1) - 1) : b = k \/ b \in (k - n)..(k - 1)
    OBVIOUS
  <2>6. (k + 1) - (n + 1) - 1 = k - n - 1
    OBVIOUS
  <2> QED
    BY <1>2, <2>1, <2>3, <2>4, <2>5, <2>6 DEF Escaped
<1> QED
  BY <1>1, <1>2

\* The first token of a literal is not escaped.
LEMMA EscapedFirst ==
  ASSUME NEW t, NEW q \in Nat
  PROVE  ~Escaped(t, q, q + 1)
<1>1. 1..((q + 1) - q - 1) = {}
  OBVIOUS
<1> QED
  BY <1>1 DEF Escaped
\* In the text t, a literal that begins at q has not ended before j.
InLiteral(t, q, j) ==
  /\ q < j /\ t[q] = Quote
  /\ \A k \in (q + 1)..(j - 1) : t[k] = Quote => Escaped(t, q, k)

\* What is left of the literal that begins at q, and then of the block.
LiteralRest(t, d, q, j, b) == \E k \in j..Len(t) : Literal(t, q, k) /\ Rest(t, d, k + 1, b)

\* A token that is no quote, or an escaped one, goes on with the literal.
LEMMA LiteralGoesOn ==
  ASSUME NEW t \in Seq(Token), NEW q \in 1..Len(t), NEW j \in 1..Len(t), InLiteral(t, q, j),
         t[j] # Quote \/ Escaped(t, q, j)
  PROVE  /\ InLiteral(t, q, j + 1)
         /\ \A d, b : LiteralRest(t, d, q, j, b) <=> LiteralRest(t, d, q, j + 1, b)
<1>1. InLiteral(t, q, j + 1)
  <2>1. \A k \in (q + 1)..((j + 1) - 1) : k = j \/ k \in (q + 1)..(j - 1)
    OBVIOUS
  <2> QED
    BY <2>1 DEF InLiteral
<1>2. ~Literal(t, q, j)
  BY DEF Literal
<1>3. \A k : k \in j..Len(t) <=> k = j \/ k \in (j + 1)..Len(t)
  OBVIOUS
<1>4. \A d, b : LiteralRest(t, d, q, j, b) <=> LiteralRest(t, d, q, j + 1, b)
  BY <1>2, <1>3 DEF LiteralRest
<1> QED
  BY <1>1, <1>4

\* A quote that is not escaped ends it.
LEMMA LiteralEnds ==
  ASSUME NEW t \in Seq(Token), NEW q \in 1..Len(t), NEW j \in 1..Len(t), InLiteral(t, q, j),
         t[j] = Quote, ~Escaped(t, q, j), NEW d, NEW b
  PROVE  LiteralRest(t, d, q, j, b) <=> Rest(t, d, j + 1, b)
<1>1. Literal(t, q, j)
  BY DEF Literal, InLiteral
<1>2. ASSUME NEW k \in j..Len(t), Literal(t, q, k) PROVE k = j
  <2> SUFFICES ASSUME k # j PROVE FALSE
    OBVIOUS
  <2>1. j \in (q + 1)..(k - 1)
    BY DEF InLiteral
  <2> QED
    BY <1>2, <2>1 DEF Literal
<1>3. j \in j..Len(t)
  OBVIOUS
<1> QED
  BY <1>1, <1>2, <1>3 DEF LiteralRest

(* The SQL after the block *)

\* strip() takes off the blanks at both ends and nothing else.
LEMMA StripOf ==
  ASSUME NEW s \in Seq(Token)
  PROVE  \/ Strip(s) = <<>> /\ \A n \in 1..Len(s) : s[n] = "blank"
         \/ \E f, l \in 1..Len(s) :
              /\ f <= l /\ Strip(s) = SubSeq(s, f, l)
              /\ s[f] # "blank" /\ s[l] # "blank"
              /\ \A n \in 1..Len(s) : n < f \/ l < n => s[n] = "blank"
<1> DEFINE Solid == {n \in DOMAIN s : s[n] # "blank"}
<1>d. DOMAIN s = 1..Len(s) /\ Len(s) \in Nat
  OBVIOUS
<1>1. CASE Solid = {}
  BY <1>d, <1>1 DEF Strip
<1>2. CASE Solid # {}
  <2> DEFINE f == CHOOSE n \in Solid : \A k \in Solid : n <= k
             l == CHOOSE n \in Solid : \A k \in Solid : n >= k
  <2>1. Strip(s) = SubSeq(s, f, l)
    BY <1>2 DEF Strip
  <2>2. Solid \in SUBSET Nat /\ Solid \in SUBSET (0..Len(s))
    BY <1>d
  <2>3. \A n \in Solid : n \in 1..Len(s) /\ s[n] # "blank"
    BY <1>d
  <2>4. \A n \in 1..Len(s) : n \notin Solid => s[n] = "blank"
    BY <1>d
  <2> HIDE DEF Solid
  <2>5. f \in Solid /\ \A k \in Solid : f <= k
    BY <1>2, <2>2, LeastNumber
  <2>6. l \in Solid /\ \A k \in Solid : l >= k
    <3>1. \E n \in Solid : \A k \in Solid : k <= n
      BY <1>2, <1>d, <2>2, GreatestNumber
    <3>2. \E n \in Solid : \A k \in Solid : n >= k
      BY <3>1, <2>2
    <3> QED
      BY <3>2
  <2> HIDE DEF f, l
  <2>7. f \in 1..Len(s) /\ l \in 1..Len(s) /\ f <= l
    BY <2>3, <2>5, <2>6
  <2>8. ASSUME NEW n \in 1..Len(s), n < f \/ l < n PROVE s[n] = "blank"
    <3>1. n \notin Solid
      BY <2>5, <2>6, <2>7, <2>8
    <3> QED
      BY <3>1, <2>4
  <2> QED
    BY <2>1, <2>3, <2>5, <2>6, <2>7, <2>8
<1> QED
  BY <1>1, <1>2

LEMMA StretchOfRest ==
  ASSUME NEW S, NEW t \in Seq(S), NEW a \in 0..Len(t),
         NEW f \in 1..(Len(t) - a), NEW l \in f..(Len(t) - a)
  PROVE  SubSeq(SubSeq(t, a + 1, Len(t)), f, l) = SubSeq(t, a + f, a + l)
<1> DEFINE r == SubSeq(t, a + 1, Len(t))
<1>1. r \in Seq(S) /\ Len(r) = Len(t) - a /\ \A n \in 1..(Len(t) - a) : r[n] = t[a + n]
  OBVIOUS
<1> HIDE DEF r
<1>2. SubSeq(r, f, l) \in Seq(S) /\ SubSeq(t, a + f, a + l) \in Seq(S)
  BY <1>1
<1>3. Len(SubSeq(r, f, l)) = Len(SubSeq(t, a + f, a + l))
  BY <1>1
<1>4. \A n \in 1..Len(SubSeq(r, f, l)) : SubSeq(r, f, l)[n] = SubSeq(t, a + f, a + l)[n]
  BY <1>1
<1>5. SubSeq(r, f, l) = SubSeq(t, a + f, a + l)
  BY <1>2, <1>3, <1>4, SeqEqual
<1> QED
  BY <1>5 DEF r

\* r is what stands in the text after a, without the blanks around it.
RestIs(t, a, r) ==
  \/ r = <<>> /\ \A n \in (a + 1)..Len(t) : t[n] = "blank"
  \/ r # <<>> /\ \E first, last \in 1..Len(t) :
       /\ a < first /\ first <= last
       /\ r = SubSeq(t, first, last)
       /\ t[first] # "blank" /\ t[last] # "blank"
       /\ \A n \in (a + 1)..(first - 1) : t[n] = "blank"
       /\ \A n \in (last + 1)..Len(t) : t[n] = "blank"

LEMMA RestIsStretch ==
  ASSUME NEW t \in Seq(Token), NEW a \in 1..Len(t),
         NEW first \in (a + 1)..Len(t), NEW last \in first..Len(t),
         t[first] # "blank", t[last] # "blank",
         \A n \in (a + 1)..Len(t) : n < first \/ last < n => t[n] = "blank"
  PROVE  SubSeq(t, first, last) \in Seq(Token) /\ RestIs(t, a, SubSeq(t, first, last))
<1> DEFINE r == SubSeq(t, first, last)
<1>1. r \in Seq(Token) /\ Len(r) = last - first + 1
  OBVIOUS
<1>2. Len(r) # 0
  BY <1>1
<1>3. r # <<>>
  BY <1>1, <1>2
<1>4. /\ first \in 1..Len(t) /\ last \in 1..Len(t) /\ a < first /\ first <= last
      /\ \A n \in (a + 1)..(first - 1) : t[n] = "blank"
      /\ \A n \in (last + 1)..Len(t) : t[n] = "blank"
  OBVIOUS
<1>5. r = SubSeq(t, first, last)
  OBVIOUS
<1> HIDE DEF r
<1>6. RestIs(t, a, r)
  BY <1>3, <1>4, <1>5 DEF RestIs
<1> QED
  BY <1>1, <1>6 DEF r

LEMMA SqlAfter ==
  ASSUME NEW t \in Seq(Token), NEW a \in 1..Len(t)
  PROVE  /\ Strip(SubSeq(t, a + 1, Len(t))) \in Seq(Token)
         /\ RestIs(t, a, Strip(SubSeq(t, a + 1, Len(t))))
<1> DEFINE s == SubSeq(t, a + 1, Len(t))
<1>1. s \in Seq(Token) /\ Len(s) = Len(t) - a /\ \A n \in 1..(Len(t) - a) : s[n] = t[a + n]
  OBVIOUS
<1>2. ASSUME NEW n \in (a + 1)..Len(t)
      PROVE  n - a \in 1..(Len(t) - a) /\ t[n] = s[n - a]
  <2>1. n - a \in 1..(Len(t) - a) /\ a + (n - a) = n
    OBVIOUS
  <2> QED
    BY <1>1, <2>1
<1>s. \A f \in 1..(Len(t) - a) : \A l \in f..(Len(t) - a) : SubSeq(s, f, l) = SubSeq(t, a + f, a + l)
  <2>1. a \in 0..Len(t)
    OBVIOUS
  <2> QED
    BY <2>1, StretchOfRest
<1> HIDE DEF s
<1>3. ASSUME Strip(s) = <<>>, \A n \in 1..Len(s) : s[n] = "blank"
      PROVE  Strip(s) \in Seq(Token) /\ RestIs(t, a, Strip(s))
  <2>1. \A n \in (a + 1)..Len(t) : t[n] = "blank"
    BY <1>1, <1>2, <1>3
  <2>2. <<>> \in Seq(Token) /\ RestIs(t, a, <<>>)
    BY <2>1, EmptySeq DEF RestIs
  <2> QED
    BY <1>3, <2>2, Zenon
<1>4. ASSUME NEW f \in 1..Len(s), NEW l \in 1..Len(s), f <= l, Strip(s) = SubSeq(s, f, l),
             s[f] # "blank", s[l] # "blank",
             \A n \in 1..Len(s) : n < f \/ l < n => s[n] = "blank"
      PROVE  Strip(s) \in Seq(Token) /\ RestIs(t, a, Strip(s))
  <2> DEFINE first == a + f
             last == a + l
  <2>1. f \in 1..(Len(t) - a) /\ l \in f..(Len(t) - a)
    BY <1>1, <1>4
  <2>2. SubSeq(s, f, l) = SubSeq(t, first, last)
    BY <1>s, <2>1, Zenon
  <2>3. /\ first \in (a + 1)..Len(t) /\ last \in first..Len(t)
        /\ t[first] # "blank" /\ t[last] # "blank"
    BY <1>1, <1>4, <2>1
  <2>4. ASSUME NEW n \in (a + 1)..Len(t), n < first \/ last < n PROVE t[n] = "blank"
    <3>1. n - a \in 1..Len(s) /\ (n - a < f \/ l < n - a)
      BY <1>1, <2>4
    <3> QED
      BY <1>2, <1>4, <3>1
  <2> HIDE DEF first, last
  <2>5. SubSeq(t, first, last) \in Seq(Token) /\ RestIs(t, a, SubSeq(t, first, last))
    BY <2>3, <2>4, RestIsStretch
  <2> QED
    BY <1>4, <2>2, <2>5, Zenon
<1>5. \/ Strip(s) = <<>> /\ \A n \in 1..Len(s) : s[n] = "blank"
      \/ \E f, l \in 1..Len(s) :
           /\ f <= l /\ Strip(s) = SubSeq(s, f, l)
           /\ s[f] # "blank" /\ s[l] # "blank"
           /\ \A n \in 1..Len(s) : n < f \/ l < n => s[n] = "blank"
  BY <1>1, StripOf
<1>6. Strip(s) \in Seq(Token) /\ RestIs(t, a, Strip(s))
  BY <1>3, <1>4, <1>5
<1> QED
  BY <1>6 DEF s

(* The state machine *)

\* The scan is, or was, at the brace of the first keyword.
Found ==
  \E m \in KeywordStarts : (\A n \in KeywordStarts : m <= n) /\ KeywordAt(m, open)

Control ==
  /\ pc = "returned" <=> outcome # "none"
  /\ pc \in {"read", "search"} => i = 0 /\ open = 0 /\ depth = 0 /\ ~in_string
  /\ pc \in {"scan", "load", "check", "sql"} => Found
  /\ outcome \in {"ok", "no SQL", "unbalanced"} => Found
  /\ outcome = "no config" => KeywordStarts = {}

\* The block that begins at open is what the scan still expects.
Scanning ==
  pc = "scan" =>
    /\ open <= i /\ depth <= i - open
    /\ i = open => ~in_string
    /\ i > open /\ ~in_string =>
         \A b \in DOMAIN text : Block(text, open, b) <=> Rest(text, depth, i, b)
    /\ in_string =>
         \E q \in DOMAIN text :
           /\ InLiteral(text, q, i)
           /\ escape <=> Escaped(text, q, i)
           /\ \A b \in DOMAIN text : Block(text, open, b) <=> LiteralRest(text, depth, q, i, b)

Matched ==
  /\ pc \in {"load", "check", "sql"} \/ outcome \in {"ok", "no SQL"} =>
       i \in DOMAIN text /\ \A b \in DOMAIN text : Block(text, open, b) <=> b = i
  /\ outcome = "unbalanced" => \A b \in DOMAIN text : ~Block(text, open, b)

SqlIs ==
  outcome \in {"ok", "no SQL"} =>
    RestIs(text, i, sql) /\ (outcome = "no SQL" <=> sql = <<>>)

IInv == TypeOK /\ Control /\ Scanning /\ Matched /\ SqlIs

LEMMA Start == Init => IInv
<1> SUFFICES ASSUME Init PROVE IInv
  OBVIOUS
<1>1. TypeOK
  <2>1. text \in Seq(Token) /\ Len(text) \in Nat /\ <<>> \in Seq(Token)
    BY TextsAssumption, EmptySeq DEF Init
  <2>2. outcome \in Outcomes
    BY DEF Init, Outcomes
  <2>3. i \in 0..(Len(text) + 1) /\ depth \in 0..Len(text)
    BY <2>1 DEF Init
  <2> QED
    BY <2>1, <2>2, <2>3 DEF Init, TypeOK
<1> QED
  BY <1>1 DEF Init, IInv, Control, Scanning, Matched, SqlIs

\* A keyword has one brace.
LEMMA OneBrace ==
  ASSUME TypeOK, NEW m \in KeywordStarts, NEW a \in Nat, NEW b \in Nat,
         KeywordAt(m, a), KeywordAt(m, b)
  PROVE  a = b
<1>1. m \in Nat /\ LBrace # "blank"
  BY DEF KeywordStarts, LBrace, TypeOK
<1>2. ~(a < b) /\ ~(b < a)
  BY <1>1 DEF KeywordAt
<1> QED
  BY <1>2

\* Where the keywords are depends on the text only.
LEMMA FoundStays ==
  ASSUME UNCHANGED text
  PROVE  KeywordStarts' = KeywordStarts /\ (UNCHANGED open => (Found' <=> Found))
BY DEF Found, KeywordStarts, KeywordAt

LEMMA Places ==
  ASSUME TypeOK
  PROVE  /\ text \in Seq(Token) /\ Len(text) \in Nat /\ DOMAIN text = 1..Len(text)
         /\ open \in Nat /\ i \in Nat /\ depth \in Nat
<1>1. text \in Seq(Token)
  BY DEF TypeOK
<1>2. Len(text) \in Nat /\ DOMAIN text = 1..Len(text)
  BY <1>1
<1> QED
  BY <1>1, <1>2 DEF TypeOK

\* During the scan.
LEMMA ScanPlaces ==
  ASSUME IInv, pc = "scan"
  PROVE  /\ outcome = "none" /\ escape \in BOOLEAN /\ in_string \in BOOLEAN
         /\ open \in 1..Len(text) /\ text[open] = LBrace
         /\ i \in open..(Len(text) + 1)
         /\ depth <= i - open /\ (depth = 0 <=> i = open)
<1>1. PICK m \in KeywordStarts : KeywordAt(m, open)
  BY DEF IInv, Control, Found
<1>2. m < open /\ m \in DOMAIN text /\ text[open] = LBrace
  BY <1>1 DEF KeywordAt, KeywordStarts
<1>3. TypeOK
  BY DEF IInv
<1>4. open \in {0} \cup 1..Len(text) /\ m \in 1..Len(text)
  BY <1>2, <1>3, Places DEF TypeOK
<1>5. open \in 1..Len(text)
  BY <1>2, <1>3, <1>4, Places
<1>6. i \in 0..(Len(text) + 1) /\ open <= i /\ depth <= i - open /\ (depth = 0 <=> i = open)
  BY <1>3 DEF TypeOK, IInv, Scanning
<1>7. i \in open..(Len(text) + 1)
  BY <1>3, <1>5, <1>6, Places
<1> QED
  BY <1>2, <1>5, <1>6, <1>7 DEF IInv, TypeOK, Control

LEMMA ReadTextStep == IInv /\ ReadText => IInv'
<1> SUFFICES ASSUME IInv, ReadText PROVE IInv'
  OBVIOUS
<1>1. /\ pc = "read" /\ UNCHANGED <<text, open, i, depth, in_string, escape, config, sql>>
      /\ pc' \in {"search", "returned"} /\ (pc' = "returned" <=> outcome' # "none")
      /\ outcome' \in {"none"} \cup ReadErrors
  BY DEF ReadText, Return, scanner, IInv, Control, ReadErrors
<1>2. TypeOK'
  BY <1>1 DEF IInv, TypeOK, Outcomes
<1>3. outcome' \notin {"ok", "no SQL", "unbalanced", "no config"}
  BY <1>1 DEF ReadErrors
<1> QED
  BY <1>1, <1>2, <1>3 DEF IInv, Control, Scanning, Matched, SqlIs

LEMMA SearchStep == IInv /\ Search => IInv'
<1> SUFFICES ASSUME IInv, Search PROVE IInv'
  OBVIOUS
<1>1. /\ pc = "search" /\ outcome = "none" /\ i = 0 /\ open = 0 /\ depth = 0 /\ ~in_string
      /\ UNCHANGED <<text, depth, in_string, escape, config, sql>>
  BY DEF Search, IInv, Control
<1>2. CASE KeywordStarts = {} /\ Return("no config") /\ UNCHANGED <<open, i>>
  <2>1. TypeOK'
    BY <1>1, <1>2 DEF IInv, TypeOK, Return, Outcomes
  <2>2. KeywordStarts' = {}
    BY <1>1, <1>2, FoundStays
  <2> QED
    BY <1>1, <1>2, <2>1, <2>2 DEF IInv, Control, Scanning, Matched, SqlIs, Return
<1>3. ASSUME NEW m \in KeywordStarts, NEW b \in DOMAIN text,
             \A n \in KeywordStarts : m <= n, KeywordAt(m, b),
             pc' = "scan", open' = b, i' = b, UNCHANGED outcome
      PROVE  IInv'
  <2>1. b \in 1..Len(text) /\ Len(text) \in Nat
    BY DEF IInv, TypeOK
  <2>2. TypeOK'
    BY <1>1, <1>3, <2>1 DEF IInv, TypeOK
  <2>3. Found'
    BY <1>1, <1>3 DEF Found, KeywordStarts, KeywordAt
  <2>4. Control'
    BY <1>1, <1>3, <2>3 DEF Control
  <2>5. Scanning'
    BY <1>1, <1>3, <2>1 DEF Scanning
  <2> QED
    BY <1>1, <1>3, <2>2, <2>4, <2>5 DEF IInv, Matched, SqlIs
<1> QED
  BY <1>2, <1>3 DEF Search

LEMMA ScanStringStep == IInv /\ ScanString => IInv'
<1> SUFFICES ASSUME IInv, ScanString PROVE IInv'
  OBVIOUS
<1>1. /\ pc = "scan" /\ outcome = "none" /\ i <= Len(text) /\ in_string
      /\ escape' = (text[i] = Backslash /\ ~escape)
      /\ in_string' = (text[i] # Quote \/ escape)
      /\ i' = i + 1
      /\ UNCHANGED <<text, pc, outcome, open, depth, config, sql>>
  BY DEF ScanString, IInv, Control
<1>2. /\ text \in Seq(Token) /\ Len(text) \in Nat /\ open \in Nat /\ i \in Nat /\ depth \in Nat
      /\ escape \in BOOLEAN /\ open <= i /\ depth <= i - open /\ i # open /\ open < i
      /\ depth # 0 /\ i \in 1..Len(text)
  BY <1>1 DEF IInv, TypeOK, Scanning
<1>3. PICK q \in DOMAIN text :
        /\ InLiteral(text, q, i)
        /\ escape <=> Escaped(text, q, i)
        /\ \A b \in DOMAIN text : Block(text, open, b) <=> LiteralRest(text, depth, q, i, b)
  BY <1>1 DEF IInv, Scanning
<1>4. q \in 1..Len(text) /\ q \in Nat /\ q < i
  BY <1>2, <1>3 DEF InLiteral
<1>5. TypeOK'
  <2>1. escape' => in_string'
    BY <1>1 DEF Quote, Backslash
  <2>2. i + 1 \in 0..(Len(text) + 1) /\ i + 1 # open
    BY <1>2
  <2>3. pc' = "scan" => (depth' = 0 <=> i' = open')
    BY <1>1, <1>2, <2>2
  <2> QED
    BY <1>1, <1>2, <2>1, <2>2, <2>3 DEF IInv, TypeOK
<1>6. Control'
  BY <1>1, FoundStays DEF IInv, Control
<1>7. CASE text[i] = Quote /\ ~escape
  <2>1. \A b \in DOMAIN text : Block(text, open, b) <=> Rest(text, depth, i + 1, b)
    BY <1>2, <1>3, <1>4, <1>7, LiteralEnds
  <2>2. Scanning'
    BY <1>1, <1>2, <1>7, <2>1 DEF Scanning
  <2> QED
    BY <1>1, <1>5, <1>6, <2>2 DEF IInv, Matched, SqlIs
<1>8. CASE text[i] # Quote \/ escape
  <2>1. /\ InLiteral(text, q, i + 1)
        /\ \A b \in DOMAIN text : Block(text, open, b) <=> LiteralRest(text, depth, q, i + 1, b)
    BY <1>2, <1>3, <1>4, <1>8, LiteralGoesOn
  <2>2. escape' <=> Escaped(text, q, i + 1)
    BY <1>1, <1>2, <1>3, <1>4, EscapedNext
  <2>3. \E p \in DOMAIN text :
          /\ InLiteral(text, p, i + 1)
          /\ escape' <=> Escaped(text, p, i + 1)
          /\ \A b \in DOMAIN text : Block(text, open, b) <=> LiteralRest(text, depth, p, i + 1, b)
    BY <2>1, <2>2
  <2>4. open <= i + 1 /\ depth <= (i + 1) - open /\ i + 1 # open
    BY <1>2
  <2>5. in_string'
    BY <1>1, <1>8
  <2>6. Scanning'
    BY <1>1, <2>3, <2>4, <2>5 DEF Scanning
  <2> QED
    BY <1>1, <1>5, <1>6, <2>6 DEF IInv, Matched, SqlIs
<1> QED
  BY <1>7, <1>8

\* The token at i leaves the scan expecting, at i + 1 with d braces open, what
\* it expected at i.
LEMMA ScanGoesOn ==
  ASSUME IInv, pc = "scan", i \in 1..Len(text), ~in_string, NEW d \in Nat,
         0 < d, d <= depth + 1,
         pc' = pc, i' = i + 1, depth' = d, in_string' = FALSE,
         UNCHANGED <<text, outcome, open, escape, config, sql>>,
         \A b \in DOMAIN text : Block(text, open, b) <=> Rest(text, d, i + 1, b)
  PROVE  IInv'
<1>1. /\ text \in Seq(Token) /\ Len(text) \in Nat /\ depth \in Nat /\ open \in 1..Len(text)
      /\ escape = FALSE /\ open <= i /\ depth <= i - open /\ i \in Nat /\ outcome = "none"
  BY Places, ScanPlaces DEF IInv, TypeOK
<1>2. i + 1 \in 0..(Len(text) + 1) /\ d \in 0..Len(text) /\ d # 0 /\ i + 1 # open
      /\ open <= i + 1 /\ d <= (i + 1) - open
  BY <1>1
<1>3. TypeOK'
  BY <1>1, <1>2 DEF IInv, TypeOK
<1>4. Control'
  BY FoundStays DEF IInv, Control
<1>5. Scanning'
  BY <1>1, <1>2 DEF Scanning
<1> QED
  BY <1>1, <1>3, <1>4, <1>5 DEF IInv, Matched, SqlIs

LEMMA ScanPlainStep == IInv /\ ScanPlain => IInv'
<1> SUFFICES ASSUME IInv, ScanPlain PROVE IInv'
  OBVIOUS
<1>1. /\ pc = "scan" /\ outcome = "none" /\ i <= Len(text) /\ ~in_string
      /\ UNCHANGED <<text, outcome, open, escape, config, sql>>
  BY DEF ScanPlain, IInv, Control
<1>2. /\ text \in Seq(Token) /\ Len(text) \in Nat /\ open \in 1..Len(text) /\ i \in 1..Len(text)
      /\ depth \in Nat /\ open <= i /\ (depth = 0 <=> i = open)
      /\ text[open] = LBrace /\ DOMAIN text = 1..Len(text)
  <2>1. TypeOK
    BY DEF IInv
  <2> QED
    BY <1>1, <2>1, Places, ScanPlaces
<1>3. i # open => \A b \in DOMAIN text : Block(text, open, b) <=> Rest(text, depth, i, b)
  BY <1>1, <1>2 DEF IInv, Scanning
<1>t. Quote # LBrace /\ Quote # RBrace /\ LBrace # RBrace
  BY DEF Quote, LBrace, RBrace
<1>d. i # open => depth \in Nat \ {0}
  BY <1>2
<1>4. CASE text[i] = Quote /\ in_string' = TRUE /\ i' = i + 1 /\ UNCHANGED <<pc, depth>>
  <2>1. i # open /\ depth \in Nat \ {0}
    BY <1>2, <1>4, <1>d, <1>t
  <2>2. \A b \in DOMAIN text : Block(text, open, b) <=> LiteralRest(text, depth, i, i + 1, b)
    BY <1>2, <1>3, <1>4, <2>1, RestQuote DEF LiteralRest
  <2>3. ~escape /\ ~Escaped(text, i, i + 1) /\ escape \in BOOLEAN
    BY <1>1, <1>2, EscapedFirst DEF IInv, TypeOK
  <2>4. InLiteral(text, i, i + 1)
    <3>1. (i + 1)..((i + 1) - 1) = {} /\ i < i + 1
      BY <1>2
    <3> QED
      BY <1>4, <3>1 DEF InLiteral
  <2>5. TypeOK'
    <3>1. i + 1 \in 0..(Len(text) + 1) /\ i + 1 # open
      BY <1>2
    <3>2. pc' = "scan" => (depth' = 0 <=> i' = open')
      BY <1>1, <1>4, <2>1, <3>1
    <3> QED
      BY <1>1, <1>4, <3>1, <3>2 DEF IInv, TypeOK
  <2>6. Control'
    BY <1>1, <1>4, FoundStays DEF IInv, Control
  <2>7. Scanning'
    <3>1. open <= i + 1 /\ depth <= (i + 1) - open /\ i + 1 # open
      BY <1>1, <1>2, <2>1 DEF IInv, Scanning
    <3>2. \E q \in DOMAIN text :
            /\ InLiteral(text, q, i + 1)
            /\ escape <=> Escaped(text, q, i + 1)
            /\ \A b \in DOMAIN text : Block(text, open, b) <=> LiteralRest(text, depth, q, i + 1, b)
      BY <1>2, <2>2, <2>3, <2>4
    <3> QED
      BY <1>1, <1>4, <3>1, <3>2 DEF Scanning
  <2> QED
    BY <1>1, <1>4, <2>5, <2>6, <2>7 DEF IInv, Matched, SqlIs
<1>5. CASE text[i] = LBrace /\ depth' = depth + 1 /\ i' = i + 1 /\ UNCHANGED <<pc, in_string>>
  <2>1. \A b \in DOMAIN text : Block(text, open, b) <=> Rest(text, depth + 1, i + 1, b)
    <3>1. CASE i = open
      <4>1. depth + 1 = 1
        BY <1>2, <3>1
      <4> QED
        BY <1>2, <3>1, <4>1, RestFirst
    <3>2. CASE i # open
      BY <1>2, <1>3, <1>5, <1>d, <3>2, RestOpening
    <3> QED
      BY <3>1, <3>2
  <2>2. depth + 1 \in Nat /\ 0 < depth + 1 /\ depth + 1 <= depth + 1
    BY <1>2
  <2>3. in_string' = FALSE
    BY <1>1, <1>5 DEF IInv, TypeOK
  <2> QED
    BY <1>1, <1>2, <1>5, <2>1, <2>2, <2>3, ScanGoesOn
<1>6. CASE /\ text[i] = RBrace /\ depth' = depth - 1
           /\ IF depth = 1 THEN pc' = "load" /\ i' = i ELSE pc' = pc /\ i' = i + 1
           /\ UNCHANGED in_string
  <2>1. i # open
    BY <1>2, <1>6, <1>t
  <2>2. CASE depth = 1
    <3>1. \A b \in DOMAIN text : Block(text, open, b) <=> b = i
      BY <1>2, <1>3, <1>6, <2>1, <2>2, RestLast
    <3>2. depth - 1 = 0
      BY <2>2
    <3>3. TypeOK'
      BY <1>1, <1>2, <1>6, <2>2, <3>2 DEF IInv, TypeOK
    <3>4. Control'
      BY <1>1, <1>6, <2>2, FoundStays DEF IInv, Control
    <3>5. Matched'
      BY <1>1, <1>2, <1>6, <2>2, <3>1 DEF Matched
    <3> QED
      BY <1>1, <1>6, <2>2, <3>3, <3>4, <3>5 DEF IInv, Scanning, SqlIs
  <2>3. CASE depth # 1
    <3>1. depth \in Nat \ {0, 1}
      BY <1>d, <2>1, <2>3
    <3>2. \A b \in DOMAIN text : Block(text, open, b) <=> Rest(text, depth - 1, i + 1, b)
      BY <1>2, <1>3, <1>6, <2>1, <3>1, RestClosing
    <3>3. depth - 1 \in Nat /\ 0 < depth - 1 /\ depth - 1 <= depth + 1
      BY <3>1
    <3>4. in_string' = FALSE
      BY <1>1, <1>6 DEF IInv, TypeOK
    <3> QED
      BY <1>1, <1>2, <1>6, <2>3, <3>2, <3>3, <3>4, ScanGoesOn
  <2> QED
    BY <2>2, <2>3
<1>7. CASE /\ text[i] \notin {Quote, LBrace, RBrace} /\ i' = i + 1
           /\ UNCHANGED <<pc, depth, in_string>>
  <2>1. i # open
    BY <1>2, <1>7
  <2>2. \A b \in DOMAIN text : Block(text, open, b) <=> Rest(text, depth, i + 1, b)
    BY <1>2, <1>3, <1>7, <1>d, <2>1, RestPlain
  <2>3. depth \in Nat /\ 0 < depth /\ depth <= depth + 1
    BY <1>d, <2>1
  <2>4. in_string' = FALSE
    BY <1>1, <1>7 DEF IInv, TypeOK
  <2> QED
    BY <1>1, <1>2, <1>7, <2>2, <2>3, <2>4, ScanGoesOn
<1> QED
  BY <1>4, <1>5, <1>6, <1>7 DEF ScanPlain

LEMMA EndOfTextStep == IInv /\ EndOfText => IInv'
<1> SUFFICES ASSUME IInv, EndOfText PROVE IInv'
  OBVIOUS
<1>1. /\ pc = "scan" /\ i > Len(text) /\ pc' = "returned" /\ outcome' = "unbalanced"
      /\ UNCHANGED <<text, open, i, depth, in_string, escape, config, sql>>
  BY DEF EndOfText, Return, scanner
<1>2. /\ text \in Seq(Token) /\ Len(text) \in Nat /\ open \in 1..Len(text) /\ i \in Nat
      /\ open < i /\ depth \in Nat \ {0} /\ DOMAIN text = 1..Len(text)
  <2>1. TypeOK
    BY DEF IInv
  <2> QED
    BY <1>1, <2>1, Places, ScanPlaces
<1>3. TypeOK'
  BY <1>1 DEF IInv, TypeOK, Outcomes, ScanErrors
<1>4. Control'
  BY <1>1, FoundStays DEF IInv, Control
<1>5. \A b \in DOMAIN text : ~Block(text, open, b)
  <2>1. CASE in_string
    <3>1. \A d, q, b : ~LiteralRest(text, d, q, i, b)
      BY <1>1, <1>2 DEF LiteralRest
    <3> QED
      BY <1>1, <2>1, <3>1 DEF IInv, Scanning
  <2>2. CASE ~in_string
    <3>1. \A b \in DOMAIN text : Block(text, open, b) <=> Rest(text, depth, i, b)
      BY <1>1, <1>2, <2>2 DEF IInv, Scanning
    <3> QED
      BY <1>1, <1>2, <3>1, RestEnd
  <2> QED
    BY <2>1, <2>2
<1>6. Matched'
  BY <1>1, <1>5 DEF Matched
<1> QED
  BY <1>1, <1>3, <1>4, <1>6 DEF IInv, Scanning, SqlIs

\* LoadJson and CheckConfig read the block that was found.
LEMMA StructureStays ==
  ASSUME IInv, pc \in {"load", "check"}, pc' \in {"check", "sql", "returned"},
         outcome' \in {"none"} \cup ConfigErrors, pc' = "returned" <=> outcome' # "none",
         UNCHANGED <<text, open, i, depth, in_string, escape, sql>>,
         config' = <<>> \/ \E c \in Config : config' = <<c>>
  PROVE  IInv'
<1>1. outcome' \notin {"ok", "no SQL", "unbalanced", "no config"}
  BY DEF ConfigErrors
<1>2. TypeOK'
  BY DEF IInv, TypeOK, Outcomes
<1>3. Control'
  BY <1>1, FoundStays DEF IInv, Control
<1>4. Matched'
  BY <1>1 DEF IInv, Matched
<1> QED
  BY <1>1, <1>2, <1>3, <1>4 DEF IInv, Scanning, SqlIs

LEMMA LoadJsonStep == IInv /\ LoadJson => IInv'
<1> SUFFICES ASSUME IInv, LoadJson PROVE IInv'
  OBVIOUS
<1>1. /\ pc = "load" /\ outcome = "none" /\ pc' \in {"check", "returned"}
      /\ outcome' \in {"none", "not JSON"} /\ (pc' = "returned" <=> outcome' # "none")
      /\ UNCHANGED <<text, open, i, depth, in_string, escape, sql>>
      /\ (UNCHANGED config \/ \E c \in Config : config' = <<c>>)
  BY DEF LoadJson, Return, scanner, IInv, Control
<1>2. config' = <<>> \/ \E c \in Config : config' = <<c>>
  BY <1>1 DEF IInv, TypeOK
<1>3. outcome' \in {"none"} \cup ConfigErrors
  BY <1>1 DEF ConfigErrors
<1> QED
  BY <1>1, <1>2, <1>3, StructureStays

LEMMA CheckConfigStep == IInv /\ CheckConfig => IInv'
<1> SUFFICES ASSUME IInv, CheckConfig PROVE IInv'
  OBVIOUS
<1>1. /\ pc = "check" /\ outcome = "none" /\ pc' \in {"sql", "returned"}
      /\ outcome' \in {"none"} \cup ConfigErrors /\ (pc' = "returned" <=> outcome' # "none")
      /\ UNCHANGED <<text, open, i, depth, in_string, escape, config, sql>>
  BY DEF CheckConfig, Return, scanner, IInv, Control, ConfigErrors
<1>2. config' = <<>> \/ \E c \in Config : config' = <<c>>
  BY <1>1 DEF IInv, TypeOK
<1> QED
  BY <1>1, <1>2, StructureStays

LEMMA TakeSqlStep == IInv /\ TakeSql => IInv'
<1> SUFFICES ASSUME IInv, TakeSql PROVE IInv'
  OBVIOUS
<1>1. /\ pc = "sql" /\ pc' = "returned" /\ sql' = Strip(SubSeq(text, i + 1, Len(text)))
      /\ outcome' = IF sql' = <<>> THEN "no SQL" ELSE "ok"
      /\ UNCHANGED <<text, open, i, depth, in_string, escape, config>>
  BY DEF TakeSql, Return, scanner
<1>2. text \in Seq(Token) /\ i \in 1..Len(text)
  <2>1. TypeOK /\ i \in DOMAIN text
    BY <1>1 DEF IInv, Matched
  <2> QED
    BY <2>1, Places
<1>3. sql' \in Seq(Token) /\ RestIs(text, i, sql')
  BY <1>1, <1>2, SqlAfter, Zenon
<1>4. TypeOK'
  BY <1>1, <1>3 DEF IInv, TypeOK, Outcomes
<1>5. Control'
  BY <1>1, FoundStays DEF IInv, Control
<1>6. Matched'
  BY <1>1 DEF IInv, Matched
<1>7. SqlIs'
  BY <1>1, <1>3 DEF SqlIs
<1> QED
  BY <1>1, <1>4, <1>5, <1>6, <1>7 DEF IInv, Scanning

LEMMA Invariance == Spec => []IInv
<1>1. IInv /\ [Next]_vars => IInv'
  <2> SUFFICES ASSUME IInv, [Next]_vars PROVE IInv'
    OBVIOUS
  <2>1. CASE UNCHANGED vars
    <3>1. UNCHANGED <<text, pc, outcome, open, i, depth, in_string, escape, config, sql>>
      BY <2>1 DEF vars, scanner
    <3>2. TypeOK'
      BY <3>1 DEF IInv, TypeOK
    <3>3. Control'
      BY <3>1, FoundStays DEF IInv, Control
    <3>4. Scanning'
      BY <3>1 DEF IInv, Scanning
    <3>5. Matched' /\ SqlIs'
      BY <3>1 DEF IInv, Matched, SqlIs
    <3> QED
      BY <3>2, <3>3, <3>4, <3>5 DEF IInv
  <2>2. CASE Next
    BY <2>2, ReadTextStep, SearchStep, ScanStringStep, ScanPlainStep, EndOfTextStep,
       LoadJsonStep, CheckConfigStep, TakeSqlStep
       DEF Next
  <2> QED
    BY <2>1, <2>2
<1> QED
  BY Start, <1>1, PTL DEF Spec

(* The theorems *)

\* The index and the depth of find_matching_brace stay within the text, the
\* depth is zero only at the first brace, and only a literal has escapes.
THEOREM TypeCorrect == Spec => []TypeOK
<1>1. IInv => TypeOK
  BY DEF IInv
<1> QED
  BY Invariance, <1>1, PTL

\* Whatever the text, find_matching_brace stops at the end of the one block
\* that begins at the brace, and raises only if there is none.
THEOREM FindsTheBlock == Spec => []MatchesBlock
<1>1. IInv => MatchesBlock
  <2> SUFFICES ASSUME IInv PROVE MatchesBlock
    OBVIOUS
  <2> QED
    BY DEF IInv, Matched, MatchesBlock
<1> QED
  BY Invariance, <1>1, PTL

\* Whatever the text, parse_sqlx returns all that stands after the first config
\* block, without the blanks around it, and a call that blames the structure of
\* the file had no such block, or nothing after it.
THEOREM LosesNothing == Spec => []KeepsTheRest
<1>1. IInv => KeepsTheRest
  <2> SUFFICES ASSUME IInv,
                      NEW m \in KeywordStarts, \A n \in KeywordStarts : m <= n
               PROVE  /\ outcome = "ok" =>
                           \E first, last \in DOMAIN text :
                             sql = SubSeq(text, first, last) /\ IsSql(m, first, last)
                      /\ outcome \in {"no config", "unbalanced", "no SQL"} =>
                           \A first \in DOMAIN text : \A last \in first..Len(text) :
                             ~IsSql(m, first, last)
    BY DEF KeepsTheRest
  <2>1. /\ TypeOK /\ text \in Seq(Token) /\ Len(text) \in Nat /\ DOMAIN text = 1..Len(text)
        /\ open \in Nat /\ i \in Nat
    BY Places DEF IInv
  <2>2. m \in 1..Len(text)
    BY <2>1 DEF KeywordStarts
  <2>3. Found => KeywordAt(m, open)
    <3> SUFFICES ASSUME NEW k \in KeywordStarts, \A n \in KeywordStarts : k <= n,
                        KeywordAt(k, open)
                 PROVE  KeywordAt(m, open)
      BY DEF Found
    <3>1. k \in 1..Len(text) /\ k <= m /\ m <= k
      BY <2>1 DEF KeywordStarts
    <3>2. k = m
      BY <2>2, <3>1
    <3> QED
      BY <3>2
  <2>4. ASSUME outcome \in {"ok", "no SQL"}
        PROVE  /\ KeywordAt(m, open) /\ m < open /\ open < i /\ i \in 1..Len(text)
               /\ \A b \in DOMAIN text : Block(text, open, b) <=> b = i
               /\ RestIs(text, i, sql)
    <3>1. KeywordAt(m, open) /\ m < open
      BY <2>3, <2>4 DEF IInv, Control, KeywordAt
    <3>2. i \in DOMAIN text /\ \A b \in DOMAIN text : Block(text, open, b) <=> b = i
      BY <2>4 DEF IInv, Matched
    <3>3. open < i
      BY <3>2 DEF Block
    <3> QED
      BY <2>1, <2>4, <3>1, <3>2, <3>3 DEF IInv, SqlIs
  <2>5. ASSUME outcome = "ok"
        PROVE  \E first, last \in DOMAIN text :
                 sql = SubSeq(text, first, last) /\ IsSql(m, first, last)
    <3>1. sql # <<>>
      BY <2>5 DEF IInv, SqlIs
    <3>2. PICK first \in 1..Len(text), last \in 1..Len(text) :
            /\ i < first /\ first <= last
            /\ sql = SubSeq(text, first, last)
            /\ text[first] # "blank" /\ text[last] # "blank"
            /\ \A n \in (i + 1)..(first - 1) : text[n] = "blank"
            /\ \A n \in (last + 1)..Len(text) : text[n] = "blank"
      BY <2>4, <2>5, <3>1 DEF RestIs
    <3>3. open \in (m + 1)..first /\ i \in (open + 1)..(first - 1) /\ i \in DOMAIN text
      BY <2>1, <2>2, <2>4, <2>5, <3>2
    <3>4. Block(text, open, i) /\ KeywordAt(m, open)
      BY <2>4, <2>5, <3>3
    <3>5. IsSql(m, first, last)
      BY <3>2, <3>3, <3>4 DEF IsSql, Blank
    <3> QED
      BY <2>1, <3>2, <3>5
  <2>6. ASSUME outcome \in {"no config", "unbalanced", "no SQL"},
               NEW first \in DOMAIN text, NEW last \in first..Len(text),
               IsSql(m, first, last)
        PROVE  FALSE
    <3>1. PICK a \in (m + 1)..first : KeywordAt(m, a) /\
            \E b \in (a + 1)..(first - 1) : Blank(b + 1, first - 1) /\ Block(text, a, b)
      BY <2>6 DEF IsSql
    <3>2. PICK b \in (a + 1)..(first - 1) : Blank(b + 1, first - 1) /\ Block(text, a, b)
      BY <3>1
    <3>3. a \in Nat /\ b \in DOMAIN text /\ b < first /\ first \in 1..Len(text)
      BY <2>1, <2>2
    <3>4. outcome # "no config"
      BY DEF IInv, Control
    <3>5. a = open
      <4>1. KeywordAt(m, open)
        BY <2>3, <2>6, <3>4 DEF IInv, Control
      <4> QED
        BY <2>1, <3>1, <3>3, <4>1, OneBrace
    <3>6. CASE outcome = "unbalanced"
      BY <3>2, <3>3, <3>5, <3>6 DEF IInv, Matched
    <3>7. CASE outcome = "no SQL"
      <4>1. b = i
        BY <2>4, <3>2, <3>3, <3>5, <3>7
      <4>2. sql = <<>> /\ RestIs(text, i, sql)
        BY <3>7 DEF IInv, SqlIs
      <4>3. text[first] = "blank"
        BY <2>1, <3>3, <4>1, <4>2 DEF RestIs
      <4> QED
        BY <2>6, <4>3 DEF IsSql
    <3> QED
      BY <2>6, <3>4, <3>6, <3>7
  <2> QED
    BY <2>5, <2>6
<1> QED
  BY Invariance, <1>1, PTL

\* The steps that a call can still make at most: one for each token of the scan
\* to come, and one for each call after it.
StepsLeft ==
  CASE pc = "read"     -> Len(text) + 4
    [] pc = "search"   -> Len(text) + 3
    [] pc = "scan"     -> Len(text) + 4 - i
    [] pc = "load"     -> 3
    [] pc = "check"    -> 2
    [] pc = "sql"      -> 1
    [] pc = "returned" -> 0

LEMMA StepsLeftOf ==
  /\ pc = "read"     => StepsLeft = Len(text) + 4
  /\ pc = "search"   => StepsLeft = Len(text) + 3
  /\ pc = "scan"     => StepsLeft = Len(text) + 4 - i
  /\ pc = "load"     => StepsLeft = 3
  /\ pc = "check"    => StepsLeft = 2
  /\ pc = "sql"      => StepsLeft = 1
  /\ pc = "returned" => StepsLeft = 0
BY DEF StepsLeft

LEMMA StepsLeftNext ==
  /\ pc' = "search"   => StepsLeft' = Len(text') + 3
  /\ pc' = "scan"     => StepsLeft' = Len(text') + 4 - i'
  /\ pc' = "load"     => StepsLeft' = 3
  /\ pc' = "check"    => StepsLeft' = 2
  /\ pc' = "sql"      => StepsLeft' = 1
  /\ pc' = "returned" => StepsLeft' = 0
BY DEF StepsLeft

LEMMA StepsLeftBound ==
  ASSUME IInv
  PROVE  StepsLeft \in 0..(Len(text) + 4)
<1>1. TypeOK /\ Len(text) \in Nat /\ i \in Nat
  BY Places DEF IInv
<1>2. CASE pc = "scan"
  BY <1>1, <1>2, ScanPlaces, StepsLeftOf
<1>3. CASE pc # "scan"
  BY <1>1, <1>3, StepsLeftOf DEF TypeOK
<1> QED
  BY <1>2, <1>3

LEMMA StepsDecrease ==
  ASSUME IInv, Next
  PROVE  StepsLeft' < StepsLeft
<1>1. TypeOK /\ Len(text) \in Nat /\ i \in Nat /\ DOMAIN text = 1..Len(text)
  BY Places DEF IInv
<1>2. CASE ReadText
  <2>1. pc = "read" /\ pc' \in {"search", "returned"} /\ text' = text
    BY <1>2 DEF ReadText, Return
  <2> QED
    BY <1>1, <2>1, StepsLeftOf, StepsLeftNext
<1>3. CASE Search
  <2>1. CASE Return("no config")
    <3>1. pc = "search" /\ pc' = "returned"
      BY <1>3, <2>1 DEF Search, Return
    <3> QED
      BY <1>1, <3>1, StepsLeftOf, StepsLeftNext
  <2>2. CASE ~Return("no config")
    <3>1. PICK m \in KeywordStarts, b \in DOMAIN text :
            KeywordAt(m, b) /\ pc' = "scan" /\ i' = b
      BY <1>3, <2>2 DEF Search
    <3>2. m \in 1..Len(text) /\ m < b
      BY <1>1, <3>1 DEF KeywordStarts, KeywordAt
    <3>3. i' \in 2..Len(text)
      BY <1>1, <3>1, <3>2
    <3>4. pc = "search" /\ text' = text
      BY <1>3 DEF Search
    <3> QED
      BY <1>1, <3>1, <3>3, <3>4, StepsLeftOf, StepsLeftNext
  <2> QED
    BY <2>1, <2>2
<1>4. CASE ScanString
  BY <1>1, <1>4, StepsLeftOf, StepsLeftNext DEF ScanString
<1>5. CASE ScanPlain
  <2>1. pc = "scan" /\ i <= Len(text) /\ text' = text
    BY <1>5 DEF ScanPlain
  <2>2. \/ pc' = "load"
        \/ pc' = "scan" /\ i' = i + 1
    BY <1>5, <2>1 DEF ScanPlain
  <2> QED
    BY <1>1, <2>1, <2>2, StepsLeftOf, StepsLeftNext
<1>6. CASE EndOfText
  BY <1>1, <1>6, ScanPlaces, StepsLeftOf, StepsLeftNext DEF EndOfText, Return
<1>7. CASE LoadJson \/ CheckConfig \/ TakeSql
  <2>1. \/ pc = "load" /\ pc' \in {"check", "returned"}
        \/ pc = "check" /\ pc' \in {"sql", "returned"}
        \/ pc = "sql" /\ pc' = "returned"
    BY <1>7 DEF LoadJson, CheckConfig, TakeSql, Return
  <2> QED
    BY <2>1, StepsLeftOf, StepsLeftNext
<1> QED
  BY <1>2, <1>3, <1>4, <1>5, <1>6, <1>7 DEF Next

\* Every call of parse_sqlx comes to an end, on any text, after a number of
\* steps that its length bounds: the scan never stands still or goes back.
THEOREM ParsingEnds ==
  Spec => [](StepsLeft \in 0..(Len(text) + 4)) /\ [][StepsLeft' < StepsLeft]_vars
<1>1. IInv => StepsLeft \in 0..(Len(text) + 4)
  BY StepsLeftBound
<1>2. IInv /\ [Next]_vars => [StepsLeft' < StepsLeft]_vars
  BY StepsDecrease
<1> QED
  BY <1>1, <1>2, Invariance, PTL DEF Spec
=============================================================================
