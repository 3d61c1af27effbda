------------------------- MODULE DisplayNodeProofs -------------------------
(***************************************************************************)
(* What TLAPS proves about the display node: for frames of any size and    *)
(* circles of any radius, where Paint writes; for any readings, servers    *)
(* and number of replies, what is drawn and where, what the panel is sent  *)
(* and when, that it shows the values measured last, and the one start of  *)
(* the client.                                                             *)
(***************************************************************************)
EXTENDS DisplayNode, SequenceTheorems, WellFoundedInduction, TLAPS

(* Numbers *)

Less == {p \in Nat \X Nat : p[1] < p[2]}

LEMMA LessIsWellFounded == IsWellFoundedOn(Less, Nat)
<1>1. OpToRel(<, Nat) = Less
  BY DEF OpToRel, Less
<1> QED
  BY <1>1, NatLessThanWellFounded

(* A set of naturals that is not empty has a smallest member: what stands  *)
(* for induction in the proofs below.                                      *)
LEMMA Smallest ==
  ASSUME NEW T, T \subseteq Nat, T # {}
  PROVE  \E m \in T : \A n \in T : m <= n
<1>1. \A m, n \in Nat : <<n, m>> \in Less <=> n < m
  BY DEF Less
<1>2. \E m \in T : \A n \in T : ~(<<n, m>> \in Less)
  BY LessIsWellFounded, WFMin
<1>3. PICK m \in T : \A n \in T : ~(<<n, m>> \in Less)
  BY <1>2
<1>4. \A n \in T : ~(n < m)
  BY <1>1, <1>3
<1>5. \A n \in T : m <= n
  BY <1>4
<1> QED
  BY <1>5

(* A bounded one has a largest. *)
LEMMA Largest ==
  ASSUME NEW r \in Nat, NEW T, T \subseteq 0 .. r, T # {}
  PROVE  \E m \in T : \A n \in T : n <= m
<1> DEFINE U == {r - n : n \in T}
<1>1. U \subseteq Nat /\ U # {}
  <2>1. \A n \in T : r - n \in Nat
    OBVIOUS
  <2> QED
    BY <2>1
<1>2. \A n \in T : r - n \in U
  OBVIOUS
<1>3. \A u \in U : \E m \in T : u = r - m
  OBVIOUS
<1> HIDE DEF U
<1>4. PICK u \in U : \A w \in U : u <= w
  BY <1>1, Smallest
<1>5. PICK m \in T : u = r - m
  BY <1>3
<1>6. ASSUME NEW n \in T PROVE n <= m
  <2>1. r - m <= r - n /\ m \in Int /\ n \in Int
    BY <1>2, <1>4, <1>5
  <2> QED
    BY <2>1
<1> QED
  BY <1>6

-----------------------------------------------------------------------------
(* Paint *)

Rotations == {0, 90, 180, 270}

(* The width Paint_Init rounds up to whole bytes.                          *)
LEMMA WholeBytes ==
  ASSUME NEW width \in Nat, NEW height \in Nat
  PROVE  /\ Frame(width, height).width \in Nat
         /\ Frame(width, height).width % 8 = 0
         /\ Frame(width, height).width >= width
         /\ Frame(width, height).height = height
BY DEF Frame

(* Rows of whole bytes: where a pixel is, in bytes.                        *)
LEMMA RowOfBytes ==
  ASSUME NEW W \in Nat, W % 8 = 0, NEW x \in Int, NEW y \in Nat
  PROVE  /\ W \div 8 \in Nat /\ W = 8 * (W \div 8)
         /\ y * (W \div 8) \in Nat
         /\ (x + y * W) \div 8 = x \div 8 + y * (W \div 8)
         /\ (W * y) \div 8 = y * (W \div 8)
<1> DEFINE k == W \div 8
<1>1. k \in Nat /\ W = 8 * k  OBVIOUS
<1> HIDE DEF k
<1> DEFINE m == y * k
<1>2. m \in Nat  BY <1>1
<1>3. y * W = 8 * m  BY <1>1
<1> HIDE DEF m
<1>4. (x + 8 * m) \div 8 = x \div 8 + m  BY <1>2
<1>5. (8 * m) \div 8 = m  BY <1>2
<1>6. W * y = y * W  BY <1>1
<1> QED  BY <1>1, <1>2, <1>3, <1>4, <1>5, <1>6 DEF k, m

(* Of what precedes the last row, the last row's bytes are still to come.  *)
LEMMA RowsBefore ==
  ASSUME NEW k \in Nat, NEW y \in Nat, NEW h \in Nat, y < h
  PROVE  /\ y * k \in Nat /\ h * k \in Nat
         /\ y * k + k <= h * k
<1>1. PICK d \in Nat : h = y + 1 + d  BY h - y - 1 \in Nat
<1>2. h * k = y * k + k + d * k  BY <1>1
<1>3. y * k \in Nat /\ d * k \in Nat /\ h * k \in Nat  OBVIOUS
<1> QED  BY <1>2, <1>3

(* Paint_DrawAbsolutePixel, and Paint_DrawPixel in every rotation: for all *)
(* coordinates, also those outside the drawing, no byte is written outside *)
(* the frame buffer of width * height / 8 bytes.                           *)
THEOREM PixelStaysInside ==
  ASSUME NEW width \in Nat, NEW height \in Nat,
         NEW rotate \in Rotations, NEW x \in Int, NEW y \in Int,
         NEW paint, paint = Frame(width, height)
  PROVE  DrawPixel(paint, rotate, x, y) \subseteq 0 .. (paint.width * paint.height) \div 8 - 1
<1> DEFINE W == paint.width
           k == W \div 8
<1>1. W \in Nat /\ W % 8 = 0 /\ paint.height = height  BY WholeBytes
<1>2. ASSUME NEW a \in Int, NEW b \in Int
      PROVE  Touched(paint, a, b) \subseteq 0 .. (W * height) \div 8 - 1
  <2>1. CASE ~InFrame(paint, a, b)  BY <2>1 DEF Touched
  <2>2. CASE InFrame(paint, a, b)
    <3>1. a \in 0 .. W - 1 /\ b \in 0 .. height - 1  BY <2>2, <1>1 DEF InFrame
    <3>2. b \in Nat /\ b < height  BY <3>1, <1>1
    <3>3. /\ k \in Nat /\ W = 8 * k
          /\ (a + b * W) \div 8 = a \div 8 + b * k
      BY <1>1, <3>2, RowOfBytes
    <3>4. b * k \in Nat /\ height * k \in Nat /\ b * k + k <= height * k
      BY <3>2, <3>3, RowsBefore
    <3>5. (W * height) \div 8 = height * k  BY <1>1, RowOfBytes
    <3>6. a \div 8 \in 0 .. k - 1
      <4> HIDE DEF k
      <4> HIDE DEF W
      <4> QED  BY <3>1, <3>3
    <3>7. a \div 8 + b * k \in 0 .. height * k - 1
      <4> DEFINE p == b * k
                 q == height * k
                 c == a \div 8
      <4>1. p \in Nat /\ q \in Nat /\ p + k <= q /\ c \in 0 .. k - 1 /\ k \in Nat
        BY <3>3, <3>4, <3>6
      <4> HIDE DEF p, q, c, k
      <4>2. c + p \in 0 .. q - 1  BY <4>1
      <4> QED  BY <4>2 DEF p, q, c
    <3> QED  BY <2>2, <3>3, <3>5, <3>7, <1>1 DEF Touched
  <2> QED  BY <2>1, <2>2
<1>3. ASSUME NEW to, to = Turned(paint, rotate, x, y)
      PROVE  to[1] \in Int /\ to[2] \in Int
  BY <1>1, <1>3 DEF Turned, Rotations
<1> QED  BY <1>1, <1>2, <1>3 DEF DrawPixel

(* Because rows are whole bytes, no two pixels of the frame share a bit:   *)
(* the byte written and the bit x % 8 that is masked in it tell the pixel. *)
THEOREM PixelsApart ==
  ASSUME NEW width \in Nat, NEW height \in Nat, NEW paint, paint = Frame(width, height),
         NEW x1 \in Int, NEW y1 \in Int, InFrame(paint, x1, y1),
         NEW x2 \in Int, NEW y2 \in Int, InFrame(paint, x2, y2),
         Touched(paint, x1, y1) = Touched(paint, x2, y2), x1 % 8 = x2 % 8
  PROVE  x1 = x2 /\ y1 = y2
<1> DEFINE W == paint.width
           k == W \div 8
<1>1. W \in Nat /\ W % 8 = 0 /\ paint.height = height  BY WholeBytes
<1>2. /\ x1 \in 0 .. W - 1 /\ y1 \in Nat /\ x2 \in 0 .. W - 1 /\ y2 \in Nat
  BY <1>1 DEF InFrame
<1>3. (x1 + y1 * W) \div 8 = (x2 + y2 * W) \div 8  BY DEF Touched
<1>4. k \in Nat /\ W = 8 * k  BY <1>1, <1>2, RowOfBytes
<1>5. x1 \div 8 + y1 * k = x2 \div 8 + y2 * k
  <2>1. (x1 + y1 * W) \div 8 = x1 \div 8 + y1 * k  BY <1>1, <1>2, RowOfBytes
  <2>2. (x2 + y2 * W) \div 8 = x2 \div 8 + y2 * k  BY <1>1, <1>2, RowOfBytes
  <2> QED  BY <1>3, <2>1, <2>2
<1>6. x1 \div 8 \in 0 .. k - 1 /\ x2 \div 8 \in 0 .. k - 1
  <2> HIDE DEF k
  <2> HIDE DEF W
  <2> QED  BY <1>2, <1>4
<1>7. ASSUME NEW a \in Nat, NEW b \in Nat, a < b,
             NEW p \in 0 .. k - 1, NEW q \in 0 .. k - 1, p + a * k = q + b * k
      PROVE  FALSE
  <2>1. a * k \in Nat /\ b * k \in Nat /\ a * k + k <= b * k  BY <1>4, <1>7, RowsBefore
  <2> QED  BY <1>4, <1>7, <2>1
<1>8. y1 = y2
  <2>1. ~ (y1 < y2)  BY <1>2, <1>5, <1>6, <1>7
  <2>2. ~ (y2 < y1)  BY <1>2, <1>5, <1>6, <1>7
  <2> QED  BY <1>2, <2>1, <2>2
<1>9. x1 \div 8 = x2 \div 8
  <2> DEFINE m == y1 * k
  <2>1. m \in Int /\ x1 \div 8 + m = x2 \div 8 + m  BY <1>2, <1>4, <1>5, <1>8
  <2> HIDE DEF m
  <2> QED  BY <1>2, <2>1
<1> QED  BY <1>2, <1>8, <1>9

(* The rotations count from the far edge with width and height where they  *)
(* should with width - 1 and height - 1: of the drawing's pixels, those of *)
(* the first row or column are not drawn, and no others.                   *)
THEOREM RotationLosesEdge ==
  ASSUME NEW width \in Nat, NEW height \in Nat, NEW paint, paint = Frame(width, height),
         NEW rotate \in Rotations, NEW x \in Int, NEW y \in Int,
         InDrawing(paint, rotate, x, y)
  PROVE  DrawPixel(paint, rotate, x, y) = {}
           <=> \/ rotate \in {90, 180} /\ y = 0
               \/ rotate \in {180, 270} /\ x = 0
<1>1. paint.width \in Nat /\ paint.height = height  BY WholeBytes
<1>2. CASE rotate = 0
  BY <1>1, <1>2 DEF DrawPixel, InDrawing, InFrame, Touched, Turned
<1>3. CASE rotate = 90
  BY <1>1, <1>3 DEF DrawPixel, InDrawing, InFrame, Touched, Turned
<1>4. CASE rotate = 180
  BY <1>1, <1>4 DEF DrawPixel, InDrawing, InFrame, Touched, Turned
<1>5. CASE rotate = 270
  BY <1>1, <1>5 DEF DrawPixel, InDrawing, InFrame, Touched, Turned
<1> QED  BY <1>2, <1>3, <1>4, <1>5 DEF Rotations

(* Paint_DrawCharAt does not look at the length of the table: the printable *)
(* characters of the four text fonts, and the six states of the battery,    *)
(* read inside it.                                                          *)
TextFonts == {Font8, Font24, Font1632, Font815}

THEOREM GlyphsInTable ==
  /\ \A font \in TextFonts, char \in 32 .. 126 :
       FirstRead(font, char) >= 0 /\ LastRead(font, char) < font.size
  /\ \A char \in 32 .. 37 :
       FirstRead(FontICON, char) >= 0 /\ LastRead(FontICON, char) < FontICON.size
BY DEF TextFonts, Font8, Font24, Font1632, Font815, FontICON, Space, GlyphBytes,
       FirstRead, LastRead

-----------------------------------------------------------------------------
(* Circles *)

(* A round of the loop of Paint_DrawCircle leaves the error term what it   *)
(* stands for, and goes down no further than the radius.                   *)
Round(c, r) ==
  /\ c \in [x : Int, y : Int, err : Int]
  /\ c.x >= -r /\ c.y \in 0 .. r
  /\ c.err = (c.x + 1) * (c.x + 1) + (c.y + 1) * (c.y + 1) - r * r

LEMMA RoundStep == ASSUME NEW r \in Nat, NEW c, Round(c, r) PROVE Round(CircleStep(c), r)
<1> DEFINE x == c.x
           y == c.y
           err == c.err
           down == err <= y
           y2 == IF down THEN y + 1 ELSE y
           err2 == IF down THEN err + 2 * y2 + 1 ELSE err
           e2 == IF down /\ -x = y2 /\ err <= x THEN 0 ELSE err
           across == e2 > x
           x2 == IF across THEN x + 1 ELSE x
           err3 == IF across THEN err2 + 2 * x2 + 1 ELSE err2
<1>1. CircleStep(c) = [x |-> x2, y |-> y2, err |-> err3]
  BY DEF CircleStep
<1>2. /\ x \in Int /\ y \in Nat /\ err \in Int /\ x >= -r /\ y <= r
      /\ err = (x + 1) * (x + 1) + (y + 1) * (y + 1) - r * r
  BY DEF Round
<1> HIDE DEF x, y, err
<1>3. y2 \in 0 .. r /\ err2 \in Int /\ err2 = (x + 1) * (x + 1) + (y2 + 1) * (y2 + 1) - r * r
  <2>1. CASE down
    <3>1. (x + 1) * (x + 1) >= 0
      BY <1>2
    <3>2. y # r
      <4> SUFFICES ASSUME y = r PROVE FALSE
        OBVIOUS
      <4>1. (r + 1) * (r + 1) = r * r + 2 * r + 1
        OBVIOUS
      <4>2. err >= 2 * r + 1
        BY <1>2, <3>1, <4>1
      <4> QED
        BY <2>1, <4>2, <1>2
    <3>3. (y + 2) * (y + 2) = (y + 1) * (y + 1) + 2 * (y + 1) + 1
      BY <1>2
    <3>4. y2 = y + 1 /\ y2 + 1 = y + 2 /\ err2 = err + 2 * (y + 1) + 1
      BY <1>2, <2>1
    <3> HIDE DEF y2, err2
    <3> QED
      BY <1>2, <3>2, <3>3, <3>4
  <2>2. CASE ~down
    BY <1>2, <2>2
  <2> QED
    BY <2>1, <2>2
<1> HIDE DEF y2, err2, across
<1>4. x2 \in Int /\ x2 >= -r /\ err3 \in Int
      /\ err3 = (x2 + 1) * (x2 + 1) + (y2 + 1) * (y2 + 1) - r * r
  <2>1. CASE across
    <3>1. (x + 2) * (x + 2) = (x + 1) * (x + 1) + 2 * (x + 1) + 1
      BY <1>2
    <3>2. x2 = x + 1 /\ x2 + 1 = x + 2 /\ err3 = err2 + 2 * (x + 1) + 1
      BY <1>2, <1>3, <2>1
    <3> HIDE DEF x2, err3
    <3> QED
      BY <1>2, <1>3, <3>1, <3>2
  <2>2. CASE ~across
    BY <1>2, <1>3, <2>2
  <2> QED
    BY <2>1, <2>2
<1> HIDE DEF x2, err3
<1> QED
  BY <1>1, <1>3, <1>4 DEF Round

(* The rounds of the loop, as many as one likes. *)
Start(r) == [x |-> -r, y |-> 0, err |-> 2 - 2 * r]
Follows(f, r, k) == f = [n \in 0 .. k |-> IF n = 0 THEN Start(r) ELSE CircleStep(f[n - 1])]

LEMMA RoundsExist == ASSUME NEW r \in Nat, NEW k \in Nat PROVE \E f : Follows(f, r, k)
<1> DEFINE T == {n \in Nat : ~\E f : Follows(f, r, n)}
<1> SUFFICES ASSUME T # {} PROVE FALSE
  OBVIOUS
<1>1. PICK m \in T : \A n \in T : m <= n
  BY Smallest
<1>2. m \in Nat /\ ~\E f : Follows(f, r, m)
  OBVIOUS
<1>3. CASE m = 0
  <2> DEFINE f == [n \in 0 .. 0 |-> Start(r)]
  <2>1. Follows(f, r, 0)
    BY DEF Follows
  <2> QED
    BY <1>2, <1>3, <2>1
<1>4. CASE m # 0
  <2>1. m - 1 \in Nat /\ m - 1 \notin T
    BY <1>1, <1>2, <1>4
  <2>2. PICK g : Follows(g, r, m - 1)
    BY <2>1
  <2> DEFINE f == [n \in 0 .. m |-> IF n = m THEN CircleStep(g[m - 1]) ELSE g[n]]
  <2>3. \A n \in 0 .. m : f[n] = IF n = 0 THEN Start(r) ELSE CircleStep(f[n - 1])
    <3> SUFFICES ASSUME NEW n \in 0 .. m
                 PROVE  f[n] = IF n = 0 THEN Start(r) ELSE CircleStep(f[n - 1])
      OBVIOUS
    <3>1. CASE n = m
      BY <1>2, <1>4, <3>1
    <3>2. CASE n # m
      <4>1. n \in 0 .. m - 1 /\ f[n] = g[n]
        BY <1>2, <3>2
      <4>2. g[n] = IF n = 0 THEN Start(r) ELSE CircleStep(g[n - 1])
        BY <2>2, <4>1 DEF Follows
      <4>3. n # 0 => f[n - 1] = g[n - 1]
        BY <1>2, <4>1
      <4> QED
        BY <4>1, <4>2, <4>3
    <3> QED
      BY <3>1, <3>2
  <2>4. f = [n \in 0 .. m |-> f[n]]
    OBVIOUS
  <2> HIDE DEF f
  <2>5. Follows(f, r, m)
    BY <2>3, <2>4 DEF Follows
  <2> QED
    BY <1>2, <2>5
<1> QED
  BY <1>3, <1>4

(* What holds of one round holds of all.                                   *)
LEMMA EveryRound ==
  ASSUME NEW r \in Nat, NEW k \in Nat, NEW f, Follows(f, r, k)
  PROVE  \A n \in 0 .. k : Round(f[n], r)
<1>5. \A n \in 0 .. k : f[n] = IF n = 0 THEN Start(r) ELSE CircleStep(f[n - 1])
  BY DEF Follows
<1> DEFINE T == {n \in 0 .. k : ~Round(f[n], r)}
<1> SUFFICES ASSUME T # {} PROVE FALSE
  OBVIOUS
<1>0. T \subseteq Nat
  OBVIOUS
<1>1. PICK m \in T : \A n \in T : m <= n
  <2> HIDE DEF T
  <2> QED
    BY <1>0, Smallest
<1>2. m \in 0 .. k /\ ~Round(f[m], r)
  OBVIOUS
<1>3. CASE m = 0
  <2>1. Round(Start(r), r)
    <3>1. (-r + 1) * (-r + 1) + (0 + 1) * (0 + 1) - r * r = 2 - 2 * r
      OBVIOUS
    <3> QED
      BY <3>1 DEF Round, Start
  <2> QED
    BY <1>5, <1>2, <1>3, <2>1
<1>4. CASE m # 0
  <2>1. m - 1 \in 0 .. k /\ m - 1 \notin T
    BY <1>1, <1>2, <1>4
  <2>2. Round(f[m - 1], r)
    BY <2>1
  <2> QED
    BY <1>5, <1>2, <1>4, <2>2, RoundStep
<1> QED
  BY <1>3, <1>4

(* Paint_DrawCircle: for every radius no point that is drawn lies outside  *)
(* the square around the circle.                                           *)
THEOREM CircleStaysInSquare ==
  ASSUME NEW r \in Nat
  PROVE  /\ \A c \in CircleRounds(r) : c.x \in -r .. 0 /\ c.y \in 0 .. r
         /\ Start(r) \in CircleRounds(r)
<1> DEFINE k == 4 * r + 1
           round[n \in 0 .. 4 * r + 1] ==
             IF n = 0 THEN [x |-> -r, y |-> 0, err |-> 2 - 2 * r]
             ELSE CircleStep(round[n - 1])
<1>1. CircleRounds(r) = {c \in {round[n] : n \in 0 .. k} : c.x <= 0}
  BY DEF CircleRounds
<1>2. Follows(round, r, k)
  <2>1. round = CHOOSE f : Follows(f, r, k)
    BY DEF round, Follows, Start
  <2>2. \E f : Follows(f, r, k)
    BY RoundsExist
  <2> HIDE DEF round
  <2> QED
    BY <2>1, <2>2
<1> HIDE DEF round
<1>3. \A n \in 0 .. k : round[n] = IF n = 0 THEN Start(r) ELSE CircleStep(round[n - 1])
  BY <1>2 DEF Follows
<1>4. \A n \in 0 .. k : Round(round[n], r)
  BY <1>2, EveryRound
<1>5. \A c \in CircleRounds(r) : c.x \in -r .. 0 /\ c.y \in 0 .. r
  BY <1>1, <1>4 DEF Round
<1>6. Start(r) \in CircleRounds(r)
  BY <1>1, <1>3 DEF Start
<1> QED
  BY <1>5, <1>6

(* The box of a circle that is drawn. *)
InSquare(item, x, y, r) ==
  \E dy \in 0 .. r : item = Shape(Box(x - r, y - dy, 2 * r + 1, 2 * dy + 1))

LEMMA CircleBox ==
  ASSUME NEW x \in Int, NEW y \in Int, NEW r \in Nat
  PROVE  InSquare(DrawCircle(x, y, r), x, y, r)
<1> DEFINE reach(S) == CHOOSE m \in S : \A n \in S : n <= m
           X == {-c.x : c \in CircleRounds(r)}
           Y == {c.y : c \in CircleRounds(r)}
<1>1. r \in X /\ X \subseteq 0 .. r
  <2>1. -Start(r).x = r
    BY DEF Start
  <2> QED
    BY <2>1, CircleStaysInSquare
<1>2. Y \subseteq 0 .. r /\ Y # {}
  BY CircleStaysInSquare
<1>3. DrawCircle(x, y, r) = Shape(Box(x - reach(X), y - reach(Y), 2 * reach(X) + 1, 2 * reach(Y) + 1))
  BY DEF DrawCircle
<1> HIDE DEF X, Y
<1>4. reach(X) = r
  <2>1. \A n \in X : n <= r
    BY <1>1
  <2>2. reach(X) \in X /\ \A n \in X : n <= reach(X)
    BY <1>1, <2>1
  <2>3. \A a \in X : (\A n \in X : n <= a) => a = r
    BY <1>1
  <2> QED
    BY <2>2, <2>3
<1>5. reach(Y) \in 0 .. r
  <2>1. \E m \in Y : \A n \in Y : n <= m
    BY <1>2, Largest
  <2>2. reach(Y) \in Y
    BY <2>1
  <2> QED
    BY <1>2, <2>2
<1> HIDE DEF reach
<1> QED
  BY <1>3, <1>4, <1>5 DEF InSquare

(* Each round goes on, down or across. *)
LEMMA RoundGoesOn ==
  ASSUME NEW r \in Nat, NEW c, Round(c, r), c.x <= 0
  PROVE  CircleStep(c).x + CircleStep(c).y >= c.x + c.y + 1
<1> DEFINE x == c.x
           y == c.y
           err == c.err
           down == err <= y
           y2 == IF down THEN y + 1 ELSE y
           e2 == IF down /\ -x = y2 /\ err <= x THEN 0 ELSE err
           across == e2 > x
           x2 == IF across THEN x + 1 ELSE x
<1>1. CircleStep(c).x = x2 /\ CircleStep(c).y = y2
  BY DEF CircleStep
<1>2. x \in Int /\ y \in Nat /\ err \in Int /\ x <= 0
  BY DEF Round
<1> HIDE DEF x, y, err
<1>3. down \/ across
  BY <1>2
<1>4. x2 + y2 >= x + y + 1
  BY <1>2, <1>3
<1> HIDE DEF x2, y2
<1> QED
  BY <1>1, <1>4 DEF x, y

(* Paint_DrawCircle: for every radius the loop ends, at the latest after   *)
(* twice as many rounds as the radius and one; those of CircleRounds are   *)
(* enough.                                                                 *)
THEOREM CircleEnds ==
  ASSUME NEW r \in Nat, NEW f, Follows(f, r, 4 * r + 1)
  PROVE  \E n \in 0 .. 2 * r + 1 : f[n].x > 0
<1> DEFINE k == 4 * r + 1
           Late(n) == f[n].x + f[n].y < n - r
           T == {n \in 0 .. 2 * r + 1 : Late(n)}
<1> SUFFICES ASSUME \A n \in 0 .. 2 * r + 1 : ~(f[n].x > 0) PROVE FALSE
  OBVIOUS
<1>1. \A n \in 0 .. k : f[n] = IF n = 0 THEN Start(r) ELSE CircleStep(f[n - 1])
  BY DEF Follows
<1>2. \A n \in 0 .. 2 * r + 1 : n \in 0 .. k /\ Round(f[n], r) /\ f[n].x <= 0
  <2>1. \A n \in 0 .. 2 * r + 1 : n \in 0 .. k
    OBVIOUS
  <2>2. \A n \in 0 .. k : Round(f[n], r)
    BY EveryRound
  <2>3. \A n \in 0 .. 2 * r + 1 : f[n].x \in Int
    BY <2>1, <2>2 DEF Round
  <2> QED
    BY <2>1, <2>2, <2>3
<1>3. CASE T = {}
  <2>1. ~Late(2 * r + 1)
    BY <1>3
  <2>2. Round(f[2 * r + 1], r) /\ f[2 * r + 1].x <= 0
    BY <1>2
  <2> QED
    BY <2>1, <2>2 DEF Round
<1>4. CASE T # {}
  <2>0. T \subseteq Nat
    OBVIOUS
  <2>1. PICK m \in T : \A n \in T : m <= n
    <3> HIDE DEF T
    <3> QED
      BY <1>4, <2>0, Smallest
  <2>2. m \in 0 .. 2 * r + 1 /\ Late(m) /\ f[m].x \in Int /\ f[m].y \in Int
    BY <1>2 DEF Round
  <2>3. CASE m = 0
    <3>1. f[0].x = -r /\ f[0].y = 0
      BY <1>1 DEF Start
    <3> QED
      BY <2>2, <2>3, <3>1
  <2>4. CASE m # 0
    <3>1. m - 1 \in 0 .. 2 * r + 1 /\ m - 1 \notin T
      BY <2>1, <2>2, <2>4
    <3>2. ~Late(m - 1) /\ Round(f[m - 1], r) /\ f[m - 1].x <= 0
      BY <1>2, <3>1
    <3>3. f[m].x + f[m].y >= f[m - 1].x + f[m - 1].y + 1
      BY <1>1, <1>2, <2>2, <2>4, <3>2, RoundGoesOn
    <3>4. f[m - 1].x \in Int /\ f[m - 1].y \in Int
      BY <3>2 DEF Round
    <3> QED
      BY <2>2, <3>2, <3>3, <3>4
  <2> QED
    BY <2>3, <2>4
<1> QED
  BY <1>3, <1>4

-----------------------------------------------------------------------------
(* The drawing *)

LEMMA TenthIsNat == Tenth \in Nat /\ 0 < Tenth
BY SMT DEF Tenth

LEMMA TenthsOf ==
  ASSUME NEW v, v.part \in Int
  PROVE  Tenths(v) \in Int /\ (v.part \in 0 .. 10 * Tenth - 1 => Tenths(v) \in 0 .. 9)
<1> DEFINE p == v.part
           q == p \div Tenth
<1>1. p \div Tenth \in Int /\ -p \in Int /\ (-p) \div Tenth \in Int /\ -((-p) \div Tenth) \in Int
  BY TenthIsNat
<1>2. ASSUME p \in 0 .. 10 * Tenth - 1 PROVE q \in 0 .. 9 /\ ~(p < 0)
  <2>1. q \in Int /\ p \in Int /\ Tenth * q <= p /\ p < Tenth * q + Tenth
    BY <1>2, TenthIsNat
  <2> HIDE DEF q
  <2> QED
    BY <1>2, <2>1, TenthIsNat
<1> QED
  BY <1>1, <1>2 DEF Tenths

(* How many characters a number takes: its digits, and a minus. *)
LEMMA PowersGrow ==
  /\ 10^1 = 10 /\ \A d \in 0 .. 9 : 10^d \in Nat
  /\ \A d \in 1 .. 9 : 10^d >= 10
  /\ \A d \in 2 .. 9 : 10^d >= 100
<1>1. 10^0 = 1 /\ 10^1 = 10 /\ 10^2 = 100
  BY PowersOfTen
<1>2. \A d \in 0 .. 9 : 10^d \in Nat /\ (d >= 1 => 10^d >= 10) /\ (d >= 2 => 10^d >= 100)
  <2> DEFINE T == {d \in 0 .. 9 : ~(10^d \in Nat /\ (d >= 1 => 10^d >= 10) /\ (d >= 2 => 10^d >= 100))}
  <2> SUFFICES ASSUME T # {} PROVE FALSE
    OBVIOUS
  <2>1. T \subseteq Nat
    OBVIOUS
  <2>2. PICK m \in T : \A n \in T : m <= n
    <3> HIDE DEF T
    <3> QED
      BY <2>1, Smallest
  <2>3. m \notin {0, 1, 2}
    <3>1. m = 0 => 10^m = 1
      BY <1>1, Zenon
    <3>2. m = 1 => 10^m = 10
      BY <1>1, Zenon
    <3>3. m = 2 => 10^m = 100
      BY <1>1, Zenon
    <3> QED
      BY <3>1, <3>2, <3>3
  <2>4. m - 1 \in 2 .. 8 /\ m - 1 \notin T
    BY <2>2, <2>3
  <2>5. 10^(m - 1) \in Nat /\ 10^(m - 1) >= 100
    BY <2>4
  <2>6. 10^m = 10 * 10^(m - 1)
    <3>1. (m - 1) + 1 = m /\ m - 1 \in 0 .. 8
      BY <2>4
    <3> QED
      BY <3>1, PowersOfTen
  <2> QED
    BY <2>5, <2>6
<1> QED
  BY <1>1, <1>2

LEMMA LengthOf ==
  ASSUME NEW n \in Int
  PROVE  /\ NumberLength(n) \in Nat
         /\ n \in 0 .. 9 => NumberLength(n) = 1
         /\ n \in 0 .. 99 => NumberLength(n) \in 1 .. 2
<1> DEFINE abs == IF n < 0 THEN -n ELSE n
           P(d) == (d = 10 \/ abs < 10^d) /\ (d = 1 \/ abs >= 10^(d - 1))
           digits == CHOOSE d \in 1 .. 10 : P(d)
           T == {d \in 1 .. 10 : d = 10 \/ abs < 10^d}
<1>1. NumberLength(n) = IF n < 0 THEN digits + 1 ELSE digits
  BY DEF NumberLength
<1>2. abs \in Nat
  OBVIOUS
<1> HIDE DEF abs
<1>3. \E d \in 1 .. 10 : P(d)
  <2>1. T \subseteq Nat /\ 10 \in T
    OBVIOUS
  <2>2. PICK d \in T : \A m \in T : d <= m
    <3> HIDE DEF T
    <3> QED
      BY <2>1, Smallest
  <2>3. d \in 1 .. 10 /\ (d = 10 \/ abs < 10^d)
    OBVIOUS
  <2>4. d = 1 \/ abs >= 10^(d - 1)
    <3> SUFFICES ASSUME d # 1 PROVE abs >= 10^(d - 1)
      OBVIOUS
    <3>1. d - 1 \in 1 .. 9 /\ d - 1 \notin T
      BY <2>2, <2>3
    <3>2. d - 1 \in 1 .. 10 /\ d - 1 \in 0 .. 9
      BY <3>1
    <3>3. ~(abs < 10^(d - 1))
      BY <3>1, <3>2, Zenon
    <3>4. 10^(d - 1) \in Nat
      BY <3>2, PowersGrow, Zenon
    <3>5. \A p \in Nat : ~(abs < p) => abs >= p
      BY <1>2
    <3> QED
      BY <3>3, <3>4, <3>5, Zenon
  <2> QED
    BY <2>3, <2>4
<1>4. digits \in 1 .. 10 /\ P(digits)
  BY <1>3
<1> HIDE DEF digits
<1>5. ASSUME abs < 10 PROVE digits = 1
  <2>1. digits # 1 => digits - 1 \in 1 .. 9 /\ digits - 1 \in 0 .. 9
    BY <1>4
  <2>2. digits # 1 => 10^(digits - 1) >= 10 /\ 10^(digits - 1) \in Nat
    BY <2>1, PowersGrow, Zenon
  <2>3. \A p \in Nat : p >= 10 => ~(abs >= p)
    BY <1>2, <1>5
  <2>4. digits # 1 => abs >= 10^(digits - 1)
    BY <1>4, Zenon
  <2> QED
    BY <2>2, <2>3, <2>4, Zenon
<1>6. ASSUME abs < 100 PROVE digits \in 1 .. 2
  <2>1. digits \notin 1 .. 2 => digits - 1 \in 2 .. 9 /\ digits - 1 \in 0 .. 9
    BY <1>4
  <2>2. digits \notin 1 .. 2 => 10^(digits - 1) >= 100 /\ 10^(digits - 1) \in Nat
    BY <2>1, PowersGrow, Zenon
  <2>3. \A p \in Nat : p >= 100 => ~(abs >= p)
    BY <1>2, <1>6
  <2>4. digits # 1 => abs >= 10^(digits - 1)
    BY <1>4, Zenon
  <2>5. 1 \in 1 .. 2
    OBVIOUS
  <2> QED
    BY <2>2, <2>3, <2>4, <2>5, Zenon
<1> QED
  BY <1>1, <1>4, <1>5, <1>6 DEF abs

(* An item that is in order: its place is a number, its characters are in  *)
(* its font.                                                               *)
Sound(item) ==
  /\ item.box \in [left : Int, top : Int, right : Int, bottom : Int]
  /\ \/ item.font \in TextFonts /\ item.chars \subseteq 32 .. 126
     \/ item.font = FontICON /\ item.chars \subseteq 32 .. 37

LEMMA SoundStaysInside ==
  ASSUME NEW item, Sound(item)
  PROVE  ReadsTable(item) /\ WritesFrame(Paper, item)
<1>1. ReadsTable(item)
  BY GlyphsInTable DEF Sound, ReadsTable
<1>2. \A c \in Corners(item.box) : c[1] \in Int /\ c[2] \in Int
  BY DEF Sound, Corners
<1>3. WritesFrame(Paper, item)
  <2> SUFFICES ASSUME NEW c \in Corners(item.box)
               PROVE  DrawPixel(Paper, 0, c[1], c[2])
                        \subseteq 0 .. (Paper.width * Paper.height) \div 8 - 1
    BY DEF WritesFrame
  <2> QED
    BY <1>2, PixelStaysInside DEF Paper, Rotations
<1> QED
  BY <1>1, <1>3

LEMMA FontFacts ==
  /\ Font1632 \in TextFonts /\ Font1632.width = 16 /\ Font1632.height = 32
  /\ Font815 \in TextFonts /\ Font815.width = 8 /\ Font815.height = 15
  /\ FontICON.width = 16 /\ FontICON.height = 16
BY DEF TextFonts, Font1632, Font815, FontICON

(* The kinds of items a drawing is made of. *)
Label(i)    == DrawString(255, 75 * (i - 1) + 5, <<6, 7, 5, 2>>[i], Letters, Font815)
Whole(v, down)  == DrawNumber(270, 30 + down, v.whole, Font1632)
Part(v, down)   == DrawNumber(303, 45 + down, Tenths(v), Font815)
Humid(v)        == DrawHumidity(v)[1]
Battery(bat, charging) == DrawString(380, 0, 1, {Icon(bat, charging)}, FontICON)
Circles(down)   == {DrawCircle(306, 41 + down, 2), DrawCircle(306, 41 + down, 3)}
RuleSet  == {DrawVerticalLine(250, 2, 296)} \cup {DrawHorizontalLine(250, 75 * i, 148) : i \in 1 .. 3}
LabelSet == {Label(i) : i \in 1 .. 4}
ValueSet(v, outdoor) ==
  {Whole(v, 0), Part(v, 0), Humid(v), Whole(outdoor, 75), Part(outdoor, 75)}
    \cup Circles(0) \cup Circles(75)
Fixed(bat, charging) == RuleSet \cup LabelSet \cup {Battery(bat, charging)}
Items(v, outdoor, bat, charging) ==
  IF v = Blank THEN Fixed(bat, charging)
  ELSE Fixed(bat, charging) \cup ValueSet(v, outdoor)

LEMMA DrawingItems ==
  ASSUME NEW v, NEW outdoor, NEW bat, NEW charging
  PROVE  Drawing(v, outdoor, bat, charging) \in Seq(Items(v, outdoor, bat, charging))
<1> DEFINE S == Items(v, outdoor, bat, charging)
<1>1. Rules \in Seq(S)
  <2>1. RuleSet \subseteq S
    BY DEF Items, Fixed
  <2>2. <<DrawVerticalLine(250, 2, 296)>> \in Seq(S)
    BY <2>1 DEF RuleSet
  <2>3. [i \in 1 .. 3 |-> DrawHorizontalLine(250, 75 * i, 148)] \in Seq(S)
    BY <2>1 DEF RuleSet
  <2> HIDE DEF S
  <2> QED
    BY <2>2, <2>3, ConcatProperties DEF Rules
<1>2. Labels \in Seq(S)
  <2>1. LabelSet \subseteq S
    BY DEF Items, Fixed
  <2> QED
    BY <2>1 DEF Labels, LabelSet, Label
<1>3. Values(v, outdoor) \in Seq(S)
  <2>1. CASE v = Blank
    BY <2>1 DEF Values
  <2>2. CASE v # Blank
    <3>1. ValueSet(v, outdoor) \subseteq S
      BY <2>2 DEF Items
    <3> HIDE DEF S
    <3>2. DrawTemperature(v, 0) \in Seq(S)
      BY <3>1 DEF DrawTemperature, ValueSet, Whole, Part, Circles
    <3>3. DrawTemperature(outdoor, 75) \in Seq(S)
      BY <3>1 DEF DrawTemperature, ValueSet, Whole, Part, Circles
    <3>4. DrawHumidity(v) \in Seq(S)
      <4>1. DrawHumidity(v) = <<Humid(v)>>
        BY DEF DrawHumidity, Humid
      <4>2. Humid(v) \in S
        BY <3>1 DEF ValueSet
      <4> QED
        BY <4>1, <4>2
    <3>5. DrawTemperature(v, 0) \o DrawHumidity(v) \in Seq(S)
      BY <3>2, <3>4, ConcatProperties
    <3> QED
      BY <2>2, <3>3, <3>5, ConcatProperties DEF Values
  <2> QED
    BY <2>1, <2>2
<1>4. DrawIcon(bat, charging) \in Seq(S)
  <2>1. Battery(bat, charging) \in S
    BY DEF Items, Fixed
  <2> QED
    BY <2>1 DEF DrawIcon, Battery
<1> HIDE DEF S
<1>5. Rules \o Labels \in Seq(S)
  BY <1>1, <1>2, ConcatProperties
<1>6. Rules \o Labels \o Values(v, outdoor) \in Seq(S)
  BY <1>3, <1>5, ConcatProperties
<1> QED
  BY <1>4, <1>6, ConcatProperties DEF Drawing, S

(* A number is drawn where it belongs, as wide as it is long.              *)
NumberAt(item, x, y, n, font) ==
  /\ Sound(item) /\ item.chars \subseteq 32 .. 126
  /\ item.box.left = x /\ item.box.right = x + NumberLength(n) * font.width - 1
  /\ item.box.top = y /\ item.box.bottom = y + font.height - 1

LEMMA NumberPlace ==
  ASSUME NEW x \in Int, NEW y \in Int, NEW n \in Int, NEW font \in {Font1632, Font815}
  PROVE  NumberAt(DrawNumber(x, y, n, font), x, y, n, font)
<1> DEFINE item == DrawNumber(x, y, n, font)
           w == NumberLength(n) * font.width
<1>1. font.width \in Nat /\ font.height \in Nat /\ font \in TextFonts
  BY FontFacts
<1>2. NumberLength(n) \in Nat
  BY LengthOf
<1>3. w \in Nat
  BY <1>1, <1>2
<1>4. item
        = [box |-> [left |-> x, top |-> y, right |-> x + w - 1, bottom |-> y + font.height - 1],
           font |-> font, chars |-> IF n < 0 THEN Digits \cup {Minus} ELSE Digits]
  BY DEF DrawNumber, DrawString, Box
<1>5. (IF n < 0 THEN Digits \cup {Minus} ELSE Digits) \subseteq 32 .. 126
  BY DEF Digits, Minus
<1> HIDE DEF w, item
<1>6. x + w - 1 \in Int /\ y + font.height - 1 \in Int
  BY <1>1, <1>3
<1>7. /\ item.box = [left |-> x, top |-> y, right |-> x + w - 1, bottom |-> y + font.height - 1]
      /\ item.font = font /\ item.chars \subseteq 32 .. 126
  BY <1>4, <1>5
<1>8. Sound(item)
  BY <1>1, <1>6, <1>7 DEF Sound
<1> QED
  BY <1>7, <1>8 DEF w, item, NumberAt

LEMMA WholePlace ==
  ASSUME NEW v, v.whole \in Int, NEW down \in Int
  PROVE  NumberAt(Whole(v, down), 270, 30 + down, v.whole, Font1632)
<1>1. 270 \in Int /\ 30 + down \in Int /\ Font1632 \in {Font1632, Font815}
  OBVIOUS
<1>2. ASSUME NEW y \in Int, NEW n \in Int
      PROVE  NumberAt(DrawNumber(270, y, n, Font1632), 270, y, n, Font1632)
  BY <1>1, NumberPlace, Zenon
<1> QED
  BY <1>1, <1>2 DEF Whole

LEMMA PartPlace ==
  ASSUME NEW v, v.part \in Int, NEW down \in Int
  PROVE  NumberAt(Part(v, down), 303, 45 + down, Tenths(v), Font815)
<1>1. 303 \in Int /\ 45 + down \in Int /\ Font815 \in {Font1632, Font815}
  OBVIOUS
<1>2. Tenths(v) \in Int
  BY TenthsOf
<1>3. ASSUME NEW y \in Int, NEW n \in Int
      PROVE  NumberAt(DrawNumber(303, y, n, Font815), 303, y, n, Font815)
  BY <1>1, NumberPlace, Zenon
<1> QED
  BY <1>1, <1>2, <1>3 DEF Part

LEMMA HumidPlace ==
  ASSUME NEW v, v.humi \in Int
  PROVE  /\ Sound(Humid(v))
         /\ Humid(v).box.left = 340 /\ Humid(v).box.top = 30
         /\ Humid(v).box.right = 340 + NumberLength(v.humi) * 16 - 1 + 16
         /\ Humid(v).box.bottom = 30 + 32 - 1
<1> DEFINE s == DrawNumber(340, 30, v.humi, Font1632)
<1>1. Humid(v) = [s EXCEPT !.box.right = s.box.right + Font1632.width,
                           !.chars = s.chars \cup {Percent}]
  BY DEF Humid, DrawHumidity
<1>2. /\ Sound(s) /\ s.chars \subseteq 32 .. 126
      /\ s.box.left = 340 /\ s.box.top = 30
      /\ s.box.right = 340 + NumberLength(v.humi) * Font1632.width - 1
      /\ s.box.bottom = 30 + Font1632.height - 1
  <2>1. 340 \in Int /\ 30 \in Int /\ Font1632 \in {Font1632, Font815}
    OBVIOUS
  <2>2. NumberAt(s, 340, 30, v.humi, Font1632)
    BY <2>1, NumberPlace, Zenon
  <2> HIDE DEF s
  <2> QED
    BY <2>2 DEF NumberAt
<1>3. s = [box |-> s.box, font |-> Font1632, chars |-> s.chars]
  BY DEF DrawNumber, DrawString
<1>4. s.box \in [left : Int, top : Int, right : Int, bottom : Int]
  BY <1>2 DEF Sound
<1> HIDE DEF s
<1>5. s.box.right + 16 \in Int /\ (s.chars \cup {Percent}) \subseteq 32 .. 126
  BY <1>2, <1>4 DEF Percent
<1>6. /\ Humid(v).box = [s.box EXCEPT !.right = s.box.right + 16]
      /\ Humid(v).font = Font1632 /\ Humid(v).chars = s.chars \cup {Percent}
  BY <1>1, <1>3, FontFacts
<1>7. Sound(Humid(v))
  BY <1>4, <1>5, <1>6, FontFacts DEF Sound
<1>8. /\ Humid(v).box.left = s.box.left /\ Humid(v).box.top = s.box.top
      /\ Humid(v).box.right = s.box.right + 16 /\ Humid(v).box.bottom = s.box.bottom
  BY <1>4, <1>6
<1> QED
  BY <1>2, <1>7, <1>8, FontFacts

LEMMA BatteryPlace ==
  ASSUME NEW bat, NEW charging
  PROVE  LET item == Battery(bat, charging)
         IN /\ Sound(item)
            /\ item.box.left = 380 /\ item.box.right = 395
            /\ item.box.top = 0 /\ item.box.bottom = 15
<1>1. Icon(bat, charging) \in 32 .. 37
  BY DEF Icon, Space
<1>2. Battery(bat, charging)
        = [box |-> [left |-> 380, top |-> 0, right |-> 380 + 1 * 16 - 1, bottom |-> 0 + 16 - 1],
           font |-> FontICON, chars |-> {Icon(bat, charging)}]
  BY FontFacts DEF Battery, DrawString, Box
<1> QED
  BY <1>1, <1>2 DEF Sound

LEMMA LabelPlace ==
  ASSUME NEW i \in 1 .. 4
  PROVE  LET item == Label(i)
         IN /\ Sound(item)
            /\ item.box.left = 255 /\ item.box.right \in 255 .. 310
            /\ item.box.top = 75 * (i - 1) + 5 /\ item.box.bottom = 75 * (i - 1) + 19
<1> DEFINE n == <<6, 7, 5, 2>>[i]
<1>1. n \in 2 .. 7
  OBVIOUS
<1>2. Label(i)
        = [box |-> [left |-> 255, top |-> 75 * (i - 1) + 5, right |-> 255 + n * 8 - 1,
                    bottom |-> 75 * (i - 1) + 5 + 15 - 1],
           font |-> Font815, chars |-> Letters]
  BY FontFacts DEF Label, DrawString, Box
<1> HIDE DEF n
<1>3. 255 + n * 8 - 1 \in 255 .. 310
  BY <1>1
<1>4. Letters \subseteq 32 .. 126
  BY DEF Letters
<1>5. 75 * (i - 1) + 5 + 15 - 1 = 75 * (i - 1) + 19
  OBVIOUS
<1> QED
  BY <1>2, <1>3, <1>4, <1>5, FontFacts DEF Sound

LEMMA RulePlace ==
  ASSUME NEW item \in RuleSet
  PROVE  /\ Sound(item) /\ item.chars = {}
         /\ \/ /\ item.box.left = 250 /\ item.box.right = 250
               /\ item.box.top = 2 /\ item.box.bottom = 297
            \/ /\ item.box.left = 250 /\ item.box.right = 397
               /\ item.box.top = item.box.bottom /\ item.box.top \in {75, 150, 225}
<1>1. CASE item = DrawVerticalLine(250, 2, 296)
  BY <1>1, FontFacts DEF DrawVerticalLine, Shape, Box, Sound
<1>2. CASE \E i \in 1 .. 3 : item = DrawHorizontalLine(250, 75 * i, 148)
  BY <1>2, FontFacts DEF DrawHorizontalLine, Shape, Box, Sound
<1> QED
  BY <1>1, <1>2 DEF RuleSet

LEMMA CirclePlace ==
  ASSUME NEW down \in Int, NEW item \in Circles(down)
  PROVE  /\ Sound(item) /\ item.chars = {}
         /\ item.box.left \in 303 .. 309 /\ item.box.right \in 303 .. 309
         /\ item.box.top \in 38 + down .. 44 + down /\ item.box.bottom \in 38 + down .. 44 + down
         /\ item.box.left <= item.box.right /\ item.box.top <= item.box.bottom
<1>1. PICK r \in 2 .. 3 : item = DrawCircle(306, 41 + down, r)
  BY DEF Circles
<1>2. PICK dy \in 0 .. r :
        item = Shape(Box(306 - r, (41 + down) - dy, 2 * r + 1, 2 * dy + 1))
  <2>1. r \in Nat /\ 306 \in Int /\ 41 + down \in Int
    OBVIOUS
  <2>2. InSquare(item, 306, 41 + down, r)
    BY <1>1, <2>1, CircleBox, Zenon
  <2> QED
    BY <2>2 DEF InSquare
<1> QED
  BY <1>2, FontFacts DEF Shape, Box, Sound

(* Whatever the values: every item is in order.                            *)
LEMMA ItemsSound ==
  ASSUME NEW v, v.whole \in Int, v.part \in Int, v.humi \in Int,
         NEW outdoor, outdoor.whole \in Int, outdoor.part \in Int,
         NEW bat, NEW charging, NEW item \in Items(v, outdoor, bat, charging)
  PROVE  Sound(item)
<1>1. CASE item \in RuleSet   BY <1>1, RulePlace
<1>2. CASE item \in LabelSet  BY <1>2, LabelPlace DEF LabelSet
<1>3. CASE item = Battery(bat, charging)  BY <1>3, BatteryPlace
<1>4. CASE item \in Circles(0) \cup Circles(75)  BY <1>4, CirclePlace
<1>5. CASE item \in {Whole(v, 0), Whole(outdoor, 75)}
  BY <1>5, WholePlace DEF NumberAt
<1>6. CASE item \in {Part(v, 0), Part(outdoor, 75)}
  BY <1>6, PartPlace DEF NumberAt
<1>7. CASE item = Humid(v)    BY <1>7, HumidPlace
<1> QED
  BY <1>1, <1>2, <1>3, <1>4, <1>5, <1>6, <1>7 DEF Items, Fixed, ValueSet

(* Where text may stand, when numbers have at most two digits: a cell each, *)
(* apart from the others and from every line and circle.                    *)
Cell(left, right, top, bottom) == [left |-> left, top |-> top, right |-> right, bottom |-> bottom]
Cells == <<Cell(255, 310, 5, 19), Cell(255, 310, 80, 94), Cell(255, 310, 155, 169),
           Cell(255, 310, 230, 244),
           Cell(270, 301, 30, 61), Cell(303, 310, 45, 59), Cell(340, 387, 30, 61),
           Cell(270, 301, 105, 136), Cell(303, 310, 120, 134),
           Cell(380, 395, 0, 15)>>
Texts(v, outdoor, bat, charging) ==
  <<Label(1), Label(2), Label(3), Label(4), Whole(v, 0), Part(v, 0), Humid(v),
    Whole(outdoor, 75), Part(outdoor, 75), Battery(bat, charging)>>

Within(box, cell) == /\ cell.left <= box.left /\ box.left <= box.right /\ box.right <= cell.right
                     /\ cell.top <= box.top /\ box.top <= box.bottom /\ box.bottom <= cell.bottom
Clear(box, cell)  == \/ box.right < cell.left \/ cell.right < box.left
                     \/ box.bottom < cell.top \/ cell.bottom < box.top
OnPaper(box) == box.left >= 0 /\ box.right <= 399 /\ box.top >= 0 /\ box.bottom <= 299
Graphic(item) ==
  /\ item.chars = {}
  /\ item.box.left <= item.box.right /\ item.box.top <= item.box.bottom /\ OnPaper(item.box)
  /\ \A k \in 1 .. 10 : Clear(item.box, Cells[k])

LEMMA CellsApart ==
  /\ \A j, k \in 1 .. 10 : j # k => Clear(Cells[j], Cells[k])
  /\ \A k \in 1 .. 10 : OnPaper(Cells[k])
  /\ \A k \in 1 .. 10 : Cells[k] \in [left : Int, top : Int, right : Int, bottom : Int]
BY SMTT(60) DEF Cells, Cell, Clear, OnPaper

LEMMA RulesClear == ASSUME NEW item \in RuleSet PROVE Graphic(item)
BY RulePlace, SMTT(60) DEF Graphic, OnPaper, Clear, Cells, Cell

LEMMA CirclesClear == ASSUME NEW item \in Circles(0) \cup Circles(75) PROVE Graphic(item)
<1> DEFINE d == IF item \in Circles(0) THEN 0 ELSE 75
<1>1. /\ item.chars = {}
      /\ item.box.left \in 303 .. 309 /\ item.box.right \in 303 .. 309
      /\ item.box.top \in 38 + d .. 44 + d /\ item.box.bottom \in 38 + d .. 44 + d
      /\ item.box.left <= item.box.right /\ item.box.top <= item.box.bottom
  BY CirclePlace
<1> QED
  BY <1>1, SMTT(60) DEF Graphic, OnPaper, Clear, Cells, Cell

LEMMA TextsWithin ==
  ASSUME NEW v, Ordinary(v), v.humi \in 0 .. 99, NEW outdoor, Ordinary(outdoor),
         NEW bat, NEW charging, NEW k \in 1 .. 10
  PROVE  /\ Sound(Texts(v, outdoor, bat, charging)[k])
         /\ Within(Texts(v, outdoor, bat, charging)[k].box, Cells[k])
<1> DEFINE text == Texts(v, outdoor, bat, charging)
<1>1. /\ v.whole \in 0 .. 99 /\ v.part \in Int /\ Tenths(v) \in 0 .. 9
      /\ outdoor.whole \in 0 .. 99 /\ outdoor.part \in Int /\ Tenths(outdoor) \in 0 .. 9
  BY TenthsOf, TenthIsNat DEF Ordinary
<1>2. /\ NumberLength(v.whole) \in 1 .. 2 /\ NumberLength(outdoor.whole) \in 1 .. 2
      /\ NumberLength(v.humi) \in 1 .. 2
      /\ NumberLength(Tenths(v)) = 1 /\ NumberLength(Tenths(outdoor)) = 1
  BY <1>1, LengthOf
<1> USE DEF Texts, Cells, Cell, Within
<1>3. CASE k \in 1 .. 4
  <2>1. text[k] = Label(k)
    BY <1>3
  <2>2. /\ Cells[k].left = 255 /\ Cells[k].right = 310
        /\ Cells[k].top = 75 * (k - 1) + 5 /\ Cells[k].bottom = 75 * (k - 1) + 19
    BY <1>3
  <2> QED
    BY <1>3, <2>1, <2>2, LabelPlace
<1>4. ASSUME NEW w, w.whole \in Int, NumberLength(w.whole) \in 1 .. 2, NEW d \in {0, 75}
      PROVE  Sound(Whole(w, d)) /\ Within(Whole(w, d).box, Cell(270, 301, 30 + d, 61 + d))
  <2>1. NumberAt(Whole(w, d), 270, 30 + d, w.whole, Font1632)
    BY <1>4, WholePlace
  <2> QED
    BY <1>4, <2>1, FontFacts DEF NumberAt
<1>5. ASSUME NEW w, w.part \in Int, NumberLength(Tenths(w)) = 1, NEW d \in {0, 75}
      PROVE  Sound(Part(w, d)) /\ Within(Part(w, d).box, Cell(303, 310, 45 + d, 59 + d))
  <2>1. NumberAt(Part(w, d), 303, 45 + d, Tenths(w), Font815)
    BY <1>5, PartPlace
  <2> QED
    BY <1>5, <2>1, FontFacts DEF NumberAt
<1>6. CASE k = 5
  BY <1>1, <1>2, <1>4, <1>6
<1>7. CASE k = 6
  BY <1>1, <1>2, <1>5, <1>7
<1>8. CASE k = 7
  BY <1>2, <1>8, HumidPlace
<1>9. CASE k = 8
  BY <1>1, <1>2, <1>4, <1>9
<1>10. CASE k = 9
  BY <1>1, <1>2, <1>5, <1>10
<1>11. CASE k = 10
  BY <1>11, BatteryPlace
<1> HIDE DEF Texts, Cells, Cell, Within, text
<1>12. k \in 1 .. 4 \/ k = 5 \/ k = 6 \/ k = 7 \/ k = 8 \/ k = 9 \/ k = 10
  OBVIOUS
<1> QED
  BY <1>3, <1>6, <1>7, <1>8, <1>9, <1>10, <1>11, <1>12

(* An item is a line, a circle, or a text in its cell. *)
LEMMA TextOrGraphic ==
  ASSUME NEW v, NEW outdoor, NEW bat, NEW charging,
         NEW item \in Fixed(bat, charging) \cup ValueSet(v, outdoor)
  PROVE  \/ Graphic(item)
         \/ \E k \in 1 .. 10 : item = Texts(v, outdoor, bat, charging)[k]
<1> DEFINE text == Texts(v, outdoor, bat, charging)
<1>1. CASE item \in RuleSet
  BY <1>1, RulesClear
<1>2. CASE item \in Circles(0) \cup Circles(75)
  BY <1>2, CirclesClear
<1>3. CASE item \in LabelSet
  <2>1. PICK i \in 1 .. 4 : item = Label(i)
    BY <1>3 DEF LabelSet
  <2>2. i \in 1 .. 10 /\ item = text[i]
    BY <2>1 DEF Texts
  <2> QED
    BY <2>2
<1>4. CASE item \in {Whole(v, 0), Part(v, 0), Humid(v), Whole(outdoor, 75), Part(outdoor, 75),
                     Battery(bat, charging)}
  <2>1. item \in {text[5], text[6], text[7], text[8], text[9], text[10]}
    BY <1>4 DEF Texts
  <2> HIDE DEF text
  <2> QED
    BY <2>1 DEF text
<1> QED
  BY <1>1, <1>2, <1>3, <1>4 DEF Fixed, ValueSet

LEMMA WithinVisible ==
  ASSUME NEW item, Sound(item), item.box.left <= item.box.right,
         item.box.top <= item.box.bottom, OnPaper(item.box)
  PROVE  Visible(Paper, item)
BY DEF Sound, OnPaper, Visible, Corners, InFrame, Paper, Frame

(* Ordinary values: everything is on the paper, and no text touches        *)
(* anything else.                                                          *)
LEMMA OrdinaryApart ==
  ASSUME NEW v, Ordinary(v), v.humi \in 0 .. 99, NEW outdoor, Ordinary(outdoor),
         NEW bat, NEW charging,
         NEW a \in Fixed(bat, charging) \cup ValueSet(v, outdoor), Sound(a),
         NEW b \in Fixed(bat, charging) \cup ValueSet(v, outdoor), Sound(b)
  PROVE  Visible(Paper, a) /\ (Nested(a, b) \/ Apart(a, b))
<1> DEFINE text == Texts(v, outdoor, bat, charging)
<1>1. \A k \in 1 .. 10 : Within(text[k].box, Cells[k])
  BY TextsWithin
<1>2. Graphic(a) \/ \E k \in 1 .. 10 : a = text[k]
  BY TextOrGraphic
<1>3. Graphic(b) \/ \E k \in 1 .. 10 : b = text[k]
  BY TextOrGraphic
<1>4. /\ a.box \in [left : Int, top : Int, right : Int, bottom : Int]
      /\ b.box \in [left : Int, top : Int, right : Int, bottom : Int]
  BY DEF Sound
<1> HIDE DEF text
<1>5. Visible(Paper, a)
  <2>1. CASE Graphic(a)
    BY <2>1, WithinVisible DEF Graphic
  <2>2. CASE \E k \in 1 .. 10 : a = text[k]
    <3>1. PICK k \in 1 .. 10 : a = text[k]
      BY <2>2
    <3>2. /\ Within(a.box, Cells[k]) /\ OnPaper(Cells[k])
          /\ Cells[k] \in [left : Int, top : Int, right : Int, bottom : Int]
      BY <1>1, <3>1, CellsApart
    <3>3. OnPaper(a.box) /\ a.box.left <= a.box.right /\ a.box.top <= a.box.bottom
      BY <1>4, <3>2 DEF Within, OnPaper
    <3> QED
      BY <3>3, WithinVisible
  <2> QED
    BY <1>2, <2>1, <2>2
<1>6. ASSUME Graphic(a), Graphic(b)
      PROVE  Nested(a, b)
  BY <1>6 DEF Graphic, Nested
<1>7. ASSUME NEW g, g.box \in [left : Int, top : Int, right : Int, bottom : Int], Graphic(g),
             NEW k \in 1 .. 10, text[k].box \in [left : Int, top : Int, right : Int, bottom : Int]
      PROVE  Apart(g, text[k]) /\ Apart(text[k], g)
  <2>1. Clear(g.box, Cells[k]) /\ Within(text[k].box, Cells[k])
        /\ Cells[k] \in [left : Int, top : Int, right : Int, bottom : Int]
    BY <1>1, <1>7, CellsApart DEF Graphic
  <2> QED
    BY <1>7, <2>1 DEF Clear, Within, Apart
<1>8. ASSUME NEW j \in 1 .. 10, NEW k \in 1 .. 10, a = text[j], b = text[k]
      PROVE  Nested(a, b) \/ Apart(a, b)
  <2>1. CASE j = k
    BY <1>8, <2>1 DEF Nested
  <2>2. CASE j # k
    <3>1. /\ Clear(Cells[j], Cells[k]) /\ Within(a.box, Cells[j]) /\ Within(b.box, Cells[k])
          /\ Cells[j] \in [left : Int, top : Int, right : Int, bottom : Int]
          /\ Cells[k] \in [left : Int, top : Int, right : Int, bottom : Int]
      BY <1>1, <1>8, <2>2, CellsApart
    <3> QED
      BY <1>4, <3>1 DEF Clear, Within, Apart
  <2> QED
    BY <2>1, <2>2
<1>9. Nested(a, b) \/ Apart(a, b)
  BY <1>2, <1>3, <1>4, <1>6, <1>7, <1>8
<1> QED
  BY <1>5, <1>9

LEMMA ReadingInts ==
  \A r \in Readings : r.whole \in Int /\ r.part \in Int /\ r.humi \in Int
<1>1. DOMAIN Zero = {"whole", "part", "humi"}
  BY DEF Zero
<1> QED
  BY <1>1, DisplayAssumption, Zenon DEF DisplayAssumption

LEMMA FieldsOf ==
  ASSUME NEW v \in Words \cup {Blank}
  PROVE  v.whole \in Int /\ v.part \in Int /\ v.humi \in Int
<1>1. \A r \in Readings \cup {Zero} : r.whole \in Int /\ r.part \in Int /\ r.humi \in Int
  BY ReadingInts DEF Zero
<1> QED
  BY <1>1 DEF Words, Blank, Zero

LEMMA AllInside == ASSUME NEW v \in Words \cup {Blank} PROVE Inside(v)
<1> SUFFICES ASSUME NEW outdoor \in OutdoorValues, NEW bat \in BatValues, NEW charging \in BOOLEAN
             PROVE  LET items == Drawing(v, outdoor, bat, charging)
                    IN /\ \A i \in DOMAIN items : ReadsTable(items[i]) /\ WritesFrame(Paper, items[i])
                       /\ (v = Blank \/ (Ordinary(v) /\ v.humi \in 0 .. 99)) /\ Ordinary(outdoor) =>
                            \A i \in DOMAIN items :
                              /\ Visible(Paper, items[i])
                              /\ \A j \in DOMAIN items :
                                   Nested(items[i], items[j]) \/ Apart(items[i], items[j])
  BY DEF Inside
<1> DEFINE items == Drawing(v, outdoor, bat, charging)
           S == Items(v, outdoor, bat, charging)
<1>1. v.whole \in Int /\ v.part \in Int /\ v.humi \in Int
  BY FieldsOf
<1>2. outdoor.whole \in Int /\ outdoor.part \in Int
  BY DisplayAssumption, Zenon DEF DisplayAssumption
<1>3. items \in Seq(S)
  BY DrawingItems
<1>4. \A item \in S : Sound(item)
  BY <1>1, <1>2, ItemsSound
<1> HIDE DEF items, S
<1>5. \A i \in DOMAIN items : items[i] \in S
  BY <1>3
<1>6. \A i \in DOMAIN items : ReadsTable(items[i]) /\ WritesFrame(Paper, items[i])
  BY <1>4, <1>5, SoundStaysInside
<1>7. ASSUME v = Blank \/ (Ordinary(v) /\ v.humi \in 0 .. 99), Ordinary(outdoor)
      PROVE  \A i \in DOMAIN items :
               /\ Visible(Paper, items[i])
               /\ \A j \in DOMAIN items : Nested(items[i], items[j]) \/ Apart(items[i], items[j])
  <2> DEFINE w == IF v = Blank THEN Zero ELSE v
  <2>1. Ordinary(w) /\ w.humi \in 0 .. 99
    BY <1>7, TenthIsNat DEF Ordinary, Zero
  <2>2. S \subseteq Fixed(bat, charging) \cup ValueSet(w, outdoor)
    BY DEF S, Items
  <2> HIDE DEF w
  <2>3. \A a \in S, b \in S : Visible(Paper, a) /\ (Nested(a, b) \/ Apart(a, b))
    BY <1>4, <1>7, <2>1, <2>2, OrdinaryApart
  <2> QED
    BY <1>5, <2>3
<1> QED
  BY <1>6, <1>7 DEF items

-----------------------------------------------------------------------------
(* The node *)

(* What is sent was drawn, and for a panel that was configured.            *)
GlassInv ==
  /\ GlassWhole
  /\ main = "init" => glass = None /\ ~Configured
  /\ main \in {"send", "refresh"} => frame # None /\ Configured

(* Until a server was found nothing is started, and while the work is on   *)
(* its way the client is not; the server found has used up a reply.        *)
ServerInv ==
  /\ OneServer
  /\ work # "none" => lwm2mServer # None /\ client = None /\ starts = 0
  /\ lwm2mServer = None => client = None /\ starts = 0
  /\ lwm2mServer # None => replies < MaxReplies

(* What was taken with the semaphore stays what it was until something is  *)
(* written, and what is written gives the semaphore again.                 *)
CurrentInv ==
  /\ main \in {"init", "boot", "join", "ping"} => ~complete
  /\ complete /\ sem = 0 /\ fetch \in {"rest", "whole"} =>
       /\ main \in {"send", "refresh"} => frame = sensors
       /\ main \in {"settle", "sleep", "poll"} => glass = sensors

DisplayInv == TypeOK /\ GlassInv /\ ServerInv /\ CurrentInv

-----------------------------------------------------------------------------
(* Values *)

LEMMA CommandFacts ==
  /\ Len(InitCommands) = 16
  /\ InitCommands[1] = "reset" /\ InitCommands[2] = "wait" /\ InitCommands[6] = "wait"
  /\ \A i \in 1 .. 16 : InitCommands[i] \in Busying => i \in {1, 5}
BY DEF InitCommands, Busying

LEMMA ReadingFields ==
  ASSUME NEW r \in Readings \cup {Zero}
  PROVE  /\ r["whole"] \in {q.whole : q \in Readings \cup {Zero}}
         /\ r["part"] \in {q.part : q \in Readings \cup {Zero}}
         /\ r["humi"] \in {q.humi : q \in Readings \cup {Zero}}
OBVIOUS

LEMMA ZeroIsWords == Zero \in Words
BY DEF Words, Zero

(* A word of a measurement written over one of the values.                 *)
LEMMA WordWritten ==
  ASSUME NEW w \in Words, NEW r \in Readings \cup {Zero}, NEW f \in {"whole", "part", "humi"}
  PROVE  [w EXCEPT ![f] = r[f]] \in Words
<1>1. CASE f = "whole"  BY <1>1, ReadingFields DEF Words
<1>2. CASE f = "part"   BY <1>2, ReadingFields DEF Words
<1>3. CASE f = "humi"   BY <1>3, ReadingFields DEF Words
<1> QED  BY <1>1, <1>2, <1>3

LEMMA NoneApart == None \notin Words \cup {Blank} /\ None \notin Servers
BY DisplayAssumption

LEMMA RepliesBound == MaxReplies \in Nat
BY DisplayAssumption
-----------------------------------------------------------------------------
(* Every step keeps the types.                                             *)

(* The steps that neither main nor the panel takes.                        *)
LEMMA PanelLeftAlone ==
  \/ Sensor \/ RoleChange \/ JoinDone \/ SendPing \/ StartLWM2M \/ Setup
  \/ \E s \in Servers : Reply(s)
  \/ \E s \in {"connect", "disconnect"} : Report(s)
  \/ UNCHANGED vars
  => UNCHANGED <<loop, panel>>
BY DEF Sensor, Fetch, FetchFails, WriteWord, Give, SensorRuns, RoleChange, JoinDone, SendPing,
       StartLWM2M, Setup, Reply, Report, vars, loop, panel

LEMMA ValuesTypeStep ==
  ASSUME TypeOK, [Next]_vars
  PROVE  ValuesType'
<1> USE DEF TypeOK, ValuesType
<1>1. ASSUME NEW r \in Readings, Fetch(r)
      PROVE  ValuesType'
  BY <1>1 DEF Fetch, SensorRuns, lwm2m
<1>2. CASE FetchFails
  BY <1>2 DEF FetchFails, SensorRuns, lwm2m
<1>3. CASE WriteWord
  <2>1. fetch \in {"whole", "part", "humi"} /\ fetch' \in {"part", "humi", "give"}
    BY <1>3 DEF WriteWord, After
  <2>2. sensors' \in Words
    BY <1>3, <2>1, WordWritten DEF WriteWord
  <2> QED
    BY <1>3, <2>1, <2>2 DEF WriteWord, SensorRuns, lwm2m
<1>4. CASE Give
  BY <1>4 DEF Give, SensorRuns, lwm2m
<1>5. CASE Take
  BY <1>5 DEF Take, measuring
<1>6. CASE UNCHANGED <<measuring, sem>>
  BY <1>6 DEF measuring
<1>7. InitStep \/ Found \/ StartJoin \/ GiveUpWaiting \/ OrderPing \/ Draw \/ Transfer
      \/ TransferFails \/ Refresh \/ RefreshFails \/ Settle \/ Awake \/ PanelReady \/ RoleChange
      \/ JoinDone \/ SendPing \/ StartLWM2M \/ Setup \/ UNCHANGED vars
      \/ (\E s \in Servers : Reply(s)) \/ (\E s \in {"connect", "disconnect"} : Report(s))
      => UNCHANGED <<measuring, sem>>
  BY DEF InitStep, Found, StartJoin, GiveUpWaiting, OrderPing, Draw, Transfer, TransferFails,
         Refresh, RefreshFails, Settle, Awake, PanelReady, RoleChange, JoinDone, SendPing,
         StartLWM2M, Setup, Reply, Report, vars, measuring
<1> QED
  BY <1>1, <1>2, <1>3, <1>4, <1>5, <1>6, <1>7 DEF Next, Sensor, Main

LEMMA MainTypeStep ==
  ASSUME TypeOK, GlassInv, [Next]_vars
  PROVE  MainType'
<1> USE DEF TypeOK, MainType
<1>1. CASE InitStep
  <2>1. position \in 1 .. 16
    BY <1>1, CommandFacts DEF InitStep, GlassInv, Configured
  <2>2. position' \in 1 .. Len(InitCommands) + 1 /\ main' \in {"init", "boot"}
    BY <1>1, <2>1, CommandFacts DEF InitStep
  <2>3. busy' \in BOOLEAN
    BY <1>1 DEF InitStep
  <2> QED
    BY <1>1, <2>2, <2>3 DEF InitStep
<1>2. CASE Take
  BY <1>2 DEF Take, panel
<1>3. CASE Draw
  <2>1. frame' \in Words \cup {Blank, None}
    BY <1>3 DEF Draw, ValuesType
  <2> QED
    BY <1>3, <2>1 DEF Draw, panel
<1>4. CASE Transfer \/ TransferFails
  BY <1>4 DEF Transfer, TransferFails
<1>5. CASE Refresh \/ RefreshFails
  BY <1>5 DEF Refresh, RefreshFails, panel
<1>6. CASE Found \/ StartJoin \/ GiveUpWaiting \/ OrderPing \/ Settle \/ Awake
  BY <1>6 DEF Found, StartJoin, GiveUpWaiting, OrderPing, Settle, Awake, panel
<1>7. CASE PanelReady
  <2>1. busy' \in BOOLEAN
    BY <1>7 DEF PanelReady
  <2> QED
    BY <1>7, <2>1 DEF PanelReady, loop
<1>8. CASE UNCHANGED <<loop, panel>>
  BY <1>8 DEF loop, panel
<1> QED
  BY <1>1, <1>2, <1>3, <1>4, <1>5, <1>6, <1>7, <1>8, PanelLeftAlone DEF Next, Main

LEMMA SearchTypeStep ==
  ASSUME TypeOK, ServerInv, [Next]_vars
  PROVE  SearchType'
<1> USE DEF TypeOK, SearchType
<1>1. CASE StartJoin
  BY <1>1 DEF StartJoin, search, lwm2m
<1>2. CASE OrderPing
  BY <1>2 DEF OrderPing, network, lwm2m
<1>3. CASE RoleChange
  <2>1. connected' \in BOOLEAN
    BY <1>3 DEF RoleChange
  <2> QED
    BY <1>3, <2>1 DEF RoleChange, search, lwm2m
<1>4. CASE JoinDone
  BY <1>4 DEF JoinDone, search, lwm2m
<1>5. CASE SendPing
  BY <1>5 DEF SendPing, network, lwm2m
<1>6. CASE StartLWM2M
  BY <1>6 DEF StartLWM2M, network, lwm2m
<1>7. CASE Setup
  <2>1. starts = 0 /\ replies < MaxReplies /\ replies \in Nat /\ MaxReplies \in Nat
    BY <1>7, RepliesBound DEF Setup, ServerInv
  <2>2. starts' \in 0 .. MaxReplies
    BY <1>7, <2>1 DEF Setup
  <2> QED
    BY <1>7, <2>2 DEF Setup, network
<1>8. ASSUME NEW s \in Servers, Reply(s)
      PROVE  SearchType'
  <2>1. replies' \in 0 .. MaxReplies
    BY <1>8, RepliesBound DEF Reply
  <2>2. lwm2mServer' \in Servers \cup {None} /\ work' \in {"none", "queued", "setup"}
    BY <1>8 DEF Reply
  <2> QED
    BY <1>8, <2>1, <2>2 DEF Reply, network, lwm2m
<1>9. ASSUME NEW s \in {"connect", "disconnect"}, Report(s)
      PROVE  SearchType'
  BY <1>9 DEF Report, network, search
<1>10. CASE UNCHANGED <<network, search, client, starts, status>>
  BY <1>10 DEF network, search
<1>11. Sensor \/ InitStep \/ Found \/ GiveUpWaiting \/ Take \/ Draw \/ Transfer
       \/ TransferFails \/ Refresh \/ RefreshFails \/ Settle \/ Awake \/ PanelReady
       \/ UNCHANGED vars
       => UNCHANGED <<network, search, client, starts, status>>
  BY DEF Sensor, Fetch, FetchFails, WriteWord, Give, SensorRuns, InitStep, Found, GiveUpWaiting,
         Take, Draw, Transfer, TransferFails, Refresh, RefreshFails, Settle, Awake, PanelReady,
         vars, network, search, lwm2m
<1> QED
  BY <1>1, <1>2, <1>3, <1>4, <1>5, <1>6, <1>7, <1>8, <1>9, <1>10, <1>11 DEF Next, Main

-----------------------------------------------------------------------------
(* The panel *)

(* Only the start, a drawing, a refresh and the panel itself matter to it. *)
LEMMA GlassStep ==
  ASSUME TypeOK, GlassInv, [Next]_vars
  PROVE  GlassInv'
<1> USE DEF GlassInv, GlassWhole, Configured
<1>1. CASE InitStep
  <2>1. position \in 1 .. 16 /\ glass = None
    BY <1>1, CommandFacts DEF TypeOK, MainType, InitStep
  <2>2. CASE position' = 1 /\ main' = "boot" /\ busy' = FALSE
    BY <1>1, <2>1, <2>2 DEF InitStep, network, search, lwm2m
  <2>3. CASE /\ position' = position + 1
             /\ main' = IF position = Len(InitCommands) THEN "boot" ELSE "init"
             /\ busy' = (busy \/ InitCommands[position] \in Busying)
    <3>1. busy => InitCommands[position] = "wait"
      BY <1>1 DEF InitStep
    <3>2. ~busy
      BY <1>1, <3>1 DEF InitStep
    <3>3. busy' => position \in {1, 5}
      BY <2>1, <2>3, <3>2, CommandFacts
    <3>4. busy' => main' = "init" /\ InitCommands[position'] = "wait"
      BY <2>3, <3>3, CommandFacts
    <3>5. main' = "init" => ~(position' > 16)
      BY <2>1, <2>3, CommandFacts
    <3> QED
      BY <1>1, <2>1, <2>3, <3>4, <3>5, CommandFacts DEF InitStep
  <2> QED
    BY <1>1, <2>2, <2>3 DEF InitStep
<1>2. CASE Draw
  BY <1>2, NoneApart DEF Draw, TypeOK, ValuesType, panel
<1>3. CASE Transfer \/ TransferFails \/ Refresh
  BY <1>3 DEF Transfer, TransferFails, Refresh
<1>4. CASE RefreshFails \/ Settle \/ Awake \/ Take \/ OrderPing \/ GiveUpWaiting \/ StartJoin
           \/ Found
  BY <1>4 DEF RefreshFails, Settle, Awake, Take, OrderPing, GiveUpWaiting, StartJoin, Found, panel
<1>5. CASE PanelReady
  BY <1>5 DEF PanelReady, loop
<1>6. CASE UNCHANGED <<loop, panel>>
  BY <1>6 DEF loop, panel
<1> QED
  BY <1>1, <1>2, <1>3, <1>4, <1>5, <1>6, PanelLeftAlone DEF Next, Main

-----------------------------------------------------------------------------
(* What is shown *)

LEMMA CurrentStep ==
  ASSUME TypeOK, GlassInv, CurrentInv, [Next]_vars
  PROVE  CurrentInv'
<1> USE DEF CurrentInv
<1>1. CASE Sensor
  <2>1. MainBlocked /\ UNCHANGED <<loop, panel>>
    BY <1>1 DEF Sensor, Fetch, FetchFails, WriteWord, Give, SensorRuns
  <2>2. UNCHANGED <<main, complete, frame, glass>>
    BY <2>1 DEF loop, panel
  <2>3. CASE FetchFails \/ Give \/ WriteWord
    <3>1. sem' = 1 \/ fetch' \notin {"rest", "whole"}
      BY <2>3 DEF FetchFails, Give, WriteWord, After
    <3> QED
      BY <2>2, <3>1
  <2>4. ASSUME NEW r \in Readings, Fetch(r) PROVE CurrentInv'
    BY <2>2, <2>4 DEF Fetch
  <2> QED
    BY <1>1, <2>3, <2>4 DEF Sensor
<1>2. CASE Take
  BY <1>2 DEF Take
<1>3. CASE Draw
  <2>1. main' \in {"send", "fault"} /\ main = "draw" /\ sensors' = sensors
    BY <1>3 DEF Draw, measuring
  <2>2. main' = "send" /\ complete' => frame' = sensors
    BY <1>3 DEF Draw
  <2> QED
    BY <2>1, <2>2
<1>4. CASE Transfer \/ Refresh
  BY <1>4 DEF Transfer, Refresh, GlassInv, GlassWhole, measuring
<1>5. CASE TransferFails \/ RefreshFails
  BY <1>5 DEF TransferFails, RefreshFails
<1>6. CASE InitStep \/ Found \/ StartJoin \/ GiveUpWaiting \/ OrderPing \/ Settle \/ Awake
  <2>1. UNCHANGED <<sem, fetch, sensors, complete, glass>>
    BY <1>6 DEF InitStep, Found, StartJoin, GiveUpWaiting, OrderPing, Settle, Awake, measuring,
                panel
  <2>2. \/ main \in {"init", "boot", "join", "ping"} /\ main' \notin {"send", "refresh"}
        \/ main \in {"settle", "sleep"} /\ main' \in {"sleep", "poll"}
    BY <1>6 DEF InitStep, Found, StartJoin, GiveUpWaiting, OrderPing, Settle, Awake
  <2> QED
    BY <2>1, <2>2
<1>7. CASE UNCHANGED <<fetch, sensors, sem, main, frame, complete, glass>>
  BY <1>7
<1>8. PanelReady \/ RoleChange \/ JoinDone \/ SendPing \/ StartLWM2M \/ Setup \/ UNCHANGED vars
      \/ (\E s \in Servers : Reply(s)) \/ (\E s \in {"connect", "disconnect"} : Report(s))
      => UNCHANGED <<fetch, sensors, sem, main, frame, complete, glass>>
  BY DEF PanelReady, RoleChange, JoinDone, SendPing, StartLWM2M, Setup, Reply, Report, vars,
         measuring, loop, panel
<1> QED
  BY <1>1, <1>2, <1>3, <1>4, <1>5, <1>6, <1>7, <1>8 DEF Next, Main

-----------------------------------------------------------------------------
(* The search for a server *)

(* Only a reply and the two halves of the work touch what is started.      *)
LEMMA ServerStep ==
  ASSUME TypeOK, ServerInv, [Next]_vars
  PROVE  ServerInv'
<1> USE DEF ServerInv, OneServer
<1>1. ASSUME NEW s \in Servers, Reply(s)
      PROVE  ServerInv'
  <2>1. s # None /\ replies \in Int /\ MaxReplies \in Int /\ replies <= MaxReplies
    BY NoneApart, RepliesBound DEF TypeOK, SearchType
  <2>2. UNCHANGED <<target, gaveUp, client, starts>> /\ replies' = replies - 1
    BY <1>1 DEF Reply, lwm2m
  <2>3. CASE lwm2mServer = None
    <3>1. lwm2mServer' = s /\ work' = "queued"
      BY <1>1, <2>3 DEF Reply
    <3> QED
      BY <2>1, <2>2, <2>3, <3>1
  <2>4. CASE lwm2mServer # None
    <3>1. UNCHANGED <<lwm2mServer, work>>
      BY <1>1, <2>4 DEF Reply
    <3> QED
      BY <2>1, <2>2, <2>4, <3>1
  <2> QED
    BY <2>3, <2>4
<1>2. CASE StartLWM2M
  BY <1>2 DEF StartLWM2M, lwm2m
<1>3. CASE Setup
  BY <1>3 DEF Setup, TypeOK, SearchType
<1>4. CASE UNCHANGED <<replies, lwm2mServer, work, target, gaveUp, client, starts>>
  BY <1>4
<1>5. Sensor \/ Main \/ PanelReady \/ RoleChange \/ JoinDone \/ SendPing
      \/ (\E s \in {"connect", "disconnect"} : Report(s))
      \/ UNCHANGED vars
      => UNCHANGED <<replies, lwm2mServer, work, target, gaveUp, client, starts>>
  BY DEF Sensor, Fetch, FetchFails, WriteWord, Give, SensorRuns, Main, InitStep, Found, StartJoin,
         GiveUpWaiting, OrderPing, Take, Draw, Transfer, TransferFails, Refresh, RefreshFails,
         Settle, Awake, PanelReady, RoleChange, JoinDone, SendPing, Report, vars, search, lwm2m
<1> QED
  BY <1>1, <1>2, <1>3, <1>4, <1>5 DEF Next

-----------------------------------------------------------------------------
(* The theorems *)

LEMMA InitInv == Init => DisplayInv
<1> SUFFICES ASSUME Init PROVE DisplayInv
  OBVIOUS
<1> USE DEF Init
<1>1. TypeOK
  <2>1. ValuesType
    BY ZeroIsWords DEF ValuesType
  <2>2. MainType
    <3>1. position \in 1 .. Len(InitCommands) + 1
      BY CommandFacts
    <3> QED
      BY <3>1 DEF MainType
  <2>3. SearchType
    <3>1. replies \in 0 .. MaxReplies /\ starts \in 0 .. MaxReplies
      BY RepliesBound
    <3>2. connected \in BOOLEAN /\ gaveUp \in BOOLEAN
      OBVIOUS
    <3>3. {lwm2mServer, target, client} \subseteq Servers \cup {None}
      OBVIOUS
    <3> QED
      BY <3>1, <3>2, <3>3 DEF SearchType
  <2> QED
    BY <2>1, <2>2, <2>3 DEF TypeOK
<1>2. GlassInv
  BY CommandFacts DEF GlassInv, GlassWhole, Configured
<1>3. ServerInv
  BY DEF ServerInv, OneServer
<1>4. CurrentInv
  BY DEF CurrentInv
<1> QED
  BY <1>1, <1>2, <1>3, <1>4 DEF DisplayInv

LEMMA DisplayAlways == Spec => []DisplayInv
<1>1. DisplayInv /\ [Next]_vars => DisplayInv'
  BY ValuesTypeStep, MainTypeStep, SearchTypeStep, GlassStep, ServerStep, CurrentStep
     DEF DisplayInv, TypeOK
<1> QED
  BY InitInv, <1>1, PTL DEF Spec

(* Whatever is measured and whoever answers, what is drawn, kept in the    *)
(* panel and shown is made of words that were measured.                    *)
THEOREM DisplayTypeOK == Spec => []TypeOK
<1>1. DisplayInv => TypeOK
  BY DEF DisplayInv
<1> QED
  BY DisplayAlways, <1>1, PTL

(* app_display_update and the driver, whatever transfer or command fails:  *)
(* what a refresh shows is the whole of the last drawing, on a panel that  *)
(* was configured, and a busy panel is sent nothing but the status query.  *)
THEOREM DisplayGlassWhole == Spec => []GlassWhole
<1>1. DisplayInv => GlassWhole
  BY DEF DisplayInv, GlassInv
<1> QED
  BY DisplayAlways, <1>1, PTL

(* While main waits and the sensor thread rests, the panel shows the last  *)
(* values written, for any readings: a drawing made of values half written *)
(* is followed by another, because the semaphore is given after the last   *)
(* word.                                                                   *)
THEOREM DisplayShownIsCurrent == Spec => []ShownIsCurrent
<1>1. DisplayInv => ShownIsCurrent
  BY DEF DisplayInv, CurrentInv, ShownIsCurrent
<1> QED
  BY DisplayAlways, <1>1, PTL

(* handlePingReply and startLWM2M: one start, for the first server that    *)
(* answered, for any number of servers and replies.                        *)
THEOREM DisplayOneServer == Spec => []OneServer
<1>1. DisplayInv => OneServer
  BY DEF DisplayInv, ServerInv
<1> QED
  BY DisplayAlways, <1>1, PTL

(* app_display_update and epdpaint.c: whatever was measured and whatever   *)
(* the server and the ADC may have written, a drawing reads inside the     *)
(* fonts and writes inside the frame, and ordinary values stand apart.     *)
THEOREM DisplayDrawnInside == Spec => []DrawnInside
<1>1. DisplayInv => DrawnInside
  <2> SUFFICES ASSUME DisplayInv, frame # None PROVE <<frame, TRUE>> \in Verdicts
    BY DEF DrawnInside
  <2>1. frame \in Words \cup {Blank}
    BY DEF DisplayInv, TypeOK, MainType
  <2>2. Inside(frame) = TRUE
    BY <2>1, AllInside DEF Inside
  <2> QED
    BY <2>1, <2>2 DEF Verdicts
<1> QED
  BY DisplayAlways, <1>1, PTL
=============================================================================
