------------------------------- MODULE Paint -------------------------------
(***************************************************************************)
(* lib/display/epdpaint.c and the fonts it draws with: which bytes of the  *)
(* frame a pixel touches, which bytes of a font a character reads, and the *)
(* box that what is drawn may cover.  The shape of a glyph is not kept: it *)
(* may darken any pixel of its cell.                                       *)
(***************************************************************************)
EXTENDS Integers

(* Paint_Init: whole bytes of eight pixels; ROTATE_0.                      *)
Frame(width, height) ==
  [width |-> IF width % 8 = 0 THEN width ELSE (width + 8) - (width % 8), height |-> height]

InFrame(paint, x, y) == x \in 0 .. paint.width - 1 /\ y \in 0 .. paint.height - 1

(* Paint_DrawAbsolutePixel: the byte written, none outside the frame.      *)
Touched(paint, x, y) ==
  IF InFrame(paint, x, y) THEN {(x + y * paint.width) \div 8} ELSE {}

(* Paint_DrawPixel: where a pixel of the rotated drawing goes.             *)
Turned(paint, rotate, x, y) ==
  CASE rotate = 0   -> <<x, y>>
    [] rotate = 90  -> <<paint.width - y, x>>
    [] rotate = 180 -> <<paint.width - x, paint.height - y>>
    [] rotate = 270 -> <<y, paint.height - x>>

InDrawing(paint, rotate, x, y) ==
  IF rotate \in {0, 180} THEN InFrame(paint, x, y) ELSE InFrame(paint, y, x)

DrawPixel(paint, rotate, x, y) ==
  LET to == Turned(paint, rotate, x, y)
  IN IF InDrawing(paint, rotate, x, y) THEN Touched(paint, to[1], to[2]) ELSE {}

-----------------------------------------------------------------------------
(* Fonts: cell and length of the table. *)

Font8    == [width |-> 5,  height |-> 8,  size |-> 760]
Font24   == [width |-> 17, height |-> 24, size |-> 6840]
Font1632 == [width |-> 16, height |-> 32, size |-> 6080]
Font815  == [width |-> 8,  height |-> 15, size |-> 1425]
FontICON == [width |-> 16, height |-> 16, size |-> 192]

Space == 32

(* Paint_DrawCharAt: the first and the last byte of the table it reads.    *)
GlyphBytes(font) == font.height * ((font.width + 7) \div 8)
FirstRead(font, char) == (char - Space) * GlyphBytes(font)
LastRead(font, char)  == FirstRead(font, char) + GlyphBytes(font) - 1

-----------------------------------------------------------------------------
(* Drawings: the box they may darken, and the characters read for them.    *)

Box(x, y, w, h) == [left |-> x, top |-> y, right |-> x + w - 1, bottom |-> y + h - 1]

(* Paint_DrawStringAt of length characters out of chars. *)
DrawString(x, y, length, chars, font) ==
  [box |-> Box(x, y, length * font.width, font.height), font |-> font, chars |-> chars]

Shape(box) == [box |-> box, font |-> Font815, chars |-> {}]
DrawHorizontalLine(x, y, w) == Shape(Box(x, y, w, 1))
DrawVerticalLine(x, y, h)   == Shape(Box(x, y, 1, h))

(* Paint_DrawCircle: the position and the error term after n rounds of the *)
(* loop, and the box of the points drawn.                                  *)
CircleStep(c) ==
  LET down == c.err <= c.y
      y2   == IF down THEN c.y + 1 ELSE c.y
      err2 == IF down THEN c.err + 2 * y2 + 1 ELSE c.err
      e2   == IF down /\ -c.x = y2 /\ c.err <= c.x THEN 0 ELSE c.err
      across == e2 > c.x
      x2   == IF across THEN c.x + 1 ELSE c.x
  IN [x |-> x2, y |-> y2, err |-> IF across THEN err2 + 2 * x2 + 1 ELSE err2]

CircleRounds(radius) ==
  LET round[n \in 0 .. 4 * radius + 1] ==
        IF n = 0 THEN [x |-> -radius, y |-> 0, err |-> 2 - 2 * radius]
        ELSE CircleStep(round[n - 1])
  IN {c \in {round[n] : n \in 0 .. 4 * radius + 1} : c.x <= 0}

DrawCircle(x, y, radius) ==
  LET rounds == CircleRounds(radius)
      reach(S) == CHOOSE m \in S : \A n \in S : n <= m
      dx == reach({-c.x : c \in rounds})
      dy == reach({c.y : c \in rounds})
  IN Shape(Box(x - dx, y - dy, 2 * dx + 1, 2 * dy + 1))

-----------------------------------------------------------------------------
(* What a drawing must not do. *)

(* No byte read outside a font's table. *)
ReadsTable(item) ==
  \A char \in item.chars :
    FirstRead(item.font, char) >= 0 /\ LastRead(item.font, char) < item.font.size

(* No byte written outside the frame buffer: the corners of the box decide, *)
(* for the address grows with x and y and outside the frame nothing is      *)
(* written.                                                                 *)
Corners(box) == {box.left, box.right} \X {box.top, box.bottom}
WritesFrame(paint, item) ==
  \A c \in Corners(item.box) :
    DrawPixel(paint, 0, c[1], c[2]) \subseteq 0 .. (paint.width * paint.height) \div 8 - 1

Visible(paint, item) == \A c \in Corners(item.box) : InFrame(paint, c[1], c[2])

Apart(a, b) == \/ a.box.right < b.box.left \/ b.box.right < a.box.left
               \/ a.box.bottom < b.box.top \/ b.box.bottom < a.box.top

(* Drawn on one another on purpose: the same item, two circles, two rules. *)
Nested(a, b) == a = b \/ a.chars \cup b.chars = {}
=============================================================================
