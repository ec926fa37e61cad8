---------------------------- MODULE SplashImage ----------------------------
(***************************************************************************)
(* How psplash-drm draws a picture: where on the screen, and which pixels  *)
(* of the run-length encoded built-in one.  An encoded picture is the      *)
(* sequence of its blocks, [run, len]: a header byte, then one pixel to be *)
(* repeated len times (run), or len pixels.  The zero byte that ends the   *)
(* string literal is the end of the sequence.                              *)
(***************************************************************************)
EXTENDS Integers, Sequences

BytesPerPixel == 3

Least(a, b) == IF a < b THEN a ELSE b
Most(a, b)  == IF a < b THEN b ELSE a

\* Mutation of BlockPixels: the bound leaves room for the header byte.
BlockPixelsShort(b, at, total) ==
  IF b.run THEN b.len
  ELSE Least(b.len, (total - at - 1) \div BytesPerPixel)

\* How many pixels of block b, whose header byte is at offset at, are drawn:
\* after each pixel the ENCODED offset is compared with the DECODED length.
BlockPixels(b, at, total) ==
  IF b.run THEN IF at + 1 < total THEN b.len ELSE 1
  ELSE Least(b.len, Most(1, (total - at - 1 + BytesPerPixel - 1) \div BytesPerPixel))

\* The partial sums of w[1] .. w[n].
Sums(n, w) ==
  LET s[k \in 0 .. n] == IF k = 0 THEN 0 ELSE s[k - 1] + w[k]
  IN  s

\* Where in the encoding block k + 1 begins.
Offsets(rle) ==
  Sums(Len(rle),
       [k \in 1 .. Len(rle) |-> 1 + BytesPerPixel * (IF rle[k].run THEN 1 ELSE rle[k].len)])

\* The pixels that splash_draw_image_for_modeset draws of a picture of total
\* bytes once decoded: block by block, as long as the bound lets it.
Decoded(rle, total) ==
  Sums(Len(rle),
       [k \in 1 .. Len(rle) |->
          IF Offsets(rle)[k - 1] < total THEN BlockPixels(rle[k], Offsets(rle)[k - 1], total)
          ELSE 0])[Len(rle)]

\* An encoding of n pixels that saves space, or costs two bytes at the most.
Encodes(rle, n) ==
  /\ rle \in Seq([run : BOOLEAN, len : Nat \ {0}])
  /\ Sums(Len(rle), [k \in 1 .. Len(rle) |-> rle[k].len])[Len(rle)] = n
  /\ Offsets(rle)[Len(rle)] <= BytesPerPixel * n + 2

\* (iter->width - img_width) / 2, for a picture no larger than the screen.
Centre(size, img) == (size - img) \div 2

\* The screen's cells that the first n pixels of a picture w wide fill, drawn
\* from column x of row y on: dx and dy wrap at w and are not bounded by the
\* height.
Cells(x, y, w, n) == {<<x + (k % w), y + (k \div w)>> : k \in 0 .. n - 1}

Rectangle(x, y, w, h) == (x .. x + w - 1) \X (y .. y + h - 1)
=============================================================================
