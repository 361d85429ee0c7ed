---------------------------- MODULE ScreenCapture ----------------------------
(***************************************************************************)
(* The RFB client behind the screenshot action (src/internal/vnc).  The    *)
(* server is not trusted to keep to the protocol: it chooses each message, *)
(* and may end the connection or fall silent until the deadline anywhere.  *)
(***************************************************************************)
EXTENDS Integers, Sequences

CONSTANTS
  Extent,    \* bound: widths, heights and positions in the messages
  Colours,   \* colours of a pixel
  MaxRects   \* bound: rectangles of an update

ASSUME CaptureAssumption == Extent \in Nat /\ MaxRects \in Nat

VARIABLES
  stage,      \* what the client reads next
  screen,     \* <<width, height>> of ServerInit
  picture,    \* the image: a function on the pixels, Blank where untouched
  rectsLeft,  \* rectangles of the update still to be read
  rects       \* history: the rectangles read

capturevars == <<stage, screen, picture, rectsLeft, rects>>

Blank == "transparent"
Pixels == (0..(screen[1] - 1)) \X (0..(screen[2] - 1))

CaptureInit ==
  /\ stage = "version" /\ screen = <<0, 0>>
  /\ picture = <<>> /\ rectsLeft = 0 /\ rects = <<>>

Proceed(from, to) ==
  /\ stage = from /\ stage' = to
  /\ UNCHANGED <<screen, picture, rectsLeft, rects>>

\* readFull or Write fails: the server closes, or the deadline passes, which
\* is that of the context or thirty seconds; or the server breaks the
\* protocol where the client looks.
CaptureFails ==
  /\ stage \notin {"captured", "failed"}
  /\ Proceed(stage, "failed")

\* The version is read and not looked at.
ReadVersion == Proceed("version", "security")

\* No types: a refusal with a reason; otherwise None must be among them.
ReadSecurityTypes ==
  \E types \in SUBSET {1, 2} :
    Proceed("security", IF 1 \in types THEN "result" ELSE "failed")

ReadSecurityResult ==
  \E ok \in BOOLEAN : Proceed("result", IF ok THEN "init" ELSE "failed")

\* ServerInit, its name, and the three requests that follow it.
ReadServerInit ==
  /\ stage = "init" /\ stage' = "message"
  /\ \E w, h \in 0..Extent :
       /\ screen' = <<w, h>>
       /\ picture' = [p \in (0..(w - 1)) \X (0..(h - 1)) |-> Blank]
  /\ UNCHANGED <<rectsLeft, rects>>

\* SetColourMapEntries, Bell, ServerCutText: read and skipped.
SkipMessage == stage = "message" /\ UNCHANGED capturevars

ReadUpdate ==
  /\ stage = "message"
  /\ \E n \in 0..MaxRects :
       /\ rectsLeft' = n
       /\ stage' = IF n = 0 THEN "captured" ELSE "rectangle"
  /\ UNCHANGED <<screen, picture, rects>>

Covers(r, p) ==
  /\ p[1] \in r.x..(r.x + r.w - 1)
  /\ p[2] \in r.y..(r.y + r.h - 1)

\* A header and w * h pixels, row after row.
Rectangles ==
  UNION {[x : 0..(Extent - 1), y : 0..(Extent - 1), w : {w}, h : {h},
          data : [0..(w * h - 1) -> Colours]] : w, h \in 0..Extent}

\* A faulty variant: the pixels are taken to come column after column.
PlaceByColumn(r) ==
  [p \in Pixels |->
     IF Covers(r, p) THEN r.data[(p[1] - r.x) * r.h + (p[2] - r.y)]
                     ELSE picture[p]]

\* srcIdx = (py*rw + px)*4, for the pixels that lie in the image.
Place(r) ==
  [p \in Pixels |->
     IF Covers(r, p) THEN r.data[(p[2] - r.y) * r.w + (p[1] - r.x)]
                     ELSE picture[p]]

\* The header of a rectangle and its pixels.  (An encoding other than Raw is
\* CaptureFails.)
ReadRectangle ==
  /\ stage = "rectangle"
  /\ \E r \in Rectangles : rects' = Append(rects, r) /\ picture' = Place(r)
  /\ rectsLeft' = rectsLeft - 1
  /\ stage' = IF rectsLeft = 1 THEN "captured" ELSE "rectangle"
  /\ UNCHANGED screen

CaptureNext ==
  \/ CaptureFails \/ ReadVersion \/ ReadSecurityTypes \/ ReadSecurityResult
  \/ ReadServerInit \/ SkipMessage \/ ReadUpdate \/ ReadRectangle

CaptureSpec == CaptureInit /\ [][CaptureNext]_capturevars

---------------------------------------------------------------------------
(* Properties                                                              *)

\* The colour the update has for a pixel: that of the last rectangle with a
\* pixel there, the k-th one being in row k \div w and column k % w.
PixelsAt(r, p) == {k \in 0..(r.w * r.h - 1) :
                     p = <<r.x + (k % r.w), r.y + (k \div r.w)>>}
Shown(p) ==
  LET hits == {i \in 1..Len(rects) : PixelsAt(rects[i], p) # {}} IN
  IF hits = {} THEN Blank
  ELSE LET last == CHOOSE i \in hits : \A j \in hits : j <= i IN
       rects[last].data[CHOOSE k \in PixelsAt(rects[last], p) : TRUE]

\* What CaptureScreenshot returns shows every pixel of the update at its
\* place, later rectangles over earlier ones and nothing outside the screen,
\* and is blank exactly where that one update did not reach: an update of a
\* part of the screen, or of nothing, is taken for the whole picture.
PictureTruthful ==
  stage = "captured" => \A p \in Pixels : picture[p] = Shown(p)
=============================================================================
