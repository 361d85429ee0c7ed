--------------------------- MODULE StepData_proofs ---------------------------
(***************************************************************************)
(* What the steps of a test find and leave, and what a session starts      *)
(* from: the picture ScreenCapture takes, the expressions StepOutputs      *)
(* resolves, the overlay PrebootSteps edits, and the test definitions and  *)
(* connections Configuration accepts, for any number of steps, of          *)
(* rectangles, of files and of includes.                                   *)
(***************************************************************************)
EXTENDS MCParts, WellFoundedInduction, TLAPS

(* A set of positions that is not empty has a last one: the least of the   *)
(* distances from the end.                                                 *)
LEMMA LastExists ==
  ASSUME NEW n \in Nat, NEW S, S \subseteq 1..n, S # {}
  PROVE  \E i \in S : \A j \in S : j <= i
<1> DEFINE T == {n - i : i \in S}
<1>1. T \subseteq Nat /\ T # {}
  <2>1. \A i \in S : n - i \in Nat
    OBVIOUS
  <2>2. PICK i \in S : TRUE
    OBVIOUS
  <2>3. n - i \in T
    OBVIOUS
  <2> QED
    BY <2>1, <2>3
<1>2. \E x \in T : \A y \in T : <<y, x>> \notin OpToRel(<, Nat)
  BY <1>1, NatLessThanWellFounded, WFMin, Zenon
<1>3. PICK x \in T : \A y \in T : ~(y < x)
  BY <1>1, <1>2, Zenon DEF OpToRel
<1>4. PICK i \in S : x = n - i
  BY <1>3
<1>5. ASSUME NEW j \in S PROVE j <= i
  <2>1. n - j \in T
    OBVIOUS
  <2>2. ~(n - j < n - i)
    BY <1>3, <1>4, <2>1
  <2> QED
    BY <2>2
<1> QED
  BY <1>5

---------------------------------------------------------------------------
(* The picture of the screen                                               *)

(* Quotient and remainder of a position that is given by row and column.   *)
LEMMA RowAndColumn ==
  ASSUME NEW w \in Nat \ {0}, NEW a \in 0..(w - 1), NEW b \in Nat,
         NEW k \in Nat
  PROVE  k = b * w + a <=> (k % w = a /\ k \div w = b)
<1>1. k = (k \div w) * w + (k % w) /\ k % w \in 0..(w - 1) /\ k \div w \in Nat
  OBVIOUS
<1> DEFINE q == k \div w
           m == k % w
<1>2. q \in Nat /\ m \in 0..(w - 1) /\ k = q * w + m
  BY <1>1
<1> HIDE DEF q, m
<1>3. ASSUME k = b * w + a PROVE q = b /\ m = a
  <2>1. q * w + m = b * w + a
    BY <1>2, <1>3
  <2>2. CASE q < b
    <3>1. PICK d \in Nat : b = q + 1 + d
      BY <1>2, <2>2
    <3>2. b * w = q * w + w + d * w /\ d * w \in Nat
      BY <1>2, <3>1
    <3> QED
      BY <1>2, <2>1, <3>2
  <2>3. CASE b < q
    <3>1. PICK d \in Nat : q = b + 1 + d
      BY <1>2, <2>3
    <3>2. q * w = b * w + w + d * w /\ d * w \in Nat
      BY <1>2, <3>1
    <3> QED
      BY <1>2, <2>1, <3>2
  <2> QED
    BY <1>2, <2>1, <2>2, <2>3
<1> QED
  BY <1>2, <1>3 DEF q, m

(* The pixel in a column below w and a row below h lies below w * h.        *)
LEMMA PositionOf ==
  ASSUME NEW w \in Nat, NEW h \in Nat,
         NEW a \in 0..(w - 1), NEW b \in 0..(h - 1)
  PROVE  b * w + a \in 0..(w * h - 1)
<1>1. PICK d \in Nat : h = b + 1 + d
  OBVIOUS
<1>2. w * h = b * w + w + d * w /\ d * w \in Nat /\ b * w \in Nat
  BY <1>1
<1> QED
  BY <1>2

(* A position below w * h is that of a column below w and a row below h.    *)
LEMMA AtPosition ==
  ASSUME NEW w \in Nat, NEW h \in Nat, NEW a \in Int, NEW b \in Int,
         NEW k \in 0..(w * h - 1)
  PROVE  a = k % w /\ b = k \div w
         <=> a \in 0..(w - 1) /\ b \in 0..(h - 1) /\ k = b * w + a
<1>1. ASSUME a = k % w, b = k \div w
      PROVE  a \in 0..(w - 1) /\ b \in 0..(h - 1) /\ k = b * w + a
  <2>1. w \in Nat \ {0} /\ k \in Nat
    BY <1>1
  <2>2. k = b * w + a /\ a \in 0..(w - 1) /\ b \in Nat
    BY <1>1, <2>1
  <2>3. ASSUME ~(b < h) PROVE FALSE
    <3>1. PICK d \in Nat : b = h + d
      BY <2>2, <2>3
    <3>2. b * w = w * h + d * w /\ d * w \in Nat
      BY <2>1, <3>1
    <3> QED
      BY <1>1, <2>2, <3>2
  <2> QED
    BY <2>2, <2>3
<1>2. ASSUME a \in 0..(w - 1), b \in 0..(h - 1),
             k = b * w + a
      PROVE  a = k % w /\ b = k \div w
  BY <1>2, RowAndColumn
<1> QED
  BY <1>1, <1>2

(* What rectangles the messages of a server may hold.                      *)
LEMMA RectangleType ==
  ASSUME NEW r \in Rectangles
  PROVE  r.x \in Nat /\ r.y \in Nat /\ r.w \in Nat /\ r.h \in Nat
<1> DEFINE R(w, h) == [x : 0..(Extent - 1), y : 0..(Extent - 1),
                       w : {w}, h : {h}, data : [0..(w * h - 1) -> Colours]]
<1>1. PICK w \in 0..Extent, h \in 0..Extent : r \in R(w, h)
  <2> HIDE DEF R
  <2>1. Rectangles = UNION {R(w, h) : w, h \in 0..Extent}
    BY DEF Rectangles, R
  <2> QED
    BY <2>1
<1> QED
  BY <1>1, CaptureAssumption

(* The index that CaptureScreenshot computes for a pixel of a rectangle is  *)
(* the one at which the server has sent it, and there is none for others.  *)
LEMMA IndexOfPixel ==
  ASSUME NEW r \in Rectangles, NEW p \in Nat \X Nat
  PROVE  PixelsAt(r, p) =
           IF Covers(r, p) THEN {(p[2] - r.y) * r.w + (p[1] - r.x)} ELSE {}
<1>1. /\ r.x \in Nat /\ r.y \in Nat /\ r.w \in Nat /\ r.h \in Nat
      /\ p[1] \in Nat /\ p[2] \in Nat /\ p = <<p[1], p[2]>>
  BY RectangleType
<1>2. PICK w \in Nat, h \in Nat, a \in Int, b \in Int :
        w = r.w /\ h = r.h /\ a = p[1] - r.x /\ b = p[2] - r.y
  BY <1>1
<1>3. Covers(r, p) <=> a \in 0..(w - 1) /\ b \in 0..(h - 1)
  BY <1>1, <1>2 DEF Covers
<1>4. ASSUME NEW k \in 0..(w * h - 1)
      PROVE  p = <<r.x + (k % w), r.y + (k \div w)>>
             <=> a = k % w /\ b = k \div w
  <2>1. k % w \in Int /\ k \div w \in Int
    BY <1>1
  <2> QED
    BY <1>1, <1>2, <2>1
<1>5. ASSUME NEW k \in 0..(w * h - 1)
      PROVE  p = <<r.x + (k % w), r.y + (k \div w)>>
               <=> Covers(r, p) /\ k = b * w + a
  <2>1. a = k % w /\ b = k \div w
        <=> a \in 0..(w - 1) /\ b \in 0..(h - 1) /\ k = b * w + a
    BY AtPosition
  <2> QED
    BY <1>3, <1>4, <2>1, Zenon
<1>6. Covers(r, p) => b * w + a \in 0..(w * h - 1)
  BY <1>3, PositionOf
<1>7. PixelsAt(r, p) =
        {k \in 0..(w * h - 1) : p = <<r.x + (k % w), r.y + (k \div w)>>}
  BY <1>2, Zenon DEF PixelsAt
<1>8. PixelsAt(r, p) = IF Covers(r, p) THEN {b * w + a} ELSE {}
  BY <1>5, <1>6, <1>7
<1> QED
  BY <1>2, <1>8, Zenon

(* The rectangles with a pixel p among the first n.                        *)
Hits(s, p) == {i \in 1..Len(s) : PixelsAt(s[i], p) # {}}

(* A rectangle that comes in shows its own pixels and leaves the others.   *)
LEMMA ShownAfter ==
  ASSUME rects \in Seq(Rectangles), NEW r \in Rectangles,
         rects' = Append(rects, r), NEW p \in Nat \X Nat
  PROVE  Shown(p)' = IF Covers(r, p)
                     THEN r.data[(p[2] - r.y) * r.w + (p[1] - r.x)]
                     ELSE Shown(p)
<1> DEFINE n == Len(rects)
           at(i) == CHOOSE k \in PixelsAt(rects[i], p) : TRUE
           Final(S) == CHOOSE i \in S : \A j \in S : j <= i
           Of(s) == IF Hits(s, p) = {} THEN Blank
                    ELSE s[Final(Hits(s, p))].data[
                      CHOOSE k \in PixelsAt(s[Final(Hits(s, p))], p) : TRUE]
<1>1. Shown(p) = Of(rects) /\ Shown(p)' = Of(rects')
  BY DEF Shown, Hits
<1>2. /\ n \in Nat /\ Len(rects') = n + 1 /\ rects'[n + 1] = r
      /\ \A i \in 1..n : rects'[i] = rects[i]
  OBVIOUS
<1>3. Hits(rects', p) = Hits(rects, p)
                        \cup (IF PixelsAt(r, p) # {} THEN {n + 1} ELSE {})
  BY <1>2 DEF Hits
<1>4. Hits(rects, p) \subseteq 1..n
  BY DEF Hits
<1>5. CASE Covers(r, p)
  <2> DEFINE x == (p[2] - r.y) * r.w + (p[1] - r.x)
  <2>1. PixelsAt(r, p) = {x}
    BY <1>5, IndexOfPixel
  <2> HIDE DEF x
  <2>2. Hits(rects', p) = Hits(rects, p) \cup {n + 1}
    BY <1>3, <2>1
  <2>3. Final(Hits(rects', p)) = n + 1
    BY <1>2, <1>4, <2>2
  <2>4. Of(rects') = r.data[CHOOSE k \in {x} : TRUE]
    BY <1>2, <2>1, <2>2, <2>3
  <2>5. (CHOOSE k \in {x} : TRUE) = x
    OBVIOUS
  <2> QED
    BY <1>1, <1>5, <2>4, <2>5 DEF x
<1>6. CASE ~Covers(r, p)
  <2>1. Hits(rects', p) = Hits(rects, p)
    BY <1>3, <1>6, IndexOfPixel
  <2>2. Hits(rects, p) # {} => Final(Hits(rects, p)) \in 1..n
    <3> SUFFICES ASSUME Hits(rects, p) # {}
                 PROVE  Final(Hits(rects, p)) \in Hits(rects, p)
      BY <1>4
    <3>1. \E i \in Hits(rects, p) : \A j \in Hits(rects, p) : j <= i
      BY <1>2, <1>4, LastExists
    <3> QED
      BY <3>1
  <2>3. Of(rects') = Of(rects)
    BY <1>2, <2>1, <2>2
  <2> QED
    BY <1>1, <1>6, <2>3
<1> QED
  BY <1>5, <1>6

(* From the first message on, the picture shows what has come in so far;   *)
(* before, nothing has.                                                    *)
CaptureInv ==
  /\ rects \in Seq(Rectangles)
  /\ screen \in Nat \X Nat
  /\ stage \in {"version", "security", "result", "init"} => rects = <<>>
  /\ stage \in {"message", "rectangle", "captured"} =>
       \A p \in Pixels : picture[p] = Shown(p)

(* Before the first read nothing has been drawn.                           *)
LEMMA CaptureStarts == CaptureInit => CaptureInv
  BY DEF CaptureInit, CaptureInv

(* Pixels are pairs of numbers.                                            *)
LEMMA PixelType ==
  ASSUME screen \in Nat \X Nat
  PROVE  Pixels \subseteq Nat \X Nat
  BY DEF Pixels

(* Each read of the client keeps the picture true to the rectangles.       *)
LEMMA CaptureStep == CaptureInv /\ [CaptureNext]_capturevars => CaptureInv'
<1> SUFFICES ASSUME CaptureInv, [CaptureNext]_capturevars PROVE CaptureInv'
  OBVIOUS
<1> USE DEF CaptureInv
<1>1. ASSUME UNCHANGED <<screen, picture, rects>>,
             stage' \in {"message", "rectangle", "captured"}
               => stage \in {"message", "rectangle", "captured"},
             stage' \in {"version", "security", "result", "init"}
               => stage \in {"version", "security", "result", "init"}
      PROVE  CaptureInv'
  <2>1. Pixels' = Pixels /\ \A p : Shown(p)' = Shown(p)
    BY <1>1 DEF Pixels, Shown
  <2> QED
    BY <1>1, <2>1
<1>2. CASE UNCHANGED capturevars \/ SkipMessage
  BY <1>1, <1>2 DEF capturevars, SkipMessage
<1>3. CASE \/ CaptureFails \/ ReadVersion \/ ReadSecurityTypes
           \/ ReadSecurityResult \/ ReadUpdate
  BY <1>1, <1>3 DEF CaptureFails, ReadVersion, ReadSecurityTypes,
    ReadSecurityResult, ReadUpdate, Proceed
<1>4. CASE ReadServerInit
  <2>1. PICK w \in 0..Extent, h \in 0..Extent :
          /\ screen' = <<w, h>>
          /\ picture' = [p \in (0..(w - 1)) \X (0..(h - 1)) |-> Blank]
    BY <1>4 DEF ReadServerInit
  <2>2. rects = <<>> /\ rects' = rects /\ stage' = "message"
    BY <1>4 DEF ReadServerInit
  <2>3. \A p : Shown(p)' = Blank
    BY <2>2 DEF Shown
  <2>4. \A p \in Pixels' : picture'[p] = Blank
    BY <2>1 DEF Pixels
  <2> QED
    BY <2>1, <2>2, <2>3, <2>4, CaptureAssumption
<1>5. CASE ReadRectangle
  <2>1. PICK r \in Rectangles : rects' = Append(rects, r) /\ picture' = Place(r)
    BY <1>5 DEF ReadRectangle
  <2>2. /\ screen' = screen /\ stage = "rectangle"
        /\ stage' \in {"captured", "rectangle"}
    BY <1>5 DEF ReadRectangle
  <2>3. ASSUME NEW p \in Pixels PROVE picture'[p] = Shown(p)'
    <3>1. p \in Nat \X Nat
      BY PixelType
    <3>2. picture'[p] = IF Covers(r, p)
                        THEN r.data[(p[2] - r.y) * r.w + (p[1] - r.x)]
                        ELSE picture[p]
      BY <2>1 DEF Place
    <3>3. picture[p] = Shown(p)
      BY <2>2
    <3> QED
      BY <2>1, <3>1, <3>2, <3>3, ShownAfter
  <2>4. Pixels' = Pixels
    BY <2>2 DEF Pixels
  <2> QED
    BY <2>1, <2>2, <2>3, <2>4
<1> QED
  BY <1>2, <1>3, <1>4, <1>5 DEF CaptureNext

(* For every size of the screen, and any rectangles of any server: what     *)
(* CaptureScreenshot returns is what the server has shown.                 *)
THEOREM PictureCorrect == CaptureSpec => []PictureTruthful
<1>1. CaptureInv => PictureTruthful
  BY DEF CaptureInv, PictureTruthful
<1> QED
  BY <1>1, CaptureStarts, CaptureStep, PTL DEF CaptureSpec

---------------------------------------------------------------------------
(* The outputs of steps                                                    *)

Outputs == {<<>>} \cup {<<<<"stdout", n>>>> : n \in Nat}
Runs == [id : Nat, stdout : Outputs]

(* The map holds what the last step of each id has put out, and nothing    *)
(* under an id that no step has had; the configuration of the machine is   *)
(* first read, if not by an argument that ends the session, by a step.     *)
StepsInv ==
  /\ ran \in Seq(Runs) /\ number \in Nat
  /\ \A id \in Nat :
       /\ id \in DOMAIN stepOutputs <=> \E i \in DOMAIN ran : ran[i].id = id
       /\ id \in DOMAIN stepOutputs => stepOutputs[id] = Latest(id)
  /\ list = "arguments" => vmconfig = "unread"
  /\ list # "refused" => vmconfig # "missing"

(* Before the first step there is no output to read.                       *)
LEMMA StepOutputsStart == StepOutputsInit => StepsInv
  BY DEF StepOutputsInit, StepsInv

(* A step that has run is the last of its id, and of no other.             *)
LEMMA LatestAfter ==
  ASSUME ran \in Seq(Runs), NEW e \in Nat, NEW out \in Outputs,
         ran' = Append(ran, [id |-> e, stdout |-> out]), NEW id \in Nat
  PROVE  /\ Latest(id)' = IF id = e THEN out ELSE Latest(id)
         /\ (\E i \in DOMAIN ran' : ran'[i].id = id)
            <=> id = e \/ \E i \in DOMAIN ran : ran[i].id = id
<1> DEFINE n == Len(ran)
           hits(s) == {i \in DOMAIN s : s[i].id = id}
           Final(S) == CHOOSE i \in S : \A j \in S : j <= i
           Of(s) == IF hits(s) = {} THEN <<>> ELSE s[Final(hits(s))].stdout
<1>1. Latest(id) = Of(ran) /\ Latest(id)' = Of(ran')
  BY DEF Latest
<1>2. [id |-> e, stdout |-> out] \in Runs
  BY DEF Runs
<1>3. /\ n \in Nat /\ DOMAIN ran = 1..n /\ DOMAIN ran' = 1..(n + 1)
      /\ ran'[n + 1] = [id |-> e, stdout |-> out]
      /\ \A i \in 1..n : ran'[i] = ran[i]
  BY <1>2
<1>4. hits(ran') = hits(ran) \cup (IF id = e THEN {n + 1} ELSE {})
  BY <1>3
<1>5. hits(ran) \subseteq 1..n
  BY <1>3
<1>6. CASE id = e
  <2>1. Final(hits(ran')) = n + 1
    BY <1>3, <1>4, <1>5, <1>6
  <2> QED
    BY <1>1, <1>3, <1>4, <1>6, <2>1
<1>7. CASE id # e
  <2>1. hits(ran) # {} => Final(hits(ran)) \in 1..n
    <3> SUFFICES ASSUME hits(ran) # {} PROVE Final(hits(ran)) \in hits(ran)
      BY <1>5
    <3>1. \E i \in hits(ran) : \A j \in hits(ran) : j <= i
      BY <1>3, <1>5, LastExists
    <3> QED
      BY <3>1
  <2> QED
    BY <1>1, <1>3, <1>4, <1>7, <2>1
<1> QED
  BY <1>6, <1>7

(* An argument of QEMU that reads the configuration does not resolve.      *)
LEMMA ArgumentRefused ==
  ASSUME NEW string \in Strings, list = "arguments", vmconfig = "unread",
         Reads(string, "vmconfig")
  PROVE  ResolveStrings(<<string>>, Context(string)) = <<Error>>
<1>1. PICK i \in DOMAIN string : string[i].of = "vmconfig"
  BY DEF Reads
<1>2. Context(string).vmconfig = FALSE
  BY DEF Context, VMConfig
<1>3. Evaluate(string[i], Context(string)) = Error
  BY <1>1, <1>2 DEF Evaluate
<1>4. Len(string) = 1 => i = 1
  BY StepOutputsAssumption
<1>5. ResolveString(string, Context(string)) = Error
  BY <1>3, <1>4 DEF ResolveString
<1>6. Error.type # "string"
  BY DEF Error
<1> QED
  BY <1>5, <1>6 DEF ResolveStrings

(* Recording a step keeps the outputs those of the latest ones.            *)
LEMMA StepOutputsStep ==
  StepsInv /\ [StepOutputsNext]_outputvarsofsteps => StepsInv'
<1> SUFFICES ASSUME StepsInv, [StepOutputsNext]_outputvarsofsteps
             PROVE  StepsInv'
  OBVIOUS
<1> USE DEF StepsInv
<1>1. ASSUME UNCHANGED <<stepOutputs, ran>>
      PROVE  \A id \in Nat : Latest(id)' = Latest(id)
  BY <1>1 DEF Latest
<1>2. ASSUME NEW string, list # "arguments", Resolve(string)
      PROVE  list # "refused" => vmconfig' # "missing"
  BY <1>2 DEF Resolve, VMConfig
<1>3. CASE UNCHANGED outputvarsofsteps
  BY <1>1, <1>3 DEF outputvarsofsteps
<1>4. ASSUME NEW string \in Strings, ResolveArguments(string)
      PROVE  StepsInv'
  <2>1. CASE Reads(string, "vmconfig")
    <3>1. list = "arguments" /\ list' = "refused"
      BY <1>4, <2>1, ArgumentRefused DEF ResolveArguments
    <3>2. UNCHANGED <<number, stepOutputs, ran>>
      BY <1>4 DEF ResolveArguments
    <3>3. \A id \in Nat : Latest(id)' = Latest(id)
      BY <1>1, <3>2
    <3> QED
      BY <3>1, <3>2, <3>3
  <2>2. CASE ~Reads(string, "vmconfig")
    BY <1>1, <1>4, <2>2 DEF ResolveArguments, Resolve, VMConfig
  <2> QED
    BY <2>1, <2>2
<1>5. ASSUME NEW string \in Strings, StepNotRun(string) PROVE StepsInv'
  BY <1>1, <1>2, <1>5 DEF StepNotRun
<1>6. ASSUME NEW id \in StepIds, NEW string \in Strings,
             NEW passed \in BOOLEAN,
             NEW stdout \in {<<>>, <<<<"stdout", Len(ran)>>>>},
             StepRuns(id, string, stdout, passed)
      PROVE  StepsInv'
  <2> DEFINE e == EffectiveId(id)
  <2>1. e \in Nat /\ stdout \in Outputs
    BY StepOutputsAssumption DEF EffectiveId, Outputs
  <2> HIDE DEF e
  <2>2. /\ ran' = Append(ran, [id |-> e, stdout |-> stdout])
        /\ stepOutputs' = [i \in DOMAIN stepOutputs \cup {e} |->
                             IF i = e THEN stdout ELSE stepOutputs[i]]
        /\ list # "arguments" /\ list' # "arguments" /\ list' # "refused"
        /\ list # "refused" /\ number' = number + 1 /\ Resolve(string)
    BY <1>6 DEF StepRuns, Store, e
  <2>3. ran' \in Seq(Runs)
    BY <2>1, <2>2 DEF Runs
  <2>4. ASSUME NEW k \in Nat
        PROVE  /\ k \in DOMAIN stepOutputs'
                  <=> \E i \in DOMAIN ran' : ran'[i].id = k
               /\ k \in DOMAIN stepOutputs' => stepOutputs'[k] = Latest(k)'
    <3>1. /\ Latest(k)' = IF k = e THEN stdout ELSE Latest(k)
          /\ (\E i \in DOMAIN ran' : ran'[i].id = k)
             <=> k = e \/ \E i \in DOMAIN ran : ran[i].id = k
      BY <1>1, <2>1, <2>2, LatestAfter
    <3>2. k \in DOMAIN stepOutputs' <=> k = e \/ k \in DOMAIN stepOutputs
      BY <2>2
    <3>3. k \in DOMAIN stepOutputs' =>
            stepOutputs'[k] = IF k = e THEN stdout ELSE stepOutputs[k]
      BY <2>2
    <3> QED
      BY <1>1, <3>1, <3>2, <3>3
  <2>5. vmconfig' # "missing"
    BY <1>2, <2>2
  <2>6. number' \in Nat /\ list' # "arguments"
    BY <2>2
  <2> QED
    BY <2>3, <2>4, <2>5, <2>6
<1>7. CASE PanicStepsStart
  BY <1>1, <1>7 DEF PanicStepsStart
<1> QED
  BY <1>3, <1>4, <1>5, <1>6, <1>7 DEF StepOutputsNext

(* Whatever ids the steps are given, also those of the panic steps and      *)
(* those that repeat: an expression sees the last output under the id, and *)
(* no step finds the configuration of the machine missing.                 *)
THEOREM ExpressionsCorrect == StepOutputsSpec => []ExpressionsOfSteps
<1>1. ASSUME StepsInv, NEW id \in Nat
      PROVE  LET string == <<[of |-> "steps", key |-> id]>> IN
             ResolveString(string, Context(string)) = String(Latest(id))
  <2> DEFINE string == <<[of |-> "steps", key |-> id]>>
             ctx == Context(string)
  <2>1. ctx.steps = TRUE /\ ctx.outputs = stepOutputs
    BY DEF Context
  <2> HIDE DEF ctx
  <2>2. ResolveString(string, ctx)
        = Evaluate([of |-> "steps", key |-> id], ctx)
    BY DEF ResolveString
  <2>3. Evaluate([of |-> "steps", key |-> id], ctx)
        = IF id \in DOMAIN stepOutputs THEN String(stepOutputs[id])
                                       ELSE String(<<>>)
    BY <2>1 DEF Evaluate
  <2>4. id \notin DOMAIN stepOutputs => Latest(id) = <<>>
    BY <1>1 DEF StepsInv, Latest
  <2> QED
    BY <1>1, <2>2, <2>3, <2>4 DEF StepsInv, ctx
<1>2. StepsInv => ExpressionsOfSteps
  <2>1. \A id \in 1..(2 * MaxSteps) : id \in Nat
    BY StepOutputsAssumption
  <2> QED
    BY <1>1, <2>1 DEF ExpressionsOfSteps, OutputsOfLatest, VMConfigForSteps,
      StepsInv
<1> QED
  BY <1>2, StepOutputsStart, StepOutputsStep, PTL DEF StepOutputsSpec

---------------------------------------------------------------------------
(* The edits of the overlay                                                *)

(* The steps before i that have added f; and x is the last of them, 0, the  *)
(* image, if there is none.                                                *)
AddsBefore(i, f) ==
  {j \in 1..(i - 1) : edits[j].action = "efi-add-file" /\ edits[j].file = f}
LastAdd(x, i, f) ==
  IF AddsBefore(i, f) = {} THEN x = 0
  ELSE x \in AddsBefore(i, f) /\ \A k \in AddsBefore(i, f) : k <= x

(* The step under way is overwriting f, or has just fetched it.            *)
Writing(f) ==
  step.at \in {"write", "written"} /\ step.action = "efi-add-file"
  /\ step.file = f
Getting(f) ==
  step.at = "written" /\ step.action = "efi-get-file" /\ step.file = f

EditActions == {"efi-add-file", "efi-get-file"}
Edits == [at : {"passed"}, action : EditActions, file : EFIFiles,
          expired : {FALSE}]

PrebootType ==
  /\ DOMAIN partitions \subseteq {1, 2}
  /\ total \in 0..MaxPreboot
  /\ statuses \in Seq({"passed", "failed"}) /\ Len(statuses) <= total
  /\ step \in [at : {"none", "open", "write", "written"},
               action : EditActions \cup {"none"},
               file : EFIFiles \cup {"none"}, expired : BOOLEAN]
  /\ esp \in [{0, 1, 2} -> [EFIFiles -> Int]]
  /\ fetched \in [EFIFiles -> Int]
  /\ edits \in Seq(Edits)

(* Where the command and the step under way are.                           *)
StageInv ==
  /\ session = "new" =>
       /\ edits = <<>> /\ statuses = <<>> /\ step.at = "none"
       /\ \A p \in {0, 1, 2}, f \in EFIFiles : esp[p][f] = Absent
  /\ step.at # "none" =>
       /\ session = "preboot" /\ GoesOn /\ Len(statuses) < total
       /\ step.action \in EditActions /\ step.file \in EFIFiles
  /\ step.at = "write" => step.action = "efi-add-file"
  /\ session = "boots" =>
       GoesOn /\ step.at = "none" /\ Len(statuses) = total

(* As long as no step has failed, each file that is not being overwritten  *)
(* is as the last step to add it has left it, and so is what was fetched.  *)
EditsInv ==
  GoesOn =>
    /\ Len(edits) = Len(statuses)
    /\ \A f \in EFIFiles :
         /\ ~Writing(f) =>
              \/ LastAdd(esp[Target][f], Len(edits) + 1, f)
              \/ AddsBefore(Len(edits) + 1, f) = {} /\ esp[Target][f] = Absent
         /\ Writing(f) /\ step.at = "written" =>
              esp[Target][f] = Len(edits) + 1
         /\ Getting(f) => LastAdd(fetched[f], Len(edits) + 1, f)
    /\ \A i \in DOMAIN edits : edits[i].action = "efi-get-file" =>
         \/ LastAdd(fetched[edits[i].file], i, edits[i].file)
         \/ Getting(edits[i].file)
         \/ \E j \in (i + 1)..Len(edits) :
              edits[j].action = "efi-get-file"
              /\ edits[j].file = edits[i].file

PrebootInv == PrebootType /\ StageInv /\ EditsInv

(* The partition found is one of the disk, of the EFI type if one that can *)
(* be read is.                                                             *)
LEMMA TargetFacts ==
  ASSUME NEW disk, DOMAIN disk \subseteq {1, 2}
  PROVE  /\ FindEFIFAT32(disk) \in {0, 1, 2}
         /\ \A p \in DOMAIN disk : disk[p].efi /\ disk[p].fat =>
              LET t == FindEFIFAT32(disk) IN disk[t].efi /\ disk[t].fat
<1> DEFINE fat == {i \in DOMAIN disk : disk[i].fat}
           efi == {i \in fat : disk[i].efi}
           Least(S) == CHOOSE i \in S : \A j \in S : i <= j
<1>1. ASSUME NEW S, S \subseteq {1, 2}, S # {}
      PROVE  Least(S) \in S
  <2>1. \E i \in S : \A j \in S : i <= j
    <3>1. CASE 1 \in S
      <4>1. \A j \in S : 1 <= j
        BY <1>1
      <4> QED
        BY <3>1, <4>1
    <3>2. CASE 1 \notin S
      <4>1. S = {2}
        BY <1>1, <3>2
      <4> QED
        BY <4>1
    <3> QED
      BY <3>1, <3>2
  <2> QED
    BY <2>1
<1>2. FindEFIFAT32(disk) = IF efi # {} THEN Least(efi)
                           ELSE IF fat # {} THEN Least(fat) ELSE 0
  BY DEF FindEFIFAT32
<1>3. fat \subseteq {1, 2} /\ efi \subseteq fat
  OBVIOUS
<1>4. (efi # {} => Least(efi) \in efi) /\ (fat # {} => Least(fat) \in fat)
  BY <1>1, <1>3
<1> QED
  BY <1>2, <1>3, <1>4

(* Who adds a file, adds to those that have added it.                      *)
LEMMA AddsAfter ==
  ASSUME edits \in Seq(Edits), NEW e \in Edits, edits' = Append(edits, e),
         NEW f, NEW n \in Nat, n = Len(edits)
  PROVE  /\ AddsBefore(n + 2, f)'
              = AddsBefore(n + 1, f)
                \cup (IF e.action = "efi-add-file" /\ e.file = f
                      THEN {n + 1} ELSE {})
         /\ AddsBefore(n + 1, f) \subseteq 1..n
         /\ \A i \in 1..(n + 1) : AddsBefore(i, f)' = AddsBefore(i, f)
<1>1. edits'[n + 1] = e /\ \A j \in 1..n : edits'[j] = edits[j]
  OBVIOUS
<1>2. \A i \in 1..(n + 1) : AddsBefore(i, f)' = AddsBefore(i, f)
  BY <1>1 DEF AddsBefore
<1> QED
  BY <1>1, <1>2 DEF AddsBefore

(* Before the overlay is made there is nothing to be edited.               *)
LEMMA PrebootStarts == PrebootInit => PrebootInv
<1> SUFFICES ASSUME PrebootInit PROVE PrebootInv
  OBVIOUS
<1> USE PrebootAssumption DEF PrebootInit
<1>1. PrebootType
  BY DEF PrebootType, Absent
<1>2. StageInv
  BY DEF StageInv
<1>3. Target \in {0, 1, 2}
  BY TargetFacts DEF Target
<1>4. EditsInv
  BY <1>3 DEF EditsInv, AddsBefore, Writing, Getting
<1> QED
  BY <1>1, <1>2, <1>4 DEF PrebootInv

(* A step that fails ends the editing, whatever it leaves.                 *)
LEMMA FailedStep ==
  ASSUME PrebootInv, Failed, session = "preboot", Len(statuses) < total,
         UNCHANGED <<partitions, total, fetched, edits, session>>,
         esp' \in [{0, 1, 2} -> [EFIFiles -> Int]]
  PROVE  PrebootInv'
<1> USE DEF PrebootInv, PrebootType, Failed, Rest
<1>1. PrebootType'
  <2>1. statuses' \in Seq({"passed", "failed"}) /\ Len(statuses') <= total
    OBVIOUS
  <2>2. step' \in [at : {"none", "open", "write", "written"},
                  action : EditActions \cup {"none"},
                  file : EFIFiles \cup {"none"}, expired : BOOLEAN]
    OBVIOUS
  <2> QED
    BY <2>1, <2>2
<1>2. ~GoesOn'
  <2>1. /\ Len(statuses) + 1 \in DOMAIN statuses'
        /\ statuses'[Len(statuses) + 1] = "failed"
    OBVIOUS
  <2> QED
    BY <2>1 DEF GoesOn
<1>3. step'.at = "none"
  OBVIOUS
<1> QED
  BY <1>1, <1>2, <1>3 DEF StageInv, EditsInv

(* A step that has its work done and its time not over is recorded.        *)
LEMMA PassedStep ==
  ASSUME PrebootInv, StepEnds, ~step.expired
  PROVE  PrebootInv'
<1> DEFINE e == [step EXCEPT !.at = "passed"]
<1> PICK n \in Nat : n = Len(edits)
  BY DEF PrebootInv, PrebootType
<1>1. /\ step.at = "written" /\ statuses' = Append(statuses, "passed")
      /\ step' = [step EXCEPT !.at = "none"] /\ edits' = Append(edits, e)
      /\ UNCHANGED <<partitions, total, esp, fetched, session>>
  BY DEF StepEnds, Passed, Rest
<1>2. /\ session = "preboot" /\ GoesOn /\ Len(statuses) < total
      /\ Len(statuses) = n
      /\ step.action \in EditActions /\ step.file \in EFIFiles
  BY <1>1 DEF PrebootInv, StageInv, EditsInv
<1>3. e \in Edits /\ e.action = step.action /\ e.file = step.file
  BY <1>1, <1>2 DEF PrebootInv, PrebootType, Edits
<1> HIDE DEF e
<1>4. PrebootType'
  <2>1. statuses' \in Seq({"passed", "failed"}) /\ Len(statuses') <= total
    BY <1>1, <1>2 DEF PrebootInv, PrebootType
  <2>2. step' \in [at : {"none", "open", "write", "written"},
                  action : EditActions \cup {"none"},
                  file : EFIFiles \cup {"none"}, expired : BOOLEAN]
    BY <1>1 DEF PrebootInv, PrebootType
  <2>3. edits' \in Seq(Edits)
    BY <1>1, <1>3 DEF PrebootInv, PrebootType
  <2> QED
    BY <1>1, <2>1, <2>2, <2>3 DEF PrebootInv, PrebootType
<1>5. GoesOn' /\ step'.at = "none" /\ Len(statuses') = n + 1
      /\ Len(edits') = n + 1
  BY <1>1, <1>2, <1>3 DEF PrebootInv, PrebootType, GoesOn
<1>6. StageInv'
  BY <1>1, <1>2, <1>5 DEF StageInv
<1>7. \A f : ~Writing(f)' /\ ~Getting(f)'
  BY <1>5 DEF Writing, Getting
<1>8. /\ edits'[n + 1] = e /\ DOMAIN edits' = 1..(n + 1)
      /\ DOMAIN edits = 1..n /\ \A i \in 1..n : edits'[i] = edits[i]
  BY <1>1, <1>3 DEF PrebootInv, PrebootType
<1>9. ASSUME NEW f \in EFIFiles
      PROVE  /\ AddsBefore(Len(edits) + 1, f)'
                  = AddsBefore(n + 1, f)
                    \cup (IF e.action = "efi-add-file" /\ e.file = f
                          THEN {n + 1} ELSE {})
             /\ AddsBefore(n + 1, f) \subseteq 1..n
             /\ \A i \in 1..(n + 1) : AddsBefore(i, f)' = AddsBefore(i, f)
  <2>1. (Len(edits) + 1)' = n + 2
    BY <1>5
  <2>2. AddsBefore(Len(edits) + 1, f)' = AddsBefore(n + 2, f)'
    BY <2>1 DEF AddsBefore
  <2>3. edits \in Seq(Edits)
    BY DEF PrebootInv, PrebootType
  <2>4. /\ AddsBefore(n + 2, f)'
             = AddsBefore(n + 1, f)
               \cup (IF e.action = "efi-add-file" /\ e.file = f
                     THEN {n + 1} ELSE {})
        /\ AddsBefore(n + 1, f) \subseteq 1..n
        /\ \A i \in 1..(n + 1) : AddsBefore(i, f)' = AddsBefore(i, f)
    BY <1>1, <1>3, <2>3, AddsAfter
  <2> QED
    BY <2>2, <2>4
<1>10. ASSUME NEW f \in EFIFiles
       PROVE  \/ LastAdd(esp[Target][f], Len(edits) + 1, f)'
              \/ AddsBefore(Len(edits) + 1, f)' = {}
                 /\ esp'[Target'][f] = Absent
  <2>1. esp'[Target'][f] = esp[Target][f]
    BY <1>1 DEF Target
  <2>2. CASE Writing(f)
    <3>1. esp[Target][f] = n + 1
      BY <1>1, <1>2, <2>2 DEF PrebootInv, EditsInv
    <3>2. AddsBefore(Len(edits) + 1, f)' = AddsBefore(n + 1, f) \cup {n + 1}
      BY <1>3, <1>9, <2>2 DEF Writing
    <3> QED
      BY <1>9, <2>1, <3>1, <3>2 DEF LastAdd
  <2>3. CASE ~Writing(f)
    <3>1. AddsBefore(Len(edits) + 1, f)' = AddsBefore(n + 1, f)
      BY <1>1, <1>3, <1>9, <2>3 DEF Writing
    <3>2. \/ LastAdd(esp[Target][f], n + 1, f)
          \/ AddsBefore(n + 1, f) = {} /\ esp[Target][f] = Absent
      BY <1>2, <2>3 DEF PrebootInv, EditsInv
    <3> QED
      BY <2>1, <3>1, <3>2 DEF LastAdd, Absent
  <2> QED
    BY <2>2, <2>3
<1>11. ASSUME NEW i \in 1..(n + 1), edits'[i].action = "efi-get-file"
       PROVE  \/ LastAdd(fetched[edits[i].file], i, edits[i].file)'
              \/ \E j \in (i + 1)..(n + 1) :
                   edits'[j].action = "efi-get-file"
                   /\ edits'[j].file = edits'[i].file
  <2>1. edits'[i].file \in EFIFiles
    <3>1. i \in DOMAIN edits' /\ edits' \in Seq(Edits)
      BY <1>4, <1>8 DEF PrebootType
    <3>2. edits'[i] \in Edits
      BY <3>1
    <3> QED
      BY <3>2 DEF Edits
  <2> PICK f \in EFIFiles : f = edits'[i].file
    BY <2>1
  <2>2. AddsBefore(i, f)' = AddsBefore(i, f) /\ fetched'[f] = fetched[f]
    BY <1>1, <1>9
  <2>3. LastAdd(fetched[edits[i].file], i, edits[i].file)'
        <=> LastAdd(fetched[f], i, f)
    BY <1>1, <2>2 DEF LastAdd, AddsBefore
  <2>4. CASE i = n + 1
    <3>1. Getting(step.file) /\ f = step.file
      BY <1>1, <1>3, <1>8, <1>11, <2>4 DEF Getting
    <3>2. LastAdd(fetched[step.file], n + 1, step.file)
      BY <1>2, <3>1 DEF PrebootInv, EditsInv
    <3> QED
      BY <2>3, <2>4, <3>1, <3>2
  <2>5. CASE i \in 1..n
    <3>1. edits'[i] = edits[i] /\ i \in DOMAIN edits
      BY <1>8, <2>5
    <3>2. \/ LastAdd(fetched[f], i, f)
          \/ Getting(f)
          \/ \E j \in (i + 1)..n : edits[j].action = "efi-get-file"
                                  /\ edits[j].file = f
      BY <1>2, <1>11, <3>1 DEF PrebootInv, EditsInv
    <3>3. CASE Getting(f)
      <4>1. edits'[n + 1].action = "efi-get-file" /\ edits'[n + 1].file = f
        BY <1>3, <1>8, <3>3 DEF Getting
      <4> QED
        BY <2>5, <4>1
    <3>4. CASE \E j \in (i + 1)..n : edits[j].action = "efi-get-file"
                                     /\ edits[j].file = f
      <4>1. PICK j \in (i + 1)..n : edits[j].action = "efi-get-file"
                                    /\ edits[j].file = f
        BY <3>4
      <4>2. edits'[j] = edits[j] /\ j \in (i + 1)..(n + 1)
        BY <1>8, <2>5
      <4> QED
        BY <4>1, <4>2
    <3> QED
      BY <2>3, <3>2, <3>3, <3>4
  <2> QED
    BY <2>4, <2>5
<1>12. EditsInv'
  BY <1>5, <1>7, <1>8, <1>10, <1>11 DEF EditsInv
<1> QED
  BY <1>4, <1>6, <1>12 DEF PrebootInv

(* Where no step has a result yet, only the files of the step under way    *)
(* matter.                                                                 *)
LEMMA EditsFrame ==
  ASSUME PrebootInv, UNCHANGED <<partitions, statuses, edits>>,
         NEW n \in Nat, n = Len(edits),
         GoesOn => \A f \in EFIFiles :
           /\ ~Writing(f)' => ~Writing(f) /\ esp'[Target][f] = esp[Target][f]
           /\ Writing(f)' /\ step'.at = "written" => esp'[Target][f] = n + 1
           /\ Getting(f)' => LastAdd(fetched'[f], n + 1, f)
           /\ ~Getting(f)' => ~Getting(f) /\ fetched'[f] = fetched[f]
  PROVE  EditsInv'
<1>1. Target' = Target /\ (GoesOn' <=> GoesOn) /\ Len(edits') = n
  BY DEF Target, GoesOn
<1>2. ASSUME NEW f, NEW i PROVE AddsBefore(i, f)' = AddsBefore(i, f)
  BY DEF AddsBefore
<1>3. ASSUME NEW f \in EFIFiles, GoesOn
      PROVE  /\ ~Writing(f)' =>
                  \/ LastAdd(esp'[Target][f], n + 1, f)
                  \/ AddsBefore(n + 1, f) = {} /\ esp'[Target][f] = Absent
             /\ Writing(f)' /\ step'.at = "written" => esp'[Target][f] = n + 1
             /\ Getting(f)' => LastAdd(fetched'[f], n + 1, f)
  BY <1>3 DEF PrebootInv, EditsInv
<1>4. ASSUME NEW f \in EFIFiles, GoesOn
      PROVE  /\ ~Writing(f)' =>
                  \/ LastAdd(esp[Target][f], Len(edits) + 1, f)'
                  \/ AddsBefore(Len(edits) + 1, f)' = {}
                     /\ esp'[Target'][f] = Absent
             /\ Writing(f)' /\ step'.at = "written" =>
                  esp'[Target'][f] = Len(edits') + 1
             /\ Getting(f)' => LastAdd(fetched[f], Len(edits) + 1, f)'
  <2>1. AddsBefore(Len(edits) + 1, f)' = AddsBefore(n + 1, f)
    BY <1>1 DEF AddsBefore
  <2> QED
    BY <1>1, <1>3, <1>4, <2>1 DEF LastAdd, Absent
<1>5. ASSUME NEW i \in DOMAIN edits, edits[i].action = "efi-get-file", GoesOn
      PROVE  \/ LastAdd(fetched[edits[i].file], i, edits[i].file)'
             \/ Getting(edits[i].file)'
             \/ \E j \in (i + 1)..n : edits[j].action = "efi-get-file"
                                     /\ edits[j].file = edits[i].file
  <2>1. edits[i] \in Edits
    BY DEF PrebootInv, PrebootType
  <2> PICK f \in EFIFiles : f = edits[i].file
    BY <2>1 DEF Edits
  <2>2. \/ LastAdd(fetched[f], i, f) \/ Getting(f)
        \/ \E j \in (i + 1)..n : edits[j].action = "efi-get-file"
                                /\ edits[j].file = f
    BY <1>5 DEF PrebootInv, EditsInv
  <2>3. ~Getting(f)' => ~Getting(f) /\ fetched'[f] = fetched[f]
    BY <1>5
  <2>4. Getting(edits[i].file)' <=> Getting(f)'
    BY DEF Getting
  <2>5. fetched'[f] = fetched[f] =>
          (LastAdd(fetched[edits[i].file], i, edits[i].file)'
           <=> LastAdd(fetched[f], i, f))
    BY DEF LastAdd, AddsBefore
  <2> QED
    BY <2>2, <2>3, <2>4, <2>5
<1>6. GoesOn => Len(edits) = Len(statuses)
  BY DEF PrebootInv, EditsInv
<1> QED
  BY <1>1, <1>4, <1>5, <1>6 DEF EditsInv

(* What every step of the command keeps.                                   *)
LEMMA PrebootStep == PrebootInv /\ [PrebootNext]_prebootvars => PrebootInv'
<1> SUFFICES ASSUME PrebootInv, [PrebootNext]_prebootvars PROVE PrebootInv'
  OBVIOUS
<1> USE PrebootAssumption
<1>a. Target \in {0, 1, 2}
  BY TargetFacts DEF Target, PrebootInv, PrebootType
<1> PICK n \in Nat : n = Len(edits)
  BY DEF PrebootInv, PrebootType
<1>b. GoesOn => \A f \in EFIFiles :
        /\ Writing(f) /\ step.at = "written" => esp[Target][f] = n + 1
        /\ Getting(f) => LastAdd(fetched[f], n + 1, f)
  BY DEF PrebootInv, EditsInv
<1>1. CASE UNCHANGED prebootvars
  <2>1. PrebootType' /\ StageInv'
    BY <1>1 DEF prebootvars, PrebootInv, PrebootType, StageInv, GoesOn
  <2>2. EditsInv'
    BY <1>b, <1>1, EditsFrame DEF prebootvars, Writing, Getting
  <2> QED
    BY <2>1, <2>2 DEF PrebootInv
<1>2. ASSUME NEW disk \in SeqOf([efi : BOOLEAN, fat : BOOLEAN], 2),
             NEW t \in 1..MaxPreboot, NEW f \in EFIFiles,
             OverlayCreated(disk, t, f)
      PROVE  PrebootInv'
  <2>1. DOMAIN disk \subseteq {1, 2}
    <3>1. PICK m \in 0..2 : disk \in [1..m -> [efi : BOOLEAN, fat : BOOLEAN]]
      BY DEF SeqOf
    <3> QED
      BY <3>1
  <2>2. FindEFIFAT32(disk) \in {0, 1, 2}
    BY <2>1, TargetFacts
  <2>3. /\ session = "new" /\ session' = "preboot" /\ partitions' = disk
        /\ total' = t /\ esp' = [esp EXCEPT ![FindEFIFAT32(disk)][f] = 0]
        /\ UNCHANGED <<statuses, step, fetched, edits>>
    BY <1>2 DEF OverlayCreated
  <2>4. /\ edits = <<>> /\ statuses = <<>> /\ step.at = "none"
        /\ \A p \in {0, 1, 2}, g \in EFIFiles : esp[p][g] = Absent
    BY <2>3 DEF PrebootInv, StageInv
  <2>5. PrebootType'
    BY <2>1, <2>2, <2>3, <2>4 DEF PrebootInv, PrebootType
  <2>6. StageInv'
    BY <2>3, <2>4 DEF StageInv
  <2>7. ASSUME NEW g \in EFIFiles
        PROVE  /\ AddsBefore(Len(edits) + 1, g)' = {}
               /\ esp'[Target'][g] \in {0, Absent}
    BY <2>2, <2>3, <2>4 DEF AddsBefore, Target, PrebootInv, PrebootType
  <2>8. EditsInv'
    BY <2>3, <2>4, <2>7 DEF EditsInv, Writing, Getting, LastAdd
  <2> QED
    BY <2>5, <2>6, <2>8 DEF PrebootInv
<1>3. ASSUME NEW action \in {"efi-add-file", "efi-get-file", "unknown"},
             NEW file \in EFIFiles, NEW string,
             StepBegins(action, file, string)
      PROVE  PrebootInv'
  <2>1. /\ session = "preboot" /\ step.at = "none" /\ GoesOn
        /\ Len(statuses) < total
        /\ UNCHANGED <<partitions, total, esp, fetched, edits, session>>
    BY <1>3 DEF StepBegins, Number, PrebootInv, PrebootType
  <2>2. CASE Failed
    BY <2>1, <2>2, FailedStep DEF PrebootInv, PrebootType
  <2>3. CASE /\ step' = [at |-> "open", action |-> action, file |-> file,
                         expired |-> FALSE]
             /\ action # "unknown" /\ UNCHANGED statuses
    <3>1. PrebootType'
      BY <2>1, <2>3 DEF PrebootInv, PrebootType, EditActions
    <3>2. StageInv'
      BY <2>1, <2>3 DEF PrebootInv, StageInv, EditActions, GoesOn
    <3>3. \A f : /\ ~Writing(f) /\ ~Getting(f) /\ ~Writing(f)' /\ ~Getting(f)'
      BY <2>1, <2>3 DEF Writing, Getting
    <3>4. EditsInv'
      BY <2>1, <2>3, <3>3, EditsFrame
    <3> QED
      BY <3>1, <3>2, <3>4 DEF PrebootInv
  <2> QED
    BY <1>3, <2>2, <2>3 DEF StepBegins
<1>4. CASE StepExpired
  <2>1. /\ step' = [step EXCEPT !.expired = TRUE]
        /\ UNCHANGED <<partitions, total, statuses, esp, fetched, edits,
                       session>>
    BY <1>4 DEF StepExpired
  <2>2. PrebootType'
    BY <2>1 DEF PrebootInv, PrebootType
  <2>3. step'.at = step.at /\ step'.action = step.action
        /\ step'.file = step.file
    BY <2>1 DEF PrebootInv, PrebootType
  <2>4. StageInv'
    BY <2>1, <2>3 DEF PrebootInv, StageInv, GoesOn
  <2>5. \A f : (Writing(f)' <=> Writing(f)) /\ (Getting(f)' <=> Getting(f))
    BY <2>3 DEF Writing, Getting
  <2>6. EditsInv'
    BY <1>b, <2>1, <2>3, <2>5, EditsFrame
  <2> QED
    BY <2>2, <2>4, <2>6 DEF PrebootInv
<1>5. CASE OpenFails \/ WriteFails
  <2>1. step.at # "none" /\ Failed
        /\ UNCHANGED <<partitions, total, fetched, edits, session>>
    BY <1>5 DEF OpenFails, WriteFails
  <2>2. session = "preboot" /\ Len(statuses) < total /\ step.file \in EFIFiles
    BY <2>1 DEF PrebootInv, StageInv
  <2>3. esp' \in [{0, 1, 2} -> [EFIFiles -> Int]]
    <3>1. CASE OpenFails
      BY <3>1 DEF OpenFails, PrebootInv, PrebootType
    <3>2. CASE WriteFails
      <4>1. PICK left \in {Empty, -Number} :
              esp' = [esp EXCEPT ![Target][step.file] = left]
        BY <3>2, Zenon DEF WriteFails
      <4>2. Empty \in Int /\ -Number \in Int
        BY DEF Empty, Number, PrebootInv, PrebootType
      <4>3. left \in Int
        BY <4>2
      <4> QED
        BY <1>a, <2>2, <4>1, <4>3 DEF PrebootInv, PrebootType
    <3> QED
      BY <1>5, <3>1, <3>2
  <2> QED
    BY <2>1, <2>2, <2>3, FailedStep
<1>6. CASE OpenForWriting \/ WriteFile
  <2> DEFINE v == IF step.at = "open" THEN Empty ELSE Number
             to == IF step.at = "open" THEN "write" ELSE "written"
  <2>1. /\ step.at \in {"open", "write"} /\ step.action = "efi-add-file"
        /\ esp' = [esp EXCEPT ![Target][step.file] = v]
        /\ step' = [step EXCEPT !.at = to]
        /\ UNCHANGED <<partitions, total, statuses, fetched, edits, session>>
    BY <1>6 DEF OpenForWriting, WriteFile, PrebootInv, StageInv
  <2>2. /\ session = "preboot" /\ GoesOn /\ Len(statuses) < total
        /\ step.file \in EFIFiles /\ Len(edits) = Len(statuses)
    BY <2>1 DEF PrebootInv, StageInv, EditsInv
  <2>3. v \in Int /\ to \in {"write", "written"}
        /\ (to = "written" => v = Len(edits) + 1)
    BY <2>1, <2>2 DEF Empty, Number, PrebootInv, PrebootType
  <2> HIDE DEF v, to
  <2>4. /\ step'.at = to /\ step'.action = "efi-add-file"
        /\ step'.file = step.file
    BY <2>1 DEF PrebootInv, PrebootType
  <2>5. PrebootType'
    BY <1>a, <2>1, <2>2, <2>3 DEF PrebootInv, PrebootType
  <2>6. StageInv'
    BY <2>1, <2>2, <2>3, <2>4 DEF PrebootInv, StageInv, GoesOn, EditActions
  <2>7. \A f : /\ Writing(f)' <=> f = step.file
               /\ Writing(f) => f = step.file
               /\ ~Getting(f)' /\ ~Getting(f)
    BY <2>1, <2>3, <2>4 DEF Writing, Getting
  <2>8. /\ Target' = Target /\ esp'[Target][step.file] = v
        /\ \A f \in EFIFiles \ {step.file} : esp'[Target][f] = esp[Target][f]
    BY <1>a, <2>1, <2>2 DEF PrebootInv, PrebootType, Target
  <2>9. EditsInv'
    BY <2>1, <2>2, <2>3, <2>4, <2>7, <2>8, EditsFrame
  <2> QED
    BY <2>5, <2>6, <2>9 DEF PrebootInv
<1>7. CASE GetFile
  <2>1. /\ step.at = "open" /\ step.action = "efi-get-file"
        /\ esp[Target][step.file] # Absent
        /\ fetched' = [fetched EXCEPT ![step.file] = esp[Target][step.file]]
        /\ step' = [step EXCEPT !.at = "written"]
        /\ UNCHANGED <<partitions, total, statuses, esp, edits, session>>
    BY <1>7 DEF GetFile
  <2>2. /\ session = "preboot" /\ GoesOn /\ Len(statuses) < total
        /\ step.file \in EFIFiles
    BY <2>1 DEF PrebootInv, StageInv
  <2>3. /\ step'.at = "written" /\ step'.action = "efi-get-file"
        /\ step'.file = step.file
    BY <2>1 DEF PrebootInv, PrebootType
  <2>4. PrebootType'
    BY <1>a, <2>1, <2>2 DEF PrebootInv, PrebootType
  <2>5. StageInv'
    BY <2>1, <2>2, <2>3 DEF PrebootInv, StageInv, GoesOn, EditActions
  <2>6. \A f : /\ ~Writing(f) /\ ~Writing(f)' /\ ~Getting(f)
               /\ Getting(f)' <=> f = step.file
    BY <2>1, <2>3 DEF Writing, Getting
  <2>7. LastAdd(esp[Target][step.file], Len(edits) + 1, step.file)
    BY <2>1, <2>2, <2>6 DEF PrebootInv, EditsInv
  <2>8. /\ fetched'[step.file] = esp[Target][step.file]
        /\ \A f \in EFIFiles \ {step.file} : fetched'[f] = fetched[f]
    BY <2>1, <2>2 DEF PrebootInv, PrebootType
  <2>9. EditsInv'
    BY <2>1, <2>2, <2>6, <2>7, <2>8, EditsFrame
  <2> QED
    BY <2>4, <2>5, <2>9 DEF PrebootInv
<1>8. CASE StepEnds
  <2>1. CASE step.expired
    <3>1. step.at # "none" /\ Failed
          /\ UNCHANGED <<partitions, total, esp, fetched, edits, session>>
      BY <1>8, <2>1 DEF StepEnds
    <3> QED
      BY <3>1, FailedStep DEF PrebootInv, StageInv, PrebootType
  <2> QED
    BY <1>8, <2>1, PassedStep
<1>9. CASE CommandGoesOn
  <2>1. /\ step.at = "none" /\ session = "preboot"
        /\ Len(statuses) + 1 > total \/ ~GoesOn
        /\ session' = IF GoesOn THEN "boots" ELSE "refused"
        /\ UNCHANGED <<partitions, total, statuses, step, esp, fetched, edits>>
    BY <1>9 DEF CommandGoesOn, Number
  <2>2. PrebootType'
    BY <2>1 DEF PrebootInv, PrebootType
  <2>3. StageInv'
    BY <2>1 DEF PrebootInv, PrebootType, StageInv, GoesOn
  <2>4. EditsInv'
    BY <1>b, <2>1, EditsFrame DEF Writing, Getting
  <2> QED
    BY <2>2, <2>3, <2>4 DEF PrebootInv
<1> QED
  BY <1>1, <1>2, <1>3, <1>4, <1>5, <1>6, <1>7, <1>8, <1>9 DEF PrebootNext

(* QEMU boots from what the preboot steps were to make of the overlay, for  *)
(* any number of steps, of files and of failures on the way.               *)
THEOREM PrebootCorrect == PrebootSpec => []BootsAsEdited
<1>1. ASSUME PrebootInv, session = "boots" PROVE BootsAsEdited
  <2>1. /\ GoesOn /\ step.at = "none" /\ Len(edits) = total
        /\ \A f : ~Writing(f) /\ ~Getting(f)
    BY <1>1 DEF PrebootInv, StageInv, EditsInv, Writing, Getting
  <2> PICK n \in Nat : n = total /\ n = Len(edits)
    BY <1>1, <2>1, PrebootAssumption DEF PrebootInv, PrebootType
  <2>2. ASSUME NEW i \in 1..n
        PROVE  edits[i] \in Edits /\ ~edits[i].expired
               /\ edits[i].file \in EFIFiles
    <3>1. edits[i] \in Edits
      BY <1>1 DEF PrebootInv, PrebootType
    <3> QED
      BY <3>1 DEF Edits
  <2>3. ASSUME NEW i \in 1..n, edits[i].action = "efi-add-file"
        PROVE  \/ esp[Target][edits[i].file] = i
               \/ \E j \in (i + 1)..n : /\ edits[j].action = "efi-add-file"
                                       /\ edits[j].file = edits[i].file
    <3> DEFINE f == edits[i].file
               x == esp[Target][f]
    <3>1. i \in AddsBefore(n + 1, f)
      BY <2>3 DEF AddsBefore
    <3>2. LastAdd(x, n + 1, f)
      BY <1>1, <2>1, <2>2, <3>1 DEF PrebootInv, EditsInv
    <3>3. x \in AddsBefore(n + 1, f) /\ i <= x
      BY <3>1, <3>2 DEF LastAdd
    <3>4. x \in 1..n /\ edits[x].action = "efi-add-file" /\ edits[x].file = f
      BY <3>3 DEF AddsBefore
    <3> QED
      BY <3>3, <3>4
  <2>4. ASSUME NEW i \in 1..n, NEW x, LastAdd(x, i, edits[i].file)
        PROVE  x = AddedBefore(i)
    <3> DEFINE S == AddsBefore(i, edits[i].file)
    <3>1. AddedBefore(i) = IF S = {} THEN 0
                           ELSE CHOOSE j \in S : \A k \in S : k <= j
      BY DEF AddedBefore, AddsBefore
    <3>2. S \subseteq Nat
      BY DEF AddsBefore
    <3>3. CASE S = {}
      BY <2>4, <3>1, <3>3 DEF LastAdd
    <3>4. CASE S # {}
      <4>1. x \in S /\ \A k \in S : k <= x
        BY <2>4, <3>4 DEF LastAdd
      <4>2. \A j \in S : (\A k \in S : k <= j) => j = x
        BY <3>2, <4>1
      <4> HIDE DEF S
      <4>3. (CHOOSE j \in S : \A k \in S : k <= j) = x
        BY <4>1, <4>2
      <4> QED
        BY <3>1, <3>4, <4>3
    <3> QED
      BY <3>3, <3>4
  <2>5. ASSUME NEW i \in 1..n, edits[i].action = "efi-get-file"
        PROVE  \/ fetched[edits[i].file] = AddedBefore(i)
               \/ \E j \in (i + 1)..n : /\ edits[j].action = "efi-get-file"
                                       /\ edits[j].file = edits[i].file
    <3>1. i \in DOMAIN edits
      BY <1>1 DEF PrebootInv, PrebootType
    <3> QED
      BY <1>1, <2>1, <2>4, <2>5, <3>1 DEF PrebootInv, EditsInv
  <2>6. DOMAIN edits = 1..n
    BY <1>1 DEF PrebootInv, PrebootType
  <2>7. \A i \in 1..n : edits[i].action # "efi-add-file"
                        => edits[i].action = "efi-get-file"
    BY <2>2 DEF Edits, EditActions
  <2>8. \A p \in DOMAIN partitions : partitions[p].efi /\ partitions[p].fat =>
          partitions[Target].efi /\ partitions[Target].fat
    BY <1>1, TargetFacts DEF Target, PrebootInv, PrebootType
  <2> QED
    BY <2>1, <2>2, <2>3, <2>5, <2>6, <2>7, <2>8 DEF BootsAsEdited
<1>2. PrebootInv => BootsAsEdited
  BY <1>1 DEF BootsAsEdited
<1> QED
  BY <1>2, PrebootStarts, PrebootStep, PTL DEF PrebootSpec

---------------------------------------------------------------------------
(* The includes of a test definition                                       *)

(* Induction, for a set of numbers: the least number outside of it would   *)
(* be neither zero nor the successor of one inside.                        *)
LEMMA Induction ==
  ASSUME NEW S, 0 \in S, \A n \in Nat : n \in S => n + 1 \in S
  PROVE  Nat \subseteq S
<1> DEFINE T == Nat \ S
<1>1. SUFFICES ASSUME T # {} PROVE FALSE
  OBVIOUS
<1>2. \E x \in T : \A y \in T : <<y, x>> \notin OpToRel(<, Nat)
  <2>1. T \subseteq Nat
    OBVIOUS
  <2> HIDE DEF T
  <2> QED
    BY <1>1, <2>1, NatLessThanWellFounded, WFMin, Zenon
<1>3. PICK x \in T : \A y \in T : ~(y < x)
  BY <1>2, Zenon DEF OpToRel
<1>4. x \in Nat /\ x - 1 \in Nat /\ x - 1 < x
  OBVIOUS
<1>5. x - 1 \in S
  BY <1>3, <1>4
<1> QED
  BY <1>4, <1>5

(* What the loop of processIncludes has merged after the includes whose    *)
(* positions are in s, and its equation.                                   *)
Merges(g, n, base, inc) ==
  g = [s \in SUBSET (1..n) |->
         IF s = {} THEN base
         ELSE LET x == Max(s) IN MergeInclude(g[s \ {x}], inc[x])]

(* The last of a set of positions that is not empty.                       *)
LEMMA MaxOfPositions ==
  ASSUME NEW n \in Nat, NEW s \in SUBSET (1..n), s # {}
  PROVE  Max(s) \in s /\ \A j \in s : j <= Max(s)
<1>1. \E i \in s : \A j \in s : i >= j
  <2>1. PICK i \in s : \A j \in s : j <= i
    BY LastExists
  <2>2. \A j \in s : i >= j
    BY <2>1
  <2> QED
    BY <2>2
<1>2. Max(s) \in s /\ \A j \in s : Max(s) >= j
  BY <1>1, Zenon DEF Max
<1> QED
  BY <1>2

(* It has one solution at least, for any number of includes: that for n    *)
(* gives that for n + 1.                                                   *)
LEMMA MergesStep ==
  ASSUME NEW n \in Nat, NEW base, NEW inc, NEW g, Merges(g, n, base, inc)
  PROVE  \E h : Merges(h, n + 1, base, inc)
<1>0. ASSUME NEW s \in SUBSET (1..(n + 1)), n + 1 \in s
      PROVE  Max(s) = n + 1
  <2>1. n + 1 \in Nat /\ s # {}
    BY <1>0
  <2>2. Max(s) \in s /\ n + 1 <= Max(s)
    BY <1>0, <2>1, MaxOfPositions
  <2>3. Max(s) \in 1..(n + 1)
    BY <2>2
  <2> QED
    BY <2>2, <2>3
<1> DEFINE h == [s \in SUBSET (1..(n + 1)) |->
                   IF n + 1 \in s
                   THEN MergeInclude(g[s \ {n + 1}], inc[n + 1]) ELSE g[s]]
           Value(s) == IF s = {} THEN base
                       ELSE MergeInclude(h[s \ {Max(s)}], inc[Max(s)])
<1>1. \A s \in SUBSET (1..n) :
        g[s] = IF s = {} THEN base
               ELSE MergeInclude(g[s \ {Max(s)}], inc[Max(s)])
  <2>1. g = [s \in SUBSET (1..n) |->
               IF s = {} THEN base
               ELSE MergeInclude(g[s \ {Max(s)}], inc[Max(s)])]
    BY Zenon DEF Merges
  <2> QED
    BY <2>1, Zenon
<1>2. ASSUME NEW s \in SUBSET (1..(n + 1)) PROVE h[s] = Value(s)
  <2>1. CASE n + 1 \in s
    <3>1. Max(s) = n + 1
      BY <1>0, <2>1
    <3>2. s \ {n + 1} \in SUBSET (1..(n + 1)) /\ n + 1 \notin s \ {n + 1}
      OBVIOUS
    <3>3. h[s \ {n + 1}] = g[s \ {n + 1}]
      BY <3>2, Zenon
    <3>4. h[s] = MergeInclude(g[s \ {n + 1}], inc[n + 1])
      BY <2>1, Zenon
    <3> QED
      BY <2>1, <3>1, <3>3, <3>4, Zenon
  <2>2. CASE n + 1 \notin s
    <3>1. s \in SUBSET (1..n)
      BY <2>2
    <3>2. h[s] = g[s]
      BY <2>2, Zenon
    <3>3. CASE s = {}
      BY <1>1, <3>1, <3>2, <3>3, Zenon
    <3>4. CASE s # {}
      <4>1. /\ s \ {Max(s)} \in SUBSET (1..(n + 1))
            /\ n + 1 \notin s \ {Max(s)}
        BY <2>2
      <4>2. h[s \ {Max(s)}] = g[s \ {Max(s)}]
        BY <4>1, Zenon
      <4> QED
        BY <1>1, <3>1, <3>2, <3>4, <4>2, Zenon
    <3> QED
      BY <3>3, <3>4
  <2> QED
    BY <2>1, <2>2
<1> HIDE DEF Value
<1>3. h = [s \in SUBSET (1..(n + 1)) |-> Value(s)]
  BY <1>2, Zenon
<1> USE DEF Value
<1>4. Merges(h, n + 1, base, inc)
  BY <1>3, Zenon DEF Merges
<1> QED
  BY <1>4, Zenon

(* And so there is one for any number of includes.                         *)
LEMMA MergesExist ==
  ASSUME NEW n \in Nat, NEW base, NEW inc
  PROVE  \E g : Merges(g, n, base, inc)
<1> DEFINE S == {k \in Nat : \E g : Merges(g, k, base, inc)}
<1>1. 0 \in S
  <2> DEFINE g == [s \in SUBSET (1..0) |-> base]
  <2>1. \A s \in SUBSET (1..0) : s = {}
    OBVIOUS
  <2>2. g = [s \in SUBSET (1..0) |->
               IF s = {} THEN base
               ELSE LET x == Max(s) IN MergeInclude(g[s \ {x}], inc[x])]
    BY <2>1, Zenon
  <2>3. Merges(g, 0, base, inc)
    BY <2>2, Zenon DEF Merges
  <2> QED
    BY <2>3, Zenon
<1>2. \A k \in Nat : k \in S => k + 1 \in S
  BY MergesStep
<1>3. Nat \subseteq S
  <2> HIDE DEF S
  <2> QED
    BY <1>1, <1>2, Induction
<1> QED
  BY <1>3

(* FoldLeft computes it include by include.                                *)
MergeAll(base, inc) == FoldLeft(MergeInclude, base, inc)

Rounds(m, n, base, inc) ==
  /\ m[0] = base /\ m[n] = MergeAll(base, inc)
  /\ \A k \in 1..n : m[k] = MergeInclude(m[k - 1], inc[k])

(* ProcessIncludes goes through the includes round by round.               *)
LEMMA FoldOfIncludes ==
  ASSUME NEW n \in Nat, NEW base, NEW inc, DOMAIN inc = 1..n
  PROVE  \E m : Rounds(m, n, base, inc)
<1> DEFINE g == CHOOSE g : g = [s \in SUBSET (1..n) |->
                  IF s = {} THEN base
                  ELSE LET x == Max(s) IN MergeInclude(g[s \ {x}], inc[x])]
<1>1. MergeAll(base, inc) = g[1..n]
  BY Zenon DEF MergeAll, FoldLeft, MapThenFoldSet
<1>2. Merges(g, n, base, inc)
  <2>1. \E f : f = [s \in SUBSET (1..n) |->
                     IF s = {} THEN base
                     ELSE LET x == Max(s)
                          IN  MergeInclude(f[s \ {x}], inc[x])]
    <3> PICK f : Merges(f, n, base, inc)
      BY MergesExist
    <3> QED
      BY Zenon DEF Merges
  <2> QED
    BY <2>1, Zenon DEF Merges
<1> HIDE DEF g
<1>3. \A s \in SUBSET (1..n) :
        g[s] = IF s = {} THEN base
               ELSE MergeInclude(g[s \ {Max(s)}], inc[Max(s)])
  <2>1. g = [s \in SUBSET (1..n) |->
               IF s = {} THEN base
               ELSE MergeInclude(g[s \ {Max(s)}], inc[Max(s)])]
    BY <1>2, Zenon DEF Merges
  <2> QED
    BY <2>1, Zenon
<1>a. ASSUME NEW k \in 1..n
      PROVE  /\ 1..k \in SUBSET (1..n) /\ 1..k # {}
             /\ (1..k) \ {k} = 1..(k - 1)
             /\ k \in 0..n /\ k - 1 \in 0..n /\ Max(1..k) = k
  <2>1. 1..k \in SUBSET (1..n) /\ k \in 1..k
    OBVIOUS
  <2>2. (1..k) \ {k} = 1..(k - 1)
    OBVIOUS
  <2>3. Max(1..k) \in 1..k /\ k <= Max(1..k)
    BY <2>1, MaxOfPositions
  <2>4. Max(1..k) = k
    BY <2>3
  <2>5. 1..k # {} /\ k \in 0..n /\ k - 1 \in 0..n
    OBVIOUS
  <2> QED
    BY <2>1, <2>2, <2>4, <2>5, Zenon
<1> DEFINE m == [k \in 0..n |-> g[1..k]]
<1>4. m[0] = base
  <2>1. 1..0 = {} /\ 0 \in 0..n
    OBVIOUS
  <2>2. g[{}] = base
    BY <1>3, Zenon
  <2> QED
    BY <2>1, <2>2
<1>5. ASSUME NEW k \in 1..n PROVE m[k] = MergeInclude(m[k - 1], inc[k])
  <2>1. g[1..k] = MergeInclude(g[1..(k - 1)], inc[k])
    BY <1>a, <1>3, Zenon
  <2>2. m[k] = g[1..k] /\ m[k - 1] = g[1..(k - 1)]
    BY <1>a, Zenon
  <2> QED
    BY <2>1, <2>2, Zenon
<1>6. m[n] = MergeAll(base, inc)
  BY <1>1
<1> HIDE DEF m
<1>7. Rounds(m, n, base, inc)
  BY <1>4, <1>5, <1>6, Zenon DEF Rounds
<1> QED
  BY <1>7, Zenon

(* The last of the first n fields that is given, if one is.                *)
IsLast(x, fields, n, none) ==
  IF \A i \in 1..n : fields[i] = none THEN x = none
  ELSE \E i \in 1..n : /\ fields[i] # none /\ x = fields[i]
                       /\ \A j \in (i + 1)..n : fields[j] = none

(* Which is the one LastGiven chooses.                                     *)
LEMMA LastIsGiven ==
  ASSUME NEW n \in Nat, NEW fields, DOMAIN fields = 1..n, NEW none, NEW x,
         IsLast(x, fields, n, none)
  PROVE  LastGiven(fields, none) = x
<1> DEFINE given == {i \in DOMAIN fields : fields[i] # none}
<1>1. LastGiven(fields, none) =
        IF given = {} THEN none
        ELSE fields[CHOOSE i \in given : \A j \in given : j <= i]
  BY DEF LastGiven
<1>2. CASE given = {}
  BY <1>1, <1>2 DEF IsLast
<1>3. CASE given # {}
  <2>1. PICK i \in 1..n : /\ fields[i] # none /\ x = fields[i]
                          /\ \A j \in (i + 1)..n : fields[j] = none
    BY <1>3, Zenon DEF IsLast
  <2>2. i \in given /\ \A j \in given : j <= i
    BY <2>1
  <2>3. given \subseteq Nat
    OBVIOUS
  <2> HIDE DEF given
  <2>4. \A k \in given : (\A j \in given : j <= k) => k = i
    BY <2>2, <2>3
  <2>5. (CHOOSE k \in given : \A j \in given : j <= k) = i
    BY <2>2, <2>4
  <2> QED
    BY <1>1, <1>3, <2>1, <2>5
<1> QED
  BY <1>2, <1>3

(* A later field wins if it is given.                                      *)
LEMMA PreferStep ==
  ASSUME NEW n \in Nat, NEW fields, NEW none, NEW x,
         IsLast(x, fields, n, none)
  PROVE  IsLast(Prefer(x, fields[n + 1], none), fields, n + 1, none)
<1>1. CASE fields[n + 1] = none
  <2>1. Prefer(x, fields[n + 1], none) = x
    BY <1>1 DEF Prefer
  <2> QED
    BY <1>1, <2>1 DEF IsLast
<1>2. CASE fields[n + 1] # none
  BY <1>2 DEF IsLast, Prefer
<1> QED
  BY <1>1, <1>2

(* So the last of all wins in the end.                                     *)
LEMMA LaterIncludesWin ==
  ASSUME NEW n \in Nat, NEW none, NEW fields, NEW m, m[0] = none,
         \A k \in 1..n : m[k] = Prefer(m[k - 1], fields[k], none)
  PROVE  IsLast(m[n], fields, n, none)
<1> DEFINE S == {k \in Nat : k <= n => IsLast(m[k], fields, k, none)}
<1>1. 0 \in S
  BY DEF IsLast
<1>2. ASSUME NEW k \in Nat, k \in S PROVE k + 1 \in S
  <2>1. SUFFICES ASSUME k + 1 <= n
                 PROVE  IsLast(m[k + 1], fields, k + 1, none)
    OBVIOUS
  <2>2. IsLast(m[k], fields, k, none)
    BY <1>2, <2>1
  <2>3. k + 1 \in 1..n /\ (k + 1) - 1 = k
    BY <2>1
  <2>4. m[k + 1] = Prefer(m[k], fields[k + 1], none)
    BY <2>3
  <2> QED
    BY <2>2, <2>4, PreferStep
<1>3. Nat \subseteq S
  <2> HIDE DEF S
  <2> QED
    BY <1>1, <1>2, Induction
<1> QED
  BY <1>3

(* The equation of FlattenSeq, which has a solution.                       *)
Flattens(f, n, seqs) ==
  f = [i \in 1..n |-> IF i = 1 THEN seqs[i] ELSE f[i - 1] \o seqs[i]]

(* That solution, for any number of sequences.                             *)
LEMMA FlattensExist ==
  ASSUME NEW n \in Nat, NEW seqs
  PROVE  \E f : Flattens(f, n, seqs)
<1> DEFINE S == {k \in Nat : \E f : Flattens(f, k, seqs)}
<1>1. 0 \in S
  <2> DEFINE f == [i \in 1..0 |-> 0]
  <2>1. Flattens(f, 0, seqs)
    BY DEF Flattens
  <2> QED
    BY <2>1, Zenon
<1>2. ASSUME NEW k \in Nat, k \in S PROVE k + 1 \in S
  <2> PICK f : Flattens(f, k, seqs)
    BY <1>2
  <2> DEFINE h == [i \in 1..(k + 1) |->
                     IF i = 1 THEN seqs[i] ELSE f[i - 1] \o seqs[i]]
  <2>1. ASSUME NEW i \in 1..k PROVE h[i] = f[i]
    <3>1. i \in 1..(k + 1)
      OBVIOUS
    <3>2. f = [l \in 1..k |-> IF l = 1 THEN seqs[l] ELSE f[l - 1] \o seqs[l]]
      BY Zenon DEF Flattens
    <3>3. f[i] = IF i = 1 THEN seqs[i] ELSE f[i - 1] \o seqs[i]
      BY <3>2, Zenon
    <3>4. h[i] = IF i = 1 THEN seqs[i] ELSE f[i - 1] \o seqs[i]
      BY <3>1, Zenon
    <3> QED
      BY <3>3, <3>4, Zenon
  <2>2. ASSUME NEW i \in 1..(k + 1)
        PROVE  h[i] = IF i = 1 THEN seqs[i] ELSE h[i - 1] \o seqs[i]
    <3>1. i = 1 \/ i - 1 \in 1..k
      OBVIOUS
    <3>2. h[i] = IF i = 1 THEN seqs[i] ELSE f[i - 1] \o seqs[i]
      BY Zenon
    <3> QED
      BY <2>1, <3>1, <3>2, Zenon
  <2>3. h = [i \in 1..(k + 1) |->
               IF i = 1 THEN seqs[i] ELSE h[i - 1] \o seqs[i]]
    BY <2>2, Zenon
  <2>4. Flattens(h, k + 1, seqs)
    BY <2>3, Zenon DEF Flattens
  <2>5. \E g : Flattens(g, k + 1, seqs)
    BY <2>4, Zenon
  <2> QED
    BY <2>5
<1>3. Nat \subseteq S
  <2> HIDE DEF S
  <2> QED
    BY <1>1, <1>2, Induction
<1> QED
  BY <1>3

(* It is that of sequences that are appended one by one.                   *)
LEMMA FlattenAddsUp ==
  ASSUME NEW n \in Nat \ {0}, NEW seqs, Len(seqs) = n
  PROVE  \E f : /\ f[1] = seqs[1] /\ f[n] = FlattenSeq(seqs)
                /\ \A i \in 2..n : f[i] = f[i - 1] \o seqs[i]
<1> DEFINE f == CHOOSE f : f = [i \in 1..Len(seqs) |->
                  IF i = 1 THEN seqs[i] ELSE f[i - 1] \o seqs[i]]
<1>1. f[n] = FlattenSeq(seqs)
  <2>1. FlattenSeq(seqs) = f[Len(seqs)]
    BY Zenon DEF FlattenSeq
  <2> QED
    BY <2>1
<1>2. f = [i \in 1..n |-> IF i = 1 THEN seqs[i] ELSE f[i - 1] \o seqs[i]]
  <2>1. \E h : h = [i \in 1..Len(seqs) |->
                      IF i = 1 THEN seqs[i] ELSE h[i - 1] \o seqs[i]]
    <3> PICK h : Flattens(h, n, seqs)
      BY FlattensExist
    <3> QED
      BY Zenon DEF Flattens
  <2>2. f = [i \in 1..Len(seqs) |->
               IF i = 1 THEN seqs[i] ELSE f[i - 1] \o seqs[i]]
    BY <2>1, Zenon
  <2> QED
    BY <2>2, Zenon
<1> HIDE DEF f
<1>3. f[1] = seqs[1] /\ \A i \in 2..n : f[i] = f[i - 1] \o seqs[i]
  <2>1. 1 \in 1..n /\ \A i \in 2..n : i \in 1..n /\ i # 1
    OBVIOUS
  <2> QED
    BY <1>2, <2>1, Zenon
<1> QED
  BY <1>1, <1>3, Zenon

(* What grows by one sequence after another is all of them, flattened.     *)
LEMMA ArgumentsAddUp ==
  ASSUME NEW n \in Nat, NEW seqs, Len(seqs) = n + 1, NEW m, m[0] = seqs[1],
         \A k \in 1..n : m[k] = m[k - 1] \o seqs[k + 1]
  PROVE  m[n] = FlattenSeq(seqs)
<1> PICK f : /\ f[1] = seqs[1] /\ f[n + 1] = FlattenSeq(seqs)
             /\ \A i \in 2..(n + 1) : f[i] = f[i - 1] \o seqs[i]
  <2>1. n + 1 \in Nat \ {0}
    OBVIOUS
  <2> QED
    BY <2>1, FlattenAddsUp
<1> DEFINE S == {k \in Nat : k <= n => m[k] = f[k + 1]}
<1>1. 0 \in S
  OBVIOUS
<1>2. ASSUME NEW k \in Nat, k \in S PROVE k + 1 \in S
  <2>1. SUFFICES ASSUME k + 1 <= n PROVE m[k + 1] = f[(k + 1) + 1]
    OBVIOUS
  <2>2. m[k] = f[k + 1]
    BY <1>2, <2>1
  <2>3. /\ k + 1 \in 1..n /\ (k + 1) - 1 = k
        /\ (k + 1) + 1 \in 2..(n + 1) /\ ((k + 1) + 1) - 1 = k + 1
    BY <2>1
  <2> HIDE DEF S
  <2>4. m[k + 1] = m[k] \o seqs[(k + 1) + 1]
    BY <2>3, Zenon
  <2>5. f[(k + 1) + 1] = f[k + 1] \o seqs[(k + 1) + 1]
    BY <2>3, Zenon
  <2> QED
    BY <2>2, <2>4, <2>5, Zenon
<1>3. Nat \subseteq S
  <2> HIDE DEF S
  <2> QED
    BY <1>1, <1>2, Induction
<1> QED
  BY <1>3

(* A field of what is merged grows include by include.                     *)
Grows(m, n, includes, f, none) ==
  /\ m[0][f] = none
  /\ \A k \in 1..n : m[k][f] = Prefer(m[k - 1][f], includes[k][f], none)

(* The field f of the main file wins over those of its includes.           *)
FieldOf(all, f) == [i \in DOMAIN all |-> all[i][f]]

(* If it grows like that, the last file that gives it has the say.         *)
LEMMA MainFileWins ==
  ASSUME NEW S, NEW includes \in Seq(S), NEW main \in S, NEW n \in Nat,
         n = Len(includes), NEW f, NEW none, NEW m,
         Grows(m, n, includes, f, none)
  PROVE  LastGiven(FieldOf(Append(includes, main), f), none)
           = Prefer(m[n][f], main[f], none)
<1> DEFINE all == Append(includes, main)
<1>0. /\ DOMAIN all = 1..(n + 1) /\ all[n + 1] = main
      /\ \A k \in 1..n : all[k] = includes[k]
  OBVIOUS
<1> HIDE DEF all
<1> DEFINE fields == FieldOf(all, f)
           x == [k \in 0..n |-> m[k][f]]
<1>1. n \in 0..n /\ n + 1 \in 1..(n + 1) /\ n + 1 \in Nat /\ 0 \in 0..n
  OBVIOUS
<1>2. DOMAIN fields = 1..(n + 1) /\ fields[n + 1] = main[f]
  BY <1>0, <1>1, Zenon DEF FieldOf
<1>3. x[0] = none /\ x[n] = m[n][f]
  BY <1>1, Zenon DEF Grows
<1>4. ASSUME NEW k \in 1..n PROVE x[k] = Prefer(x[k - 1], fields[k], none)
  <2>1. k \in 0..n /\ k - 1 \in 0..n /\ k \in 1..(n + 1)
    OBVIOUS
  <2>2. /\ x[k] = m[k][f] /\ x[k - 1] = m[k - 1][f]
        /\ fields[k] = includes[k][f]
    BY <1>0, <2>1, Zenon DEF FieldOf
  <2> QED
    BY <2>2, Zenon DEF Grows
<1> HIDE DEF fields, x
<1>5. IsLast(x[n], fields, n, none)
  BY <1>3, <1>4, LaterIncludesWin
<1>6. IsLast(Prefer(x[n], fields[n + 1], none), fields, n + 1, none)
  BY <1>5, PreferStep
<1>7. LastGiven(fields, none) = Prefer(x[n], fields[n + 1], none)
  BY <1>1, <1>2, <1>6, LastIsGiven
<1> QED
  BY <1>2, <1>3, <1>7, Zenon DEF fields, all

(* Which field it is that wins: none, or one that a file gives.            *)
LEMMA LastIsOne ==
  ASSUME NEW n \in Nat, NEW fields, DOMAIN fields = 1..n, NEW none
  PROVE  \/ LastGiven(fields, none) = none
         \/ \E i \in 1..n : LastGiven(fields, none) = fields[i]
<1> DEFINE given == {i \in DOMAIN fields : fields[i] # none}
<1>1. CASE given = {}
  BY <1>1 DEF LastGiven
<1>2. CASE given # {}
  <2>1. given \subseteq 1..n
    OBVIOUS
  <2>2. LastGiven(fields, none)
          = fields[CHOOSE i \in given : \A j \in given : j <= i]
    BY <1>2, Zenon DEF LastGiven
  <2> HIDE DEF given
  <2>3. \E i \in given : \A j \in given : j <= i
    BY <1>2, <2>1, LastExists
  <2>4. (CHOOSE i \in given : \A j \in given : j <= i) \in given
    BY <2>3, Zenon
  <2> QED
    BY <2>1, <2>2, <2>4, Zenon
<1> QED
  BY <1>1, <1>2

(* Every test definition a file can give: any names and numbers of steps.   *)
AnySteps(names) == Seq([action : names, timeout : Int])
AnyTest(names) ==
  [name : names, delay : Int, preboot : AnySteps(names),
   steps : AnySteps(names), panic : AnySteps(names), serial : names,
   args : Seq(names)]

(* What the loop starts with.                                              *)
Nothing(main) ==
  [preboot |-> <<>>, steps |-> <<>>, panic |-> <<>>, serial |-> "",
   args |-> main.args]

(* The test t that is loaded, p as it is before its timeouts are filled in, *)
(* and what the loop leaves.                                               *)
FieldsOf(t, p, merged, main) ==
  /\ ValidTest(p)
  /\ t.name = main.name /\ t.delay = main.delay
  /\ p.preboot = Prefer(merged.preboot, main.preboot, <<>>)
  /\ p.steps = Prefer(merged.steps, main.steps, <<>>) /\ t.steps = p.steps
  /\ p.panic = Prefer(merged.panic, main.panic, <<>>) /\ t.panic = p.panic
  /\ t.serial = Prefer(merged.serial, main.serial, "")
  /\ t.args = merged.args
  /\ t.preboot = [i \in DOMAIN p.preboot |->
       IF p.preboot[i].timeout > 0 THEN p.preboot[i]
       ELSE [p.preboot[i] EXCEPT !.timeout = 30]]

(* A test that has been loaded is that, and every include has been read.   *)
LEMMA MergedFields ==
  ASSUME NEW names, NEW main \in AnyTest(names), NEW includes,
         LoadTest(main, includes) # Unreadable
  PROVE  /\ FieldsOf(LoadTest(main, includes),
                     ProcessIncludes(main, includes),
                     MergeAll(Nothing(main), includes), main)
         /\ \A i \in DOMAIN includes : includes[i] # Unreadable
<1> DEFINE m == MergeAll(Nothing(main), includes)
           t == LoadTest(main, includes)
           p == ProcessIncludes(main, includes)
<1>1. p # Unreadable /\ ValidTest(p) /\ t = WithDefaults(p)
  BY Zenon DEF LoadTest
<1>2. \A i \in DOMAIN includes : includes[i] # Unreadable
  BY <1>1, Zenon DEF ProcessIncludes
<1>3. p = [main EXCEPT !.preboot = Prefer(m.preboot, main.preboot, <<>>),
                       !.steps = Prefer(m.steps, main.steps, <<>>),
                       !.panic = Prefer(m.panic, main.panic, <<>>),
                       !.serial = Prefer(m.serial, main.serial, ""),
                       !.args = m.args]
  BY <1>2 DEF ProcessIncludes, Nothing, MergeAll
<1> HIDE DEF m
<1>4. main = [name |-> main.name, delay |-> main.delay,
              preboot |-> main.preboot, steps |-> main.steps,
              panic |-> main.panic, serial |-> main.serial,
              args |-> main.args]
  BY DEF AnyTest
<1>5. p = [name |-> main.name, delay |-> main.delay,
           preboot |-> Prefer(m.preboot, main.preboot, <<>>),
           steps |-> Prefer(m.steps, main.steps, <<>>),
           panic |-> Prefer(m.panic, main.panic, <<>>),
           serial |-> Prefer(m.serial, main.serial, ""),
           args |-> m.args]
  BY <1>3, <1>4
<1> DEFINE timed == [i \in DOMAIN p.preboot |->
                       IF p.preboot[i].timeout > 0 THEN p.preboot[i]
                       ELSE [p.preboot[i] EXCEPT !.timeout = 30]]
<1>6. t = [p EXCEPT !.preboot = timed]
  BY <1>1, Zenon DEF WithDefaults
<1> HIDE DEF p, t, timed
<1>7. /\ t.name = p.name /\ t.delay = p.delay /\ t.steps = p.steps
      /\ t.panic = p.panic /\ t.serial = p.serial /\ t.args = p.args
      /\ t.preboot = timed
  BY <1>5, <1>6
<1>8. /\ p.name = main.name /\ p.delay = main.delay
      /\ p.preboot = Prefer(m.preboot, main.preboot, <<>>)
      /\ p.steps = Prefer(m.steps, main.steps, <<>>)
      /\ p.panic = Prefer(m.panic, main.panic, <<>>)
      /\ p.serial = Prefer(m.serial, main.serial, "")
      /\ p.args = m.args
  BY <1>5
<1>9. FieldsOf(t, p, m, main)
  BY <1>1, <1>7, <1>8, Zenon DEF FieldsOf, timed
<1> QED
  BY <1>2, <1>9, Zenon DEF p, t, m

(* The fields of what the loop starts with, and of what a round leaves.    *)
LEMMA NothingMerged ==
  ASSUME NEW main, NEW m, m = Nothing(main)
  PROVE  /\ m.preboot = <<>> /\ m.steps = <<>> /\ m.panic = <<>>
         /\ m.serial = "" /\ m.args = main.args
BY DEF Nothing

(* mergeInclude takes over a field that an include gives.                  *)
LEMMA IncludeMerged ==
  ASSUME NEW m, NEW inc, NEW merged, merged = MergeInclude(m, inc)
  PROVE  /\ merged.preboot = Prefer(m.preboot, inc.preboot, <<>>)
         /\ merged.steps = Prefer(m.steps, inc.steps, <<>>)
         /\ merged.panic = Prefer(m.panic, inc.panic, <<>>)
         /\ merged.serial = Prefer(m.serial, inc.serial, "")
         /\ merged.args = m.args \o inc.args
BY DEF MergeInclude

(* The fields of the merged includes.                                      *)
FieldRounds(m, n, main, includes) ==
  /\ m[n] = MergeAll(Nothing(main), includes)
  /\ Grows(m, n, includes, "preboot", <<>>)
  /\ Grows(m, n, includes, "steps", <<>>)
  /\ Grows(m, n, includes, "panic", <<>>)
  /\ Grows(m, n, includes, "serial", "")
  /\ m[0].args = main.args
  /\ \A k \in 1..n : m[k].args = m[k - 1].args \o includes[k].args

(* The loop goes through them one by one.                                  *)
LEMMA MergeSteps ==
  ASSUME NEW n \in Nat, NEW main, NEW includes, DOMAIN includes = 1..n
  PROVE  \E m : FieldRounds(m, n, main, includes)
<1> PICK m : Rounds(m, n, Nothing(main), includes)
  BY FoldOfIncludes
<1>1. /\ m[0] = Nothing(main) /\ m[n] = MergeAll(Nothing(main), includes)
      /\ \A k \in 1..n : m[k] = MergeInclude(m[k - 1], includes[k])
  BY Zenon DEF Rounds
<1>2. /\ m[0].preboot = <<>> /\ m[0].steps = <<>> /\ m[0].panic = <<>>
      /\ m[0].serial = "" /\ m[0].args = main.args
  BY <1>1, NothingMerged, Zenon
<1>3. ASSUME NEW k \in 1..n
      PROVE  /\ m[k].preboot
                  = Prefer(m[k - 1].preboot, includes[k].preboot, <<>>)
             /\ m[k].steps = Prefer(m[k - 1].steps, includes[k].steps, <<>>)
             /\ m[k].panic = Prefer(m[k - 1].panic, includes[k].panic, <<>>)
             /\ m[k].serial
                  = Prefer(m[k - 1].serial, includes[k].serial, "")
             /\ m[k].args = m[k - 1].args \o includes[k].args
  <2> DEFINE merged == m[k]
             before == m[k - 1]
             inc == includes[k]
  <2>1. merged = MergeInclude(before, inc)
    BY <1>1, Zenon
  <2> HIDE DEF merged, before, inc
  <2>2. /\ merged.preboot = Prefer(before.preboot, inc.preboot, <<>>)
        /\ merged.steps = Prefer(before.steps, inc.steps, <<>>)
        /\ merged.panic = Prefer(before.panic, inc.panic, <<>>)
        /\ merged.serial = Prefer(before.serial, inc.serial, "")
        /\ merged.args = before.args \o inc.args
    BY <2>1, IncludeMerged, Zenon
  <2> QED
    BY <2>2, Zenon DEF merged, before, inc
<1>4. FieldRounds(m, n, main, includes)
  BY <1>1, <1>2, <1>3, Zenon DEF FieldRounds, Grows
<1> QED
  BY <1>4, Zenon

(* The arguments add up, those of the main file first.                     *)
AllArguments(main, includes) ==
  <<main.args>> \o [i \in DOMAIN includes |-> includes[i].args]
ArgumentsGrow(m, n, main, includes) ==
  /\ m[0] = main.args
  /\ \A k \in 1..n : m[k] = m[k - 1] \o includes[k].args

(* If they grow like that, they are all arguments in a row.                *)
LEMMA ArgumentsMerged ==
  ASSUME NEW names, NEW main \in AnyTest(names), NEW n \in Nat,
         NEW includes \in Seq(AnyTest(names)), n = Len(includes),
         NEW m, ArgumentsGrow(m, n, main, includes)
  PROVE  m[n] = FlattenSeq(AllArguments(main, includes))
<1> DEFINE rest == [i \in DOMAIN includes |-> includes[i].args]
           seqs == <<main.args>> \o rest
<1>1. main.args \in Seq(names) /\ rest \in Seq(Seq(names)) /\ Len(rest) = n
  <2>1. \A test \in AnyTest(names) : test.args \in Seq(names)
    BY DEF AnyTest
  <2>2. DOMAIN includes = 1..n /\ \A i \in 1..n : includes[i] \in AnyTest(names)
    OBVIOUS
  <2>3. \A i \in 1..n : includes[i].args \in Seq(names)
    BY <2>1, <2>2
  <2>4. rest \in [1..n -> Seq(names)]
    BY <2>2, <2>3, Zenon
  <2> HIDE DEF rest
  <2> QED
    BY <2>1, <2>4
<1>2. \A k \in 1..n : rest[k] = includes[k].args
  OBVIOUS
<1> HIDE DEF rest
<1>3. /\ Len(seqs) = n + 1 /\ seqs[1] = main.args
      /\ \A k \in 1..n : seqs[k + 1] = rest[k]
  BY <1>1
<1> HIDE DEF seqs
<1>4. m[0] = seqs[1] /\ \A k \in 1..n : m[k] = m[k - 1] \o seqs[k + 1]
  BY <1>2, <1>3, Zenon DEF ArgumentsGrow
<1>5. m[n] = FlattenSeq(seqs)
  BY <1>3, <1>4, ArgumentsAddUp, Zenon
<1> QED
  BY <1>5 DEF seqs, rest, AllArguments

(* A sequence without u, and an element of one.                            *)
LEMMA NoneOf ==
  ASSUME NEW S, NEW u, NEW s \in Seq(S \cup {u}),
         \A i \in DOMAIN s : s[i] # u
  PROVE  s \in Seq(S)
OBVIOUS

LEMMA ElementOf ==
  ASSUME NEW S, NEW s \in Seq(S), NEW i \in DOMAIN s
  PROVE  s[i] \in S
OBVIOUS

(* Steps that come from one of the files are steps.                        *)
LEMMA StepsOfFiles ==
  ASSUME NEW names, NEW n \in Nat, NEW fields, DOMAIN fields = 1..n,
         \A i \in 1..n : fields[i] \in AnySteps(names)
  PROVE  LastGiven(fields, <<>>) \in AnySteps(names)
<1>1. <<>> \in AnySteps(names)
  BY DEF AnySteps
<1> QED
  BY <1>1, LastIsOne, Zenon

(* processIncludes and validate, for any number of includes with any of    *)
(* their fields given: later includes win over earlier ones and the main   *)
(* file over all, preboot steps keep or get their timeouts, extra_args add up,*)
(* and every step that is left has a timeout.                              *)
THEOREM MergeInOrder ==
  ASSUME NEW names, NEW main \in AnyTest(names),
         NEW includes \in Seq(AnyTest(names) \cup {Unreadable})
  PROVE  MergedInOrder(main, includes)
<1> DEFINE t == LoadTest(main, includes)
           p == ProcessIncludes(main, includes)
           all == Append(includes, main)
           last == MergeAll(Nothing(main), includes)
           Field(f) == FieldOf(all, f)
<1>1. SUFFICES ASSUME t # Unreadable
               PROVE  /\ Timed(t.preboot) /\ Timed(t.steps) /\ Timed(t.panic)
                      /\ Len(t.steps) > 0
                      /\ t.name = main.name /\ t.delay = main.delay
                      /\ TimedAsGiven(t.preboot,
                                      LastGiven(Field("preboot"), <<>>))
                      /\ t.steps = LastGiven(Field("steps"), <<>>)
                      /\ t.panic = LastGiven(Field("panic"), <<>>)
                      /\ t.serial = LastGiven(Field("serial"), "")
                      /\ t.args = FlattenSeq(<<main.args>>
                           \o [i \in DOMAIN includes |-> includes[i].args])
  BY Zenon DEF MergedInOrder, FieldOf
<1>2. /\ FieldsOf(t, p, last, main)
      /\ \A i \in DOMAIN includes : includes[i] # Unreadable
  BY <1>1, MergedFields, Zenon
<1> PICK n \in Nat : n = Len(includes)
  OBVIOUS
<1>3. includes \in Seq(AnyTest(names)) /\ DOMAIN includes = 1..n
  BY <1>2, NoneOf
<1>4. /\ DOMAIN all = 1..(n + 1) /\ all[n + 1] = main
      /\ \A k \in 1..n : all[k] = includes[k]
      /\ \A i \in DOMAIN all : all[i] \in AnyTest(names)
  BY <1>3
<1> HIDE DEF t, p, last, all
<1> PICK m : FieldRounds(m, n, main, includes)
  BY <1>3, MergeSteps
<1>5. m[n] = last
  BY Zenon DEF FieldRounds, last
<1>6. /\ p.preboot = LastGiven(Field("preboot"), <<>>)
      /\ p.steps = LastGiven(Field("steps"), <<>>)
      /\ p.panic = LastGiven(Field("panic"), <<>>)
      /\ t.serial = LastGiven(Field("serial"), "")
  <2>1. /\ Grows(m, n, includes, "preboot", <<>>)
        /\ Grows(m, n, includes, "steps", <<>>)
        /\ Grows(m, n, includes, "panic", <<>>)
        /\ Grows(m, n, includes, "serial", "")
    BY Zenon DEF FieldRounds
  <2>2. ASSUME NEW f, NEW none, Grows(m, n, includes, f, none)
        PROVE  LastGiven(Field(f), none) = Prefer(last[f], main[f], none)
    <3>1. LastGiven(Field(f), none) = Prefer(m[n][f], main[f], none)
      BY <1>3, <2>2, MainFileWins DEF all
    <3> QED
      BY <1>5, <3>1, Zenon
  <2> HIDE DEF Field
  <2>3. /\ LastGiven(Field("preboot"), <<>>)
             = Prefer(last["preboot"], main["preboot"], <<>>)
        /\ LastGiven(Field("steps"), <<>>)
             = Prefer(last["steps"], main["steps"], <<>>)
        /\ LastGiven(Field("panic"), <<>>)
             = Prefer(last["panic"], main["panic"], <<>>)
        /\ LastGiven(Field("serial"), "")
             = Prefer(last["serial"], main["serial"], "")
    BY <2>1, <2>2, Zenon
  <2> QED
    BY <1>2, <2>3, Zenon DEF FieldsOf
<1>7. p.preboot \in AnySteps(names) /\ p.steps \in AnySteps(names)
  <2>1. \A i \in 1..(n + 1) : /\ Field("preboot")[i] \in AnySteps(names)
                              /\ Field("steps")[i] \in AnySteps(names)
    <3>1. ASSUME NEW test \in AnyTest(names)
          PROVE  /\ test["preboot"] \in AnySteps(names)
                 /\ test["steps"] \in AnySteps(names)
      BY DEF AnyTest
    <3> QED
      BY <1>4, <3>1, Zenon DEF FieldOf
  <2>2. /\ DOMAIN Field("preboot") = 1..(n + 1)
        /\ DOMAIN Field("steps") = 1..(n + 1) /\ n + 1 \in Nat
    BY <1>4 DEF FieldOf
  <2> HIDE DEF Field
  <2> QED
    BY <1>6, <2>1, <2>2, StepsOfFiles
<1>8. t.args = FlattenSeq(<<main.args>>
                 \o [i \in DOMAIN includes |-> includes[i].args])
  <2> DEFINE a == [k \in 0..n |-> m[k].args]
  <2>1. 0 \in 0..n /\ n \in 0..n
        /\ \A k \in 1..n : k \in 0..n /\ k - 1 \in 0..n
    OBVIOUS
  <2>2. a[n] = last.args /\ ArgumentsGrow(a, n, main, includes)
    BY <1>5, <2>1, Zenon DEF FieldRounds, ArgumentsGrow
  <2> HIDE DEF a
  <2>3. a[n] = FlattenSeq(AllArguments(main, includes))
    BY <1>3, <2>2, ArgumentsMerged
  <2> QED
    BY <1>2, <2>2, <2>3, Zenon DEF FieldsOf, AllArguments
<1>9. Timed(t.preboot) /\ TimedAsGiven(t.preboot, p.preboot)
  <2>1. DOMAIN t.preboot = DOMAIN p.preboot
    BY <1>2, Zenon DEF FieldsOf
  <2>2. ASSUME NEW i \in DOMAIN p.preboot
        PROVE  /\ t.preboot[i].timeout > 0
               /\ t.preboot[i].action = p.preboot[i].action
               /\ t.preboot[i].timeout = IF p.preboot[i].timeout > 0
                                         THEN p.preboot[i].timeout ELSE 30
    <3> PICK q \in AnySteps(names) : q = p.preboot
      BY <1>7
    <3> DEFINE s == q[i]
               timed == t.preboot[i]
    <3>1. timed = IF s.timeout > 0 THEN s ELSE [s EXCEPT !.timeout = 30]
      BY <1>2, Zenon DEF FieldsOf
    <3>2. s \in [action : names, timeout : Int]
      BY ElementOf, Zenon DEF AnySteps
    <3> HIDE DEF s, timed
    <3>3. /\ timed.timeout > 0 /\ timed.action = s.action
          /\ timed.timeout = IF s.timeout > 0 THEN s.timeout ELSE 30
      BY <3>1, <3>2
    <3> QED
      BY <3>3, Zenon DEF s, timed
  <2> QED
    BY <2>1, <2>2, Zenon DEF Timed, TimedAsGiven
<1>10. Timed(t.steps) /\ Timed(t.panic) /\ Len(t.steps) > 0
  <2>1. /\ t.steps = p.steps /\ t.panic = p.panic
        /\ Timed(p.steps) /\ Timed(p.panic) /\ p.steps # <<>>
    BY <1>2, Zenon DEF FieldsOf, ValidTest
  <2>2. Len(p.steps) > 0
    BY <1>7, <2>1 DEF AnySteps
  <2> QED
    BY <2>1, <2>2
<1>11. TimedAsGiven(t.preboot, LastGiven(Field("preboot"), <<>>))
  BY <1>6, <1>9, Zenon
<1> QED
  BY <1>2, <1>6, <1>8, <1>9, <1>10, <1>11, Zenon DEF FieldsOf

(* Sequences of at most two elements.                                      *)
LEMMA ShortSequences ==
  ASSUME NEW S, NEW a \in S, NEW b \in S
  PROVE  <<a>> \in Seq(S) /\ <<a, b>> \in Seq(S)
OBVIOUS

(* The empty sequence is one over any set.                                 *)
LEMMA EmptySequence == ASSUME NEW S PROVE <<>> \in Seq(S)
OBVIOUS

(* The definitions of the parts' behaviours are such definitions.         *)
LEMMA SampleSteps ==
  ASSUME NEW names, NEW f \in names, NEW timeout \in Nat
  PROVE  StepOf(f, timeout) \in AnySteps(names)
BY DEF StepOf, AnySteps

(* The delay of the instance is a number.                                  *)
LEMMA SampleDelays == {1} \subseteq Int
OBVIOUS

(* The definitions of the instance are test definitions.                   *)
LEMMA SampleDefinitions ==
  ASSUME NEW names, "" \in names, NEW f \in names
  PROVE  Definitions(f) \subseteq AnyTest(names)
<1>0. /\ {f, ""} \subseteq names /\ {1} \subseteq Int
      /\ {<<f>>, <<>>} \subseteq Seq(names)
  <2>1. <<f>> \in Seq(names) /\ <<>> \in Seq(names)
    BY ShortSequences, EmptySequence, Zenon
  <2> QED
    BY <2>1, SampleDelays, Zenon
<1> DEFINE s == StepOf(f, 60)
           s0 == StepOf(f, 0)
           s1 == StepOf(f, IF f = "one" THEN 45 ELSE 0)
           none == <<>>
<1>1. /\ {s1, none} \subseteq AnySteps(names)
      /\ {s, none} \subseteq AnySteps(names)
      /\ {s, s0, none} \subseteq AnySteps(names)
  <2>1. none \in AnySteps(names)
    BY Zenon, EmptySequence DEF AnySteps
  <2>2. /\ s \in AnySteps(names) /\ s0 \in AnySteps(names)
        /\ s1 \in AnySteps(names)
    BY SampleSteps
  <2> HIDE DEF s, s0, s1, none
  <2> QED
    BY <2>1, <2>2
<1>2. Definitions(f) =
        [name : {f, ""}, delay : {1}, preboot : {s1, none}, steps : {s, none},
         panic : {s, s0, none}, serial : {f, ""}, args : {<<f>>, <<>>}]
  BY Zenon DEF Definitions
<1> DEFINE N == {f, ""}
           D == {1}
           P == {s1, none}
           S == {s, none}
           A == {s, s0, none}
           G == {<<f>>, <<>>}
<1>3. Definitions(f) = [name : N, delay : D, preboot : P, steps : S,
                        panic : A, serial : N, args : G]
  BY <1>2, Zenon
<1>4. /\ N \subseteq names /\ D \subseteq Int /\ P \subseteq AnySteps(names)
      /\ S \subseteq AnySteps(names) /\ A \subseteq AnySteps(names)
      /\ G \subseteq Seq(names)
  BY <1>0, <1>1, Zenon
<1> HIDE DEF N, D, P, S, A, G, s, s0, s1, none
<1>5. ASSUME NEW test \in Definitions(f) PROVE test \in AnyTest(names)
  <2>1. test \in [name : N, delay : D, preboot : P, steps : S, panic : A,
                  serial : N, args : G]
    BY <1>3, Zenon
  <2> QED
    BY <1>4, <2>1, Zenon DEF AnyTest
<1> QED
  BY <1>5, Zenon

(* And so for the definitions of the parts' behaviours.                    *)
THEOREM MergeCorrect == Spec => []MergesInOrder
<1> DEFINE names == {"main", "one", "two", ""}
           Readings == AnyTest(names) \cup {Unreadable}
           Given == part = "tests" => /\ sample.main \in AnyTest(names)
                                      /\ sample.includes \in Seq(Readings)
<1>1. ASSUME NEW test \in Tests
      PROVE  test.main \in AnyTest(names) /\ test.includes \in Seq(Readings)
  <2>1. /\ Definitions("main") \subseteq AnyTest(names)
        /\ Included("one") \subseteq AnyTest(names)
        /\ Included("two") \subseteq AnyTest(names)
    BY SampleDefinitions DEF Included
  <2>2. /\ test.main \in Definitions("main")
        /\ \/ test.includes = <<>> \/ test.includes = <<Unreadable>>
           \/ \E one \in Included("one"), two \in Included("two") :
                test.includes = <<one, two>>
    BY DEF Tests
  <2> HIDE DEF names
  <2>3. \/ test.includes = <<>> \/ test.includes = <<Unreadable>>
        \/ \E one \in Readings, two \in Readings : test.includes = <<one, two>>
    BY <2>1, <2>2, Zenon
  <2>4. Unreadable \in Readings
    BY Zenon
  <2> HIDE DEF Readings
  <2>5. test.includes \in Seq(Readings)
    BY <2>3, <2>4, ShortSequences, EmptySequence, Zenon
  <2> QED
    BY <2>1, <2>2, <2>5, Zenon
<1> HIDE DEF names
<1>2. Init => Given
  BY <1>1 DEF Init
<1>3. Given /\ [Next]_<<partsvars, part, sample>> => Given'
  BY DEF Next
<1>4. Given => MergesInOrder
  BY MergeInOrder DEF MergesInOrder
<1> QED
  BY <1>2, <1>3, <1>4, PTL DEF Spec

---------------------------------------------------------------------------
(* The connection of an image                                              *)

(* Every connection a file can give: any names of methods, any ports.      *)
AnyConnection(names) ==
  [exec : names, file : names,
   user : BOOLEAN, password : BOOLEAN, key : BOOLEAN, tls : BOOLEAN,
   port : Int, ssh : Int, winrm : Int]

(* A port is that of the file, if it is one, or a default.                 *)
LEMMA PortGiven ==
  ASSUME NEW c, c.port \in Int, NEW method, NEW given \in Int,
         NEW default \in Nat \ {0}
  PROVE  Port(c, method, given, default) \in Nat \ {0}
BY DEF Port

(* ImageConfig.validate accepts only connections, whatever their methods    *)
(* and ports, that every transport can be made from.                       *)
THEOREM ConnectionReady ==
  ASSUME NEW names, "ssh" \in names, NEW given \in AnyConnection(names)
  PROVE  ReadyToConnect(given)
<1> DEFINE d == DefaultMethods(given)
           ssh == Port(d, "ssh", d.ssh, 22)
           winrm == Port(d, "winrm", d.winrm, IF d.tls THEN 5986 ELSE 5985)
           c == [d EXCEPT !.ssh = ssh, !.winrm = winrm]
<1>1. d \in AnyConnection(names)
  <2> DEFINE exec == IF given.exec = "" THEN "ssh" ELSE given.exec
             file == IF given.file = "" THEN exec ELSE given.file
  <2>1. d = [given EXCEPT !.exec = exec, !.file = file]
    BY DEF DefaultMethods
  <2>2. exec \in names /\ file \in names
    BY DEF AnyConnection
  <2> HIDE DEF d, exec, file
  <2> QED
    BY <2>1, <2>2 DEF AnyConnection
<1>2. ssh \in Nat \ {0} /\ winrm \in Nat \ {0}
  BY <1>1, PortGiven DEF AnyConnection
<1>3. LoadConnection(given) # Refused =>
        /\ LoadConnection(given) = c
        /\ {d.exec, d.file} \subseteq Methods /\ Credentials(d)
  BY DEF LoadConnection
<1> HIDE DEF d, ssh, winrm
<1>4. /\ c.exec = d.exec /\ c.file = d.file
      /\ c.user = d.user /\ c.password = d.password /\ c.key = d.key
      /\ c.ssh = ssh /\ c.winrm = winrm
  BY <1>1 DEF AnyConnection
<1> HIDE DEF c
<1>5. ASSUME {d.exec, d.file} \subseteq Methods, Credentials(d),
             NEW method \in Transports(c)
      PROVE  /\ c.user /\ (c.password \/ (c.key /\ method = "ssh"))
             /\ \E f \in Forwards(c) : f.from = method /\ f.to > 0
  <2>1. method \in Methods /\ Uses(c, method) /\ Uses(d, method)
    BY <1>4, <1>5 DEF Transports, Uses
  <2>2. c.user /\ (c.password \/ (c.key /\ method = "ssh"))
    BY <1>4, <1>5, <2>1 DEF Credentials, Methods
  <2> DEFINE f == [from |-> method,
                   to |-> IF method = "ssh" THEN c.ssh ELSE c.winrm]
  <2>3. f \in Forwards(c)
    BY <2>1 DEF Forwards
  <2>4. f.from = method /\ f.to > 0
    BY <1>2, <1>4
  <2> QED
    BY <2>2, <2>3, <2>4
<1> QED
  BY <1>3, <1>5 DEF ReadyToConnect

(* Fewer methods and ports leave it a connection.                          *)
LEMMA WiderConnection ==
  ASSUME NEW names, NEW exec \in SUBSET names, NEW file \in SUBSET names,
         NEW port \in SUBSET Int, NEW ssh \in SUBSET Int,
         NEW winrm \in SUBSET Int,
         NEW c \in [exec : exec, file : file, user : BOOLEAN,
                    password : BOOLEAN, key : BOOLEAN, tls : BOOLEAN,
                    port : port, ssh : ssh, winrm : winrm]
  PROVE  c \in AnyConnection(names)
BY Zenon DEF AnyConnection

(* And so for those of the parts' behaviours.                              *)
THEOREM ConnectionsCorrect == Spec => []ConnectionsReady
<1> DEFINE Names == {"", "ssh", "winrm", "telnet", "nfs"}
           Given == part = "connections" => sample \in AnyConnection(Names)
<1>1. ASSUME NEW c \in Connections PROVE c \in AnyConnection(Names)
  <2> DEFINE exec == {"", "ssh", "winrm", "telnet"}
             file == {"", "ssh", "winrm", "nfs"}
             port == {0, 1}
             ssh == {0, 2}
             winrm == {0, 3}
  <2>1. Connections = [exec : exec, file : file, user : BOOLEAN,
                       password : BOOLEAN, key : BOOLEAN, tls : BOOLEAN,
                       port : port, ssh : ssh, winrm : winrm]
    BY Zenon DEF Connections
  <2>2. /\ exec \in SUBSET Names /\ file \in SUBSET Names
        /\ port \in SUBSET Int /\ ssh \in SUBSET Int
        /\ winrm \in SUBSET Int
    OBVIOUS
  <2> HIDE DEF Names, exec, file, port, ssh, winrm
  <2> QED
    BY <2>1, <2>2, WiderConnection
<1>2. Init => Given
  BY <1>1 DEF Init
<1>3. Given /\ [Next]_<<partsvars, part, sample>> => Given'
  BY DEF Next
<1>4. Given => ConnectionsReady
  BY ConnectionReady DEF ConnectionsReady
<1> QED
  BY <1>2, <1>3, <1>4, PTL DEF Spec
==============================================================================
