---------------------------- MODULE ReadingProofs ----------------------------
(***************************************************************************)
(* Reading a case, part by part, as the reading run checks it: the texts   *)
(* of the pages (PageReading), the model's calls (ModelCalls), the groups  *)
(* (Grouping), the amounts of a document (DocumentReading) and its stubs   *)
(* (PayStubs). Each part is proved on its own specification; they share no *)
(* variable.                                                               *)
(***************************************************************************)
EXTENDS PageReading, ModelCalls, Grouping, DocumentReading, PayStubs, OrderLemmas

(***************************************************************************)
(* The page texts, for any number of pages and any OCR or vision answers:  *)
(* the types, which image the text in use was read off, and that reliable  *)
(* text is never shortened. Which image is kept page by page: a page read  *)
(* again is read from the image it has at that moment, and what a vision   *)
(* read adds is of the image it was shown.                                 *)
(***************************************************************************)
HasVision(r) == \E i \in DOMAIN r.text : r.text[i] = "vision"

FromImage(p) ==
  \A img \in read[p].from \ {image[p]} :
    p \in kept /\ image[p] = "corrected" /\ vision[p].shown = img /\ HasVision(read[p])

PageInv == TypeOK /\ \A p \in Page : FromImage(p)

-----------------------------------------------------------------------------
(* The phases by number.                                                   *)
LEMMA PhaseNumbers ==
  /\ Len(Phase) = 9
  /\ Phase[1] = "open" /\ Phase[2] = "ocr" /\ Phase[3] = "probe" /\ Phase[4] = "tier2" /\ Phase[5] = "queue"
  /\ Phase[6] = "layer" /\ Phase[7] = "vision" /\ Phase[8] = "write" /\ Phase[9] = "done"
BY DEF Phase

LEMMA PhaseAt ==
  ASSUME phase \in 1..Len(Phase)
  PROVE  /\ At("open") => phase = 1 
         /\ At("ocr") => phase = 2
         /\ At("probe") => phase = 3
         /\ At("tier2") => phase = 4
         /\ At("queue") => phase = 5
         /\ At("layer") => phase = 6
         /\ At("vision") => phase = 7
         /\ At("write") => phase = 8
         /\ At("done") => phase = 9
<1>1. phase \in {1, 2, 3, 4, 5, 6, 7, 8, 9}
  BY PhaseNumbers
<1>. QED
  BY <1>1, PhaseNumbers DEF At

(* Folding a page in moves to the next page or to the next phase.          *)
LEMMA NextPageMoves ==
  ASSUME PageInv, NextPage, phase < 9
  PROVE  /\ phase' \in 1..Len(Phase) /\ at' \in Page
         /\ \/ phase' = phase /\ at' = at + 1 /\ at # Pages
            \/ phase' = phase + 1 /\ at' = 1 /\ at = Pages
BY PhaseNumbers, PagesAssumption DEF PageInv, TypeOK, NextPage, Page

(* What a tier may answer is a read of the image it was given.             *)
LEMMA OcrResultType ==
  ASSUME NEW o \in OcrRead, NEW img \in {"scanned", "corrected"}
  PROVE  OcrResult(o, img) \in Read /\ OcrResult(o, img).from = {img}
<1>1. o \in [len : Length, score : Score, flags : SUBSET ServiceFlag, signs : SUBSET Sign, ext : BOOLEAN]
  BY ReadAssumption
<1>2. (IF o.len = 0 THEN <<>> ELSE <<"ocr">>) \in Seq({"ocr", "glm", "layer", "vision"})
  <2>1. <<>> \in Seq({"ocr", "glm", "layer", "vision"})
    OBVIOUS
  <2>2. <<"ocr">> \in Seq({"ocr", "glm", "layer", "vision"})
    OBVIOUS
  <2>. QED
    BY <2>1, <2>2
<1>3. o.flags \cup (IF o.ext THEN {"failed"} ELSE {}) \in SUBSET Flag
  BY <1>1 DEF Flag, ServiceFlag
<1>. QED
  BY <1>1, <1>2, <1>3 DEF OcrResult, Read

LEMMA NoReadType == NoRead \in Read
<1>1. <<>> \in Seq({"ocr", "glm", "layer", "vision"})
  OBVIOUS
<1>2. {"failed"} \in SUBSET Flag
  BY DEF Flag, ServiceFlag
<1>. QED
  BY <1>1, <1>2 DEF NoRead, Read, Length, Score, NoScore

LEMMA FirstTierType ==
  ASSUME NEW img \in {"scanned", "corrected"}, NEW r \in FirstTier(img)
  PROVE  r \in Read /\ r.from \subseteq {img}
<1>1. CASE \E o \in OcrRead : r = OcrResult(o, img)
  BY <1>1, OcrResultType
<1>2. CASE r = NoRead
  BY <1>2, NoReadType DEF NoRead
<1>. QED
  BY <1>1, <1>2 DEF FirstTier

LEMMA SecondTierType ==
  ASSUME NEW img \in {"scanned", "corrected"}, NEW r \in SecondTier(img)
  PROVE  r \in Read /\ r.from \subseteq {img}
<1>1. CASE r \in FirstTier(img)
  BY <1>1, FirstTierType
<1>2. CASE \E o \in OcrRead :
             r = [OcrResult(o, img) EXCEPT !.text = <<"glm">>, !.flags = o.flags \cup {"glm"},
                                           !.score = CompositeOf(o), !.ext = o.score = NoScore]
  <2>1. PICK o \in OcrRead :
          r = [OcrResult(o, img) EXCEPT !.text = <<"glm">>, !.flags = o.flags \cup {"glm"},
                                        !.score = CompositeOf(o), !.ext = o.score = NoScore]
    BY <1>2
  <2>2. o.flags \cup {"glm"} \in SUBSET Flag
    BY ReadAssumption DEF Flag, ServiceFlag, Provenance
  <2>3. <<"glm">> \in Seq({"ocr", "glm", "layer", "vision"})
    OBVIOUS
  <2>4. OcrResult(o, img) \in Read /\ OcrResult(o, img).from = {img}
    BY OcrResultType
  <2>5. (o.score = NoScore) \in BOOLEAN /\ CompositeOf(o) \in Score
    BY ReadAssumption DEF CompositeOf, Score, NoScore
  <2>. QED
    BY <2>1, <2>2, <2>3, <2>4, <2>5 DEF Read
<1>. QED
  BY <1>1, <1>2 DEF SecondTier

(* Every flag the phases add is one.                                       *)
LEMMA AddedFlags ==
  /\ Provenance \subseteq Flag
  /\ \A s \in Sign : FlagOfSign(s) \in Flag
BY DEF Flag

LEMMA LayerTextType ==
  ASSUME NEW r \in Read
  PROVE  LayerText(r) \in Read /\ LayerText(r).from = {}
<1>1. <<"layer">> \in Seq({"ocr", "glm", "layer", "vision"})
  OBVIOUS
<1>2. r.flags \cup {"text_layer"} \in SUBSET Flag
  BY AddedFlags DEF Read, Provenance
<1>3. 4 \in Length
  BY DEF Length
<1>. QED
  BY <1>1, <1>2, <1>3 DEF LayerText, Read

Transcript == [shown : {"scanned", "corrected"}, len : Length]

LEMMA ShownType ==
  ASSUME NEW p \in Page, image[p] \in {"scanned", "corrected"},
         NEW v \in [shown : {VisionImage(p)}, len : VisionLen \cup {0}]
  PROVE  v \in Transcript /\ v.shown = VisionImage(p)
<1>1. VisionImage(p) \in {"scanned", "corrected"}
  BY DEF VisionImage
<1>2. VisionLen \cup {0} \subseteq Length
  BY ReadAssumption DEF Length
<1>. HIDE DEF VisionImage
<1>3. v.shown = VisionImage(p) /\ v.len \in VisionLen \cup {0}
  OBVIOUS
<1>4. v = [shown |-> v.shown, len |-> v.len]
  OBVIOUS
<1>. QED
  BY <1>1, <1>2, <1>3, <1>4 DEF Transcript

(* What a merge leaves is of the images there were and, with the vision    *)
(* read in it, of the one that was shown.                                  *)
MergedFrom(m, r, v) ==
  /\ m.from \subseteq r.from \cup {v.shown}
  /\ m.from # r.from \/ HasVision(r) => HasVision(m)

LEMMA MergeType ==
  ASSUME NEW r \in Read, NEW ocrLen \in Length, NEW v \in Transcript
  PROVE  MergeVision(r, ocrLen, v) \in Read /\ MergedFrom(MergeVision(r, ocrLen, v), r, v)
<1>0. v.shown \in {"scanned", "corrected"} /\ v.len \in Length
  BY DEF Transcript
<1>1. ConfirmingRead(r, v) \in Read /\ MergedFrom(ConfirmingRead(r, v), r, v)
  <2>1. Append(r.text, "vision") \in Seq({"ocr", "glm", "layer", "vision"})
    BY DEF Read
  <2>2. r.flags \cup {"vision_appended"} \in SUBSET Flag
    BY AddedFlags DEF Read, Provenance
  <2>3. r.from \cup {v.shown} \in SUBSET {"scanned", "corrected"}
    BY <1>0 DEF Read
  <2>4. /\ ConfirmingRead(r, v).text = Append(r.text, "vision")
        /\ ConfirmingRead(r, v).from = r.from \cup {v.shown}
    BY DEF ConfirmingRead, Read
  <2>5. /\ Len(r.text) + 1 \in DOMAIN Append(r.text, "vision")
        /\ Append(r.text, "vision")[Len(r.text) + 1] = "vision"
    BY DEF Read
  <2>6. HasVision(ConfirmingRead(r, v))
    BY <2>4, <2>5 DEF HasVision
  <2>. QED
    BY <2>1, <2>2, <2>3, <2>4, <2>6 DEF ConfirmingRead, Read, MergedFrom
<1>2. ReplacedBy(r, v) \in Read /\ MergedFrom(ReplacedBy(r, v), r, v)
  <2>1. <<"vision">> \in Seq({"ocr", "glm", "layer", "vision"})
    OBVIOUS
  <2>2. r.flags \cup {"vision_fallback"} \in SUBSET Flag
    BY AddedFlags DEF Read, Provenance
  <2>3. {v.shown} \in SUBSET {"scanned", "corrected"}
    BY <1>0
  <2>4. ReplacedBy(r, v).text = <<"vision">> /\ ReplacedBy(r, v).from = {v.shown}
    BY DEF ReplacedBy, Read
  <2>5. HasVision(ReplacedBy(r, v))
    BY <2>4 DEF HasVision
  <2>. QED
    BY <1>0, <2>1, <2>2, <2>3, <2>4, <2>5 DEF ReplacedBy, Read, MergedFrom
<1>3. r \in Read /\ MergedFrom(r, r, v)
  BY DEF MergedFrom
<1>. QED
  BY <1>1, <1>2, <1>3 DEF MergeVision

(* The merge as it stands, twice, on the lengths of before.                *)
TwiceMerged(r, v) == MergeVision(MergeVision(r, r.len, v), r.len, v)

LEMMA TwiceMergedType ==
  ASSUME NEW r \in Read, NEW v \in Transcript
  PROVE  TwiceMerged(r, v) \in Read /\ MergedFrom(TwiceMerged(r, v), r, v)
<1>1. r.len \in Length
  BY DEF Read
<1>. DEFINE m == MergeVision(r, r.len, v)
<1>2. m \in Read /\ MergedFrom(m, r, v)
  BY <1>1, MergeType
<1>. HIDE DEF m
<1>3. MergeVision(m, r.len, v) \in Read /\ MergedFrom(MergeVision(m, r.len, v), m, v)
  BY <1>1, <1>2, MergeType
<1>. QED
  BY <1>2, <1>3 DEF TwiceMerged, MergedFrom, m

(* A reliable read is confirmed, replaced by a longer one, or left; none   *)
(* of the three makes it unreliable, so the second merge sees one too.     *)
LEMMA MergeIsNoShorter ==
  ASSUME NEW r \in Read, NEW l \in Length, NEW v \in Transcript, r.len >= l, ~Unreliable(r),
         r.len = l \/ r.len = v.len
  PROVE  LET m == MergeVision(r, l, v) IN
         m.len >= l /\ ~Unreliable(m) /\ (m.len = l \/ m.len = v.len)
<1>. USE DEF Length
<1>0. r.len \in Int /\ l \in Int /\ v.len \in Int
  BY DEF Read, Transcript
<1>1. ConfirmingRead(r, v).len = r.len /\ ~Unreliable(ConfirmingRead(r, v))
  BY DEF ConfirmingRead, Read, Unreliable, UnreliableFlags
<1>2. ReplacedBy(r, v).len = v.len /\ ~Unreliable(ReplacedBy(r, v))
  BY DEF ReplacedBy, Read, Unreliable, UnreliableFlags
<1>. QED
  BY <1>0, <1>1, <1>2 DEF MergeVision

LEMMA TwiceMergedIsNoShorter ==
  ASSUME NEW r \in Read, NEW v \in Transcript, ~Unreliable(r)
  PROVE  TwiceMerged(r, v).len >= r.len
<1>1. r.len \in Length /\ r.len \in Int /\ r.len >= r.len
  BY DEF Read, Length
<1>2. MergeVision(r, r.len, v) \in Read
  BY <1>1, MergeType
<1>3. LET m == MergeVision(r, r.len, v) IN
        m.len >= r.len /\ ~Unreliable(m) /\ (m.len = r.len \/ m.len = v.len)
  BY <1>1, MergeIsNoShorter
<1>4. TwiceMerged(r, v).len >= r.len
  BY <1>1, <1>2, <1>3, MergeIsNoShorter DEF TwiceMerged
<1>. QED
  BY <1>4

(* The sign found first is one of the page's.                              *)
LEMMA FirstSignIsOne ==
  ASSUME NEW r \in Read, r.signs # {}
  PROVE  FirstSign(r) \in Sign
<1>1. DOMAIN SignOrder = 1..5
  BY DEF SignOrder
<1>2. \E i \in DOMAIN SignOrder : SignOrder[i] \in r.signs
  BY DEF Read, Sign
<1>3. \E i \in DOMAIN SignOrder :
        SignOrder[i] \in r.signs /\ \A j \in 1..(i - 1) : SignOrder[j] \notin r.signs
  <2>. DEFINE In(i) == SignOrder[i] \in r.signs
  <2>1. In(1) \/ In(2) \/ In(3) \/ In(4) \/ In(5)
    BY <1>1, <1>2
  <2>. HIDE DEF In
  <2>2. \E i \in 1..5 : In(i) /\ \A j \in 1..(i - 1) : ~In(j)
    <3>1. CASE In(1)
      BY <3>1
    <3>2. CASE ~In(1) /\ In(2)
      BY <3>2
    <3>3. CASE ~In(1) /\ ~In(2) /\ In(3)
      BY <3>3
    <3>4. CASE ~In(1) /\ ~In(2) /\ ~In(3) /\ In(4)
      BY <3>4
    <3>5. CASE ~In(1) /\ ~In(2) /\ ~In(3) /\ ~In(4) /\ In(5)
      BY <3>5
    <3>. QED
      BY <2>1, <3>1, <3>2, <3>3, <3>4, <3>5
  <2>. QED
    BY <1>1, <2>2 DEF In
<1>. QED
  BY <1>3 DEF FirstSign, Sign

-----------------------------------------------------------------------------
(* A packet begins with no page read.                                      *)
LEMMA PageStart == Init => PageInv
<1>. SUFFICES ASSUME Init PROVE PageInv
  OBVIOUS
<1>1. phase \in 1..Len(Phase) /\ at \in Page
  BY PhaseNumbers, PagesAssumption DEF Init, Page
<1>2. image \in [Page -> {"scanned", "corrected"}] /\ layer \in [Page -> Layer]
  BY DEF Init
<1>3. read \in [Page -> Read]
  BY NoReadType DEF Init
<1>4. vision \in [Page -> [shown : {"nothing", "scanned", "corrected"}, len : Length]]
  BY DEF Init, NoVision, Length
<1>5. sideways \subseteq Page /\ kept \subseteq Page /\ queued \subseteq Page
  BY DEF Init
<1>6. \A p \in Page : FromImage(p)
  BY DEF Init, FromImage, NoRead
<1>. QED
  BY <1>1, <1>2, <1>3, <1>4, <1>5, <1>6 DEF PageInv, TypeOK

(* A page whose images and texts a step leaves alone.                      *)
LEMMA SameImage ==
  ASSUME NEW p \in Page, FromImage(p), UNCHANGED kept, read'[p].from = read[p].from,
         read'[p].text = read[p].text, image'[p] = image[p], vision'[p] = vision[p]
  PROVE  FromImage(p)'
BY DEF FromImage, HasVision

(* A page read from the image it has, or from none.                        *)
LEMMA OwnImage ==
  ASSUME NEW p \in Page, read'[p].from \subseteq {image'[p]}
  PROVE  FromImage(p)'
BY DEF FromImage

(* A page the vision phase has merged.                                     *)
LEMMA VisionFrom ==
  ASSUME NEW p \in Page, FromImage(p), UNCHANGED <<kept, image>>, NEW v \in Transcript,
         read[p].from \in SUBSET {"scanned", "corrected"}, image[p] \in {"scanned", "corrected"},
         v.shown = VisionImage(p), vision'[p] = v, MergedFrom(read'[p], read[p], v)
  PROVE  FromImage(p)'
<1>. SUFFICES ASSUME NEW img \in read'[p].from, img # image[p]
              PROVE  p \in kept /\ image[p] = "corrected" /\ v.shown = img /\ HasVision(read'[p])
  BY DEF FromImage, HasVision
<1>1. CASE img \in read[p].from
  <2>1. p \in kept /\ image[p] = "corrected" /\ HasVision(read[p])
    BY <1>1 DEF FromImage
  <2>2. img = "scanned" /\ v.shown = "scanned"
    BY <1>1, <2>1 DEF VisionImage
  <2>. QED
    BY <2>1, <2>2 DEF MergedFrom
<1>2. CASE img \notin read[p].from
  <2>1. img = v.shown /\ HasVision(read'[p])
    BY <1>2 DEF MergedFrom
  <2>2. p \in kept /\ img = "scanned"
    BY <2>1 DEF VisionImage
  <2>. QED
    BY <2>1, <2>2
<1>. QED
  BY <1>1, <1>2

(* Every step keeps the invariant; a page that is read again is read from  *)
(* the image it has at that moment.                                        *)
LEMMA PageStepHolds == PageInv /\ [Next]_vars => PageInv'
<1>. SUFFICES ASSUME PageInv, [Next]_vars PROVE PageInv'
  OBVIOUS
<1>. USE DEF PageInv
<1>0. phase \in 1..9 /\ phase \in 1..Len(Phase) /\ at \in Page
  BY PhaseNumbers DEF TypeOK
<1>t. /\ sideways \subseteq Page /\ kept \subseteq Page /\ queued \subseteq Page
      /\ image \in [Page -> {"scanned", "corrected"}] /\ layer \in [Page -> Layer]
      /\ read \in [Page -> Read]
      /\ vision \in [Page -> [shown : {"nothing", "scanned", "corrected"}, len : Length]]
  BY DEF TypeOK
<1>i. image[at] \in {"scanned", "corrected"} /\ read[at] \in Read
  BY <1>0, <1>t
<1>1. CASE JudgeLayers
  <2>1. phase = 1 /\ phase' = 2 /\ at' = 1
    BY <1>0, <1>1, PhaseAt DEF JudgeLayers
  <2>2. layer' \in [Page -> Layer]
    BY <1>1, <1>t DEF JudgeLayers, Layer
  <2>3. 1 \in Page /\ \A p \in Page : ~(p < 1)
    BY PagesAssumption DEF Page
  <2>4. UNCHANGED <<sideways, image, kept, read, queued, vision>>
    BY <1>1 DEF JudgeLayers
  <2>5. TypeOK'
    BY <2>1, <2>2, <2>3, <2>4, <1>t, PhaseNumbers DEF TypeOK
  <2>6. \A p \in Page : FromImage(p)'
    BY <2>4, SameImage
  <2>. QED
    BY <2>5, <2>6
<1>2. CASE OcrPage
  <2>1. phase = 2 /\ NextPage /\ UNCHANGED <<sideways, image, kept, layer, queued, vision>>
    BY <1>0, <1>2, PhaseAt DEF OcrPage
  <2>2. /\ phase' \in 1..Len(Phase) /\ at' \in Page
        /\ \/ phase' = 2 /\ at' = at + 1 /\ at # Pages
           \/ phase' = 3 /\ at' = 1 /\ at = Pages
    BY <2>1, NextPageMoves
  <2>3. PICK r \in FirstTier(image[at]) : read' = [read EXCEPT ![at] = r]
    BY <1>2 DEF OcrPage
  <2>4. r \in Read /\ r.from \subseteq {image[at]}
    BY <2>3, <1>i, FirstTierType
  <2>5. read' \in [Page -> Read]
    BY <2>3, <2>4, <1>t
  <2>6. ASSUME NEW p \in Page PROVE FromImage(p)'
    <3>1. CASE p = at
      BY <2>1, <2>3, <2>4, <1>0, <1>t, <3>1, OwnImage
    <3>2. CASE p # at
      BY <2>1, <2>3, <1>0, <1>t, <3>2, SameImage
    <3>. QED
      BY <3>1, <3>2
  <2>. QED
    BY <2>1, <2>2, <2>5, <2>6, <1>t DEF TypeOK
<1>3. CASE ProbePage
  <2>1. phase = 3 /\ NextPage /\ UNCHANGED <<sideways, kept, layer, queued, vision>>
    BY <1>0, <1>3, PhaseAt DEF ProbePage
  <2>2. phase' \in 1..Len(Phase) /\ at' \in Page /\ phase' # 2
    BY <2>1, NextPageMoves
  <2>3. /\ read' \in [Page -> Read] /\ image' \in [Page -> {"scanned", "corrected"}]
        /\ \A p \in Page : FromImage(p)'
    <3>1. CASE UNCHANGED <<read, image>>
      BY <3>1, <2>1, <1>t, SameImage
    <3>2. CASE ~UNCHANGED <<read, image>>
      <4>1. PICK o \in OcrRead :
              /\ image' = [image EXCEPT ![at] = "corrected"]
              /\ read' = [read EXCEPT ![at] = [OcrResult(o, "corrected") EXCEPT !.flags = @ \cup {"auto_rotated"}]]
        BY <3>2, <1>3 DEF ProbePage
      <4>2. OcrResult(o, "corrected") \in Read /\ OcrResult(o, "corrected").from = {"corrected"}
        BY OcrResultType
      <4>3. OcrResult(o, "corrected").flags \cup {"auto_rotated"} \in SUBSET Flag
        BY <4>2, AddedFlags DEF Read, Provenance
      <4>. DEFINE r == [OcrResult(o, "corrected") EXCEPT !.flags = @ \cup {"auto_rotated"}]
      <4>5. r \in Read /\ r.from = {"corrected"}
        BY <4>2, <4>3 DEF Read
      <4>. HIDE DEF r
      <4>6. read' = [read EXCEPT ![at] = r]
        BY <4>1 DEF r
      <4>7. read' \in [Page -> Read]
        BY <4>5, <4>6, <1>0, <1>t
      <4>9. image' \in [Page -> {"scanned", "corrected"}]
        BY <4>1, <1>0, <1>t
      <4>8. ASSUME NEW p \in Page PROVE FromImage(p)'
        <5>2. CASE p = at
          BY <5>2, <4>1, <4>5, <4>6, <1>0, <1>t, OwnImage
        <5>3. CASE p # at
          <6>1. read'[p] = read[p]
            BY <5>3, <4>6, <1>t
          <6>2. image'[p] = image[p]
            BY <5>3, <4>1, <1>t
          <6>. QED
            BY <6>1, <6>2, <2>1, SameImage
        <5>. QED
          BY <5>2, <5>3
      <4>. QED
        BY <4>7, <4>8, <4>9
    <3>. QED
      BY <3>1, <3>2
  <2>. QED
    BY <2>1, <2>2, <2>3, <1>t DEF TypeOK
<1>4. CASE SecondTierPage
  <2>1. phase = 4 /\ NextPage /\ UNCHANGED <<sideways, image, kept, layer, queued, vision>>
    BY <1>0, <1>4, PhaseAt DEF SecondTierPage
  <2>2. phase' \in 1..Len(Phase) /\ at' \in Page /\ phase' # 2
    BY <2>1, NextPageMoves
  <2>3. read' = read \/ \E r \in Read : r.from \subseteq {image[at]} /\ read' = [read EXCEPT ![at] = r]
    <3>1. CASE Fallback /\ read[at].ext
      <4>1. PICK r \in SecondTier(image[at]) :
              read' = [read EXCEPT ![at] = IF CompositeOf(r) >= CompositeOf(@) THEN r ELSE @]
        BY <1>4, <3>1 DEF SecondTierPage
      <4>2. r \in Read /\ r.from \subseteq {image[at]}
        BY <4>1, <1>i, SecondTierType
      <4>3. CASE CompositeOf(r) >= CompositeOf(read[at])
        BY <4>1, <4>2, <4>3
      <4>4. CASE ~(CompositeOf(r) >= CompositeOf(read[at]))
        <5>1. read' = [read EXCEPT ![at] = read[at]]
          BY <4>1, <4>4
        <5>. QED
          BY <5>1, <1>0, <1>t
      <4>. QED
        BY <4>3, <4>4
    <3>2. CASE ~(Fallback /\ read[at].ext)
      BY <1>4, <3>2 DEF SecondTierPage
    <3>. QED
      BY <3>1, <3>2
  <2>4. read' \in [Page -> Read] /\ \A p \in Page : FromImage(p)'
    <3>1. CASE read' = read
      BY <3>1, <2>1, <1>t, SameImage
    <3>2. ASSUME NEW r \in Read, r.from \subseteq {image[at]}, read' = [read EXCEPT ![at] = r]
          PROVE  read' \in [Page -> Read] /\ \A p \in Page : FromImage(p)'
      <4>1. read' \in [Page -> Read]
        BY <3>2, <1>t
      <4>2. ASSUME NEW p \in Page PROVE FromImage(p)'
        <5>1. CASE p = at
          BY <2>1, <3>2, <1>t, <5>1, OwnImage
        <5>2. CASE p # at
          BY <2>1, <3>2, <1>t, <5>2, SameImage
        <5>. QED
          BY <5>1, <5>2
      <4>. QED
        BY <4>1, <4>2
    <3>. QED
      BY <2>3, <3>1, <3>2
  <2>. QED
    BY <2>1, <2>2, <2>4, <1>t DEF TypeOK
<1>5. CASE QueuePage
  <2>1. phase = 5 /\ NextPage /\ UNCHANGED <<sideways, image, kept, layer, vision>>
    BY <1>0, <1>5, PhaseAt DEF QueuePage
  <2>2. phase' \in 1..Len(Phase) /\ at' \in Page /\ phase' # 2
    BY <2>1, NextPageMoves
  <2>3. queued' \subseteq Page
    BY <1>5, <1>0, <1>t DEF QueuePage
  <2>4. read' \in [Page -> Read] /\ \A p \in Page : FromImage(p)'
    <3>1. CASE UNCHANGED read
      BY <3>1, <2>1, <1>t, SameImage
    <3>2. CASE ~UNCHANGED read
      <4>1. /\ read[at].signs # {}
            /\ read' = [read EXCEPT ![at].flags = @ \cup {FlagOfSign(FirstSign(read[at]))}]
        BY <3>2, <1>5 DEF QueuePage
      <4>2. FirstSign(read[at]) \in Sign
        BY <4>1, <1>i, FirstSignIsOne
      <4>3. read[at].flags \cup {FlagOfSign(FirstSign(read[at]))} \in SUBSET Flag
        BY <4>2, <1>i, AddedFlags DEF Read
      <4>. DEFINE r == [read[at] EXCEPT !.flags = @ \cup {FlagOfSign(FirstSign(read[at]))}]
      <4>4. r \in Read /\ r.from = read[at].from /\ r.text = read[at].text
        BY <4>3, <1>i DEF Read
      <4>5. read' = [read EXCEPT ![at] = r]
        BY <4>1
      <4>. HIDE DEF r
      <4>6. read' \in [Page -> Read]
        BY <4>4, <4>5, <1>0, <1>t
      <4>7. \A p \in Page : FromImage(p)'
        BY <4>4, <4>5, <2>1, <1>0, <1>t, SameImage
      <4>. QED
        BY <4>6, <4>7
    <3>. QED
      BY <3>1, <3>2
  <2>. QED
    BY <2>1, <2>2, <2>3, <2>4, <1>t DEF TypeOK
<1>6. CASE LayerPage
  <2>1. phase = 6 /\ NextPage /\ UNCHANGED <<sideways, image, kept, layer, vision>>
    BY <1>0, <1>6, PhaseAt DEF LayerPage
  <2>2. phase' \in 1..Len(Phase) /\ at' \in Page /\ phase' # 2
    BY <2>1, NextPageMoves
  <2>3. queued' \subseteq Page
    BY <1>6, <1>t DEF LayerPage
  <2>4. read' \in [Page -> Read] /\ \A p \in Page : FromImage(p)'
    <3>1. CASE UNCHANGED read
      BY <3>1, <2>1, <1>t, SameImage
    <3>2. CASE ~UNCHANGED read
      <4>1. read' = [read EXCEPT ![at] = LayerText(read[at])]
        BY <3>2, <1>6 DEF LayerPage
      <4>2. LayerText(read[at]) \in Read /\ LayerText(read[at]).from = {}
        BY <1>i, LayerTextType
      <4>3. read' \in [Page -> Read]
        BY <4>1, <4>2, <1>0, <1>t
      <4>4. ASSUME NEW p \in Page PROVE FromImage(p)'
        <5>1. CASE p = at
          BY <4>1, <4>2, <1>t, <5>1, OwnImage
        <5>2. CASE p # at
          BY <4>1, <2>1, <1>t, <5>2, SameImage
        <5>. QED
          BY <5>1, <5>2
      <4>. QED
        BY <4>3, <4>4
    <3>. QED
      BY <3>1, <3>2
  <2>. QED
    BY <2>1, <2>2, <2>3, <2>4, <1>t DEF TypeOK
<1>7. CASE VisionPage
  <2>1. phase = 7 /\ NextPage /\ UNCHANGED <<sideways, image, kept, layer, queued>>
    BY <1>0, <1>7, PhaseAt DEF VisionPage
  <2>2. phase' \in 1..Len(Phase) /\ at' \in Page /\ phase' # 2
    BY <2>1, NextPageMoves
  <2>3. /\ read' \in [Page -> Read] /\ \A p \in Page : FromImage(p)'
        /\ vision' \in [Page -> [shown : {"nothing", "scanned", "corrected"}, len : Length]]
    <3>1. CASE UNCHANGED <<vision, read>>
      BY <3>1, <2>1, <1>t, SameImage
    <3>2. CASE ~UNCHANGED <<vision, read>>
      <4>1. PICK v \in [shown : {VisionImage(at)}, len : VisionLen \cup {0}] :
              /\ vision' = [vision EXCEPT ![at] = v]
              /\ read' = [read EXCEPT ![at] = TwiceMerged(read[at], v)]
        BY <3>2, <1>7 DEF VisionPage, TwiceMerged
      <4>2. v \in Transcript /\ v.shown = VisionImage(at)
        BY <4>1, <1>0, <1>i, ShownType
      <4>3. TwiceMerged(read[at], v) \in Read /\ MergedFrom(TwiceMerged(read[at], v), read[at], v)
        BY <4>2, <1>i, TwiceMergedType
      <4>4. read' \in [Page -> Read]
        BY <4>1, <4>3, <1>0, <1>t
      <4>5. vision' \in [Page -> [shown : {"nothing", "scanned", "corrected"}, len : Length]]
        BY <4>1, <4>2, <1>0, <1>t DEF Transcript
      <4>6. ASSUME NEW p \in Page PROVE FromImage(p)'
        <5>1. CASE p = at
          <6>1. read'[p] = TwiceMerged(read[p], v) /\ vision'[p] = v
            BY <4>1, <5>1, <1>0, <1>t
          <6>2. read[p].from \in SUBSET {"scanned", "corrected"}
            BY <1>t DEF Read
          <6>. QED
            BY <4>2, <4>3, <5>1, <6>1, <6>2, <2>1, <1>i, VisionFrom
        <5>2. CASE p # at
          BY <4>1, <2>1, <1>t, <5>2, SameImage
        <5>. QED
          BY <5>1, <5>2
      <4>. QED
        BY <4>4, <4>5, <4>6
    <3>. QED
      BY <3>1, <3>2
  <2>. QED
    BY <2>1, <2>2, <2>3, <1>t DEF TypeOK
<1>8. CASE WritePages
  <2>1. phase = 8 /\ phase' = 9 /\ at' = 1
    BY <1>0, <1>8, PhaseAt DEF WritePages
  <2>. QED
    BY <2>1, <1>8, <1>t, PhaseNumbers, PagesAssumption, SameImage DEF WritePages, TypeOK, Page
<1>9. CASE UNCHANGED vars
  BY <1>9, SameImage DEF vars, TypeOK
<1>. QED
  BY <1>1, <1>2, <1>3, <1>4, <1>5, <1>6, <1>7, <1>8, <1>9 DEF Next, Done

-----------------------------------------------------------------------------
(* Whatever the engines, the model and the disk do, the state of the pages *)
(* is well-typed (process_pdf, pdf_service.py).                            *)
THEOREM PageTypes == Spec => []TypeOK
<1>1. PageInv => TypeOK
  BY DEF PageInv
<1>. QED
  BY PageStart, PageStepHolds, <1>1, PTL DEF Spec

(* The text in use was read off the processed image that is kept, for any  *)
(* packet and whatever the engines, the model and the disk do - the probe  *)
(* puts the turned image and its read in place together or not at all, the *)
(* second tier reads what is there then - but for a vision read of the     *)
(* colour render of a page the probe has turned (process_pdf).             *)
THEOREM TextMatchesImage == Spec => []TextIsOfTheImage
<1>1. PageInv => TextIsOfTheImage
  BY DEF PageInv, TextIsOfTheImage, FromImage, HasVision
<1>. QED
  BY PageStart, PageStepHolds, <1>1, PTL DEF Spec

(* A vision read never shortens a text that was reliable.                  *)
THEOREM ReliableTextStays == Spec => ReliableTextIsNotShortened
<1>1. PageInv /\ [Next]_vars =>
        [At("vision") => \A p \in Page : ~Unreliable(read[p]) => read'[p].len >= read[p].len]_vars
  <2>. SUFFICES ASSUME PageInv, Next, At("vision"), NEW p \in Page, ~Unreliable(read[p])
                PROVE  read'[p].len >= read[p].len
    OBVIOUS
  <2>1. phase = 7 /\ at \in Page /\ read \in [Page -> Read]
    BY PhaseAt, PhaseNumbers DEF PageInv, TypeOK
  <2>2. read[p].len \in Int
    BY <2>1 DEF Read, Length
  <2>3. CASE read' = read
    BY <2>2, <2>3
  <2>4. CASE VisionPage /\ read' # read
    <3>1. PICK v \in [shown : {VisionImage(at)}, len : VisionLen \cup {0}] :
            read' = [read EXCEPT ![at] = TwiceMerged(@, v)]
      BY <2>4 DEF VisionPage, TwiceMerged
    <3>2. v \in Transcript
      BY <2>1, <3>1, ShownType DEF PageInv, TypeOK
    <3>3. CASE p = at
      BY <3>1, <3>2, <3>3, <2>1, TwiceMergedIsNoShorter
    <3>4. CASE p # at
      BY <3>1, <3>4, <2>1, <2>2
    <3>. QED
      BY <3>3, <3>4
  <2>5. VisionPage \/ read' = read
    BY <2>1, PhaseNumbers DEF Next, JudgeLayers, OcrPage, ProbePage, SecondTierPage, QueuePage,
                              LayerPage, WritePages, Done, At, vars
  <2>. QED
    BY <2>3, <2>4, <2>5
<1>. QED
  BY PageStart, PageStepHolds, <1>1, PTL DEF Spec, ReliableTextIsNotShortened
-----------------------------------------------------------------------------
(* No doubtful read ships unquestioned. A page the gates have seen is past *)
(* doubt: they found nothing against it, it waits in the queue, or it took *)
(* the PDF's own text. The vision phase settles the queued ones, page by   *)
(* page; what it leaves as it was, it was asked about.                     *)
Unmerged(r) == r.text \in {<<>>, <<"ocr">>, <<"glm">>}
Cleared(r) == ~QuestionedByService(r) /\ r.signs = {}
NoBetter(r, len) == len = 0 \/ (len <= r.len /\ ~(Unreliable(r) /\ len >= ReplaceMin))

Seen(p) == Cleared(read[p]) \/ p \in queued \/ read[p].text = <<"layer">>
Asked(p) == Unmerged(read[p]) => Cleared(read[p]) \/ (vision[p].shown # "nothing" /\ NoBetter(read[p], vision[p].len))

DoubtInv ==
  /\ PageInv
  /\ phase = 5 => \A p \in Page : p < at => Seen(p)
  /\ phase = 6 => \A p \in Page : Seen(p)
  /\ phase = 7 => \A p \in Page : IF p < at THEN Asked(p) ELSE Seen(p)
  /\ phase > 7 => \A p \in Page : Asked(p)

(* What a merge leaves either comes from the vision read, in part or in    *)
(* whole, or is the read as it was, with a transcript no better.           *)
LEMMA MergeOrNoBetter ==
  ASSUME NEW r \in Read, NEW l \in Length, NEW v \in Transcript
  PROVE  LET m == MergeVision(r, l, v) IN
         ~Unmerged(m) \/ (m = r /\ v.len <= l /\ ~(Unreliable(r) /\ v.len >= ReplaceMin))
<1>1. ~Unmerged(ConfirmingRead(r, v))
  <2>1. Append(r.text, "vision") # <<>> /\ Append(r.text, "vision")[Len(r.text) + 1] = "vision"
        /\ Len(Append(r.text, "vision")) = Len(r.text) + 1 /\ Len(r.text) \in Nat
    BY DEF Read
  <2>2. ConfirmingRead(r, v).text = Append(r.text, "vision")
    BY DEF ConfirmingRead, Read
  <2>3. ASSUME Append(r.text, "vision") = <<>> PROVE FALSE
    BY <2>1, <2>3
  <2>4. ASSUME NEW w \in {"ocr", "glm"}, Append(r.text, "vision") = <<w>> PROVE FALSE
    <3>1. Len(<<w>>) = 1 /\ <<w>>[1] = w
      OBVIOUS
    <3>2. Len(r.text) + 1 = 1
      BY <2>1, <2>4, <3>1
    <3>3. w = "vision"
      BY <2>1, <2>4, <3>1, <3>2
    <3>. QED
      BY <3>3
  <2>. QED
    BY <2>2, <2>3, <2>4 DEF Unmerged
<1>2. ~Unmerged(ReplacedBy(r, v))
  <2>1. ReplacedBy(r, v).text = <<"vision">>
    BY DEF ReplacedBy, Read
  <2>. QED
    BY <2>1 DEF Unmerged
<1>3. l \in Int /\ v.len \in Int
  BY DEF Length, Transcript
<1>. QED
  BY <1>1, <1>2, <1>3 DEF MergeVision

LEMMA MergedIsNotPlain ==
  ASSUME NEW r \in Read, NEW l \in Length, NEW v \in Transcript, ~Unmerged(r)
  PROVE  ~Unmerged(MergeVision(r, l, v))
BY MergeOrNoBetter

LEMMA TwiceMergedOrNoBetter ==
  ASSUME NEW r \in Read, NEW v \in Transcript
  PROVE  ~Unmerged(TwiceMerged(r, v)) \/ (TwiceMerged(r, v) = r /\ NoBetter(r, v.len))
<1>1. r.len \in Length
  BY DEF Read
<1>. DEFINE m == MergeVision(r, r.len, v)
<1>2. m \in Read
  BY <1>1, MergeType
<1>3. ~Unmerged(m) \/ (m = r /\ v.len <= r.len /\ ~(Unreliable(r) /\ v.len >= ReplaceMin))
  BY <1>1, MergeOrNoBetter
<1>4. TwiceMerged(r, v) = MergeVision(m, r.len, v)
  BY DEF TwiceMerged
<1>. HIDE DEF m
<1>5. CASE ~Unmerged(m)
  BY <1>1, <1>2, <1>4, <1>5, MergedIsNotPlain
<1>6. CASE m = r /\ v.len <= r.len /\ ~(Unreliable(r) /\ v.len >= ReplaceMin)
  <2>1. ~Unmerged(MergeVision(m, r.len, v)) \/ MergeVision(m, r.len, v) = m
    BY <1>1, <1>2, MergeOrNoBetter
  <2>. QED
    BY <2>1, <1>4, <1>6 DEF NoBetter
<1>. QED
  BY <1>3, <1>5, <1>6

(* The steps of the gates, the text layer and the vision read keep it; the *)
(* ones before do not come into it, and the last writes what is there.     *)
LEMMA DoubtStart == Init => DoubtInv
BY PageStart DEF Init, DoubtInv

LEMMA DoubtStepHolds == DoubtInv /\ [Next]_vars => DoubtInv'
<1>. SUFFICES ASSUME DoubtInv, [Next]_vars PROVE DoubtInv'
  OBVIOUS
<1>0. PageInv /\ PageInv' /\ phase \in 1..9 /\ phase \in 1..Len(Phase) /\ at \in Page
  BY PageStepHolds, PhaseNumbers DEF DoubtInv, PageInv, TypeOK
<1>p. Page \subseteq Int /\ (\A p \in Page : ~(p < 1)) /\ (\A p \in Page : 1 <= p /\ p <= Pages) /\ Pages \in Nat
  BY PagesAssumption DEF Page
<1>t. read \in [Page -> Read] /\ queued \subseteq Page
      /\ vision \in [Page -> [shown : {"nothing", "scanned", "corrected"}, len : Length]]
      /\ image \in [Page -> {"scanned", "corrected"}]
  BY <1>0 DEF PageInv, TypeOK
<1>e. phase < 9 /\ NextPage => \/ phase' = phase /\ at' = at + 1 /\ at # Pages
                               \/ phase' = phase + 1 /\ at' = 1 /\ at = Pages
  BY <1>0, NextPageMoves
<1>1. CASE JudgeLayers
  <2>1. phase' = 2
    BY <1>0, <1>1, PhaseAt DEF JudgeLayers
  <2>. QED
    BY <2>1, <1>0 DEF DoubtInv
<1>2. CASE OcrPage \/ ProbePage
  <2>1. (phase = 2 \/ phase = 3) /\ NextPage
    BY <1>0, <1>2, PhaseAt DEF OcrPage, ProbePage
  <2>2. phase' \in {2, 3, 4}
    BY <2>1, <1>e
  <2>. QED
    BY <2>2, <1>0 DEF DoubtInv
<1>3. CASE SecondTierPage
  <2>1. phase = 4 /\ NextPage
    BY <1>0, <1>3, PhaseAt DEF SecondTierPage
  <2>2. phase' = 4 \/ (phase' = 5 /\ at' = 1)
    BY <2>1, <1>e
  <2>. QED
    BY <2>2, <1>0, <1>p DEF DoubtInv
<1>4. CASE QueuePage
  <2>1. phase = 5 /\ NextPage
    BY <1>0, <1>4, PhaseAt DEF QueuePage
  <2>2. (phase' = 5 /\ at' = at + 1) \/ (phase' = 6 /\ at = Pages)
    BY <2>1, <1>e
  <2>3. ASSUME NEW p \in Page, p < at \/ p = at PROVE Seen(p)'
    <3>1. CASE p = at
      <4>1. CASE ~QuestionedByService(read[at]) /\ read[at].signs = {}
        <5>1. read' = read
          BY <4>1, <1>4 DEF QueuePage
        <5>. QED
          BY <3>1, <4>1, <5>1 DEF Seen, Cleared, QuestionedByService
      <4>2. CASE ~(~QuestionedByService(read[at]) /\ read[at].signs = {})
        <5>1. queued' = queued \cup {at}
          BY <4>2, <1>4 DEF QueuePage
        <5>. QED
          BY <3>1, <5>1 DEF Seen
      <4>. QED
        BY <4>1, <4>2
    <3>2. CASE p # at
      <4>1. Seen(p)
        BY <2>1, <2>3, <3>2 DEF DoubtInv
      <4>2. read'[p] = read[p]
        BY <3>2, <1>4, <1>t DEF QueuePage
      <4>3. queued \subseteq queued'
        BY <1>4 DEF QueuePage
      <4>. QED
        BY <4>1, <4>2, <4>3 DEF Seen, Cleared, QuestionedByService
    <3>. QED
      BY <3>1, <3>2
  <2>4. CASE phase' = 5 /\ at' = at + 1
    <3>1. \A p \in Page : p < at' => p < at \/ p = at
      BY <2>4, <1>0, <1>p
    <3>. QED
      BY <2>3, <2>4, <3>1, <1>0 DEF DoubtInv
  <2>5. CASE phase' = 6 /\ at = Pages
    <3>1. \A p \in Page : p < at \/ p = at
      BY <2>5, <1>p
    <3>. QED
      BY <2>3, <2>5, <3>1, <1>0 DEF DoubtInv
  <2>. QED
    BY <2>2, <2>4, <2>5
<1>5. CASE LayerPage
  <2>1. phase = 6 /\ NextPage
    BY <1>0, <1>5, PhaseAt DEF LayerPage
  <2>2. phase' = 6 \/ (phase' = 7 /\ at' = 1)
    BY <2>1, <1>e
  <2>3. ASSUME NEW p \in Page PROVE Seen(p)'
    <3>0. Seen(p)
      BY <2>1 DEF DoubtInv
    <3>1. CASE UNCHANGED <<queued, read>>
      BY <3>0, <3>1 DEF Seen, Cleared, QuestionedByService
    <3>2. CASE ~UNCHANGED <<queued, read>>
      <4>1. queued' = queued \ {at} /\ read' = [read EXCEPT ![at] = LayerText(read[at])]
        BY <3>2, <1>5 DEF LayerPage
      <4>2. CASE p = at
        <5>1. read'[p] = LayerText(read[at])
          BY <4>1, <4>2, <1>t
        <5>2. read[at] \in Read
          BY <1>0, <1>t
        <5>3. LayerText(read[at]).text = <<"layer">>
          BY <5>2 DEF LayerText, Read
        <5>. QED
          BY <5>1, <5>3 DEF Seen
      <4>3. CASE p # at
        <5>1. read'[p] = read[p] /\ (p \in queued => p \in queued')
          BY <4>1, <4>3, <1>t
        <5>. QED
          BY <5>1, <3>0 DEF Seen, Cleared, QuestionedByService
      <4>. QED
        BY <4>2, <4>3
    <3>. QED
      BY <3>1, <3>2
  <2>. QED
    BY <2>2, <2>3, <1>0, <1>p DEF DoubtInv
<1>6. CASE VisionPage
  <2>1. phase = 7 /\ NextPage /\ UNCHANGED queued
    BY <1>0, <1>6, PhaseAt DEF VisionPage
  <2>2. (phase' = 7 /\ at' = at + 1) \/ (phase' = 8 /\ at = Pages)
    BY <2>1, <1>e
  <2>3. ASSUME NEW p \in Page, p # at
        PROVE  read'[p] = read[p] /\ vision'[p] = vision[p]
    BY <2>3, <1>6, <1>t DEF VisionPage
  <2>4. ASSUME NEW p \in Page, p < at PROVE Asked(p)'
    <3>1. p # at
      BY <2>4, <1>0, <1>p
    <3>2. Asked(p)
      BY <2>1, <2>4 DEF DoubtInv
    <3>. QED
      BY <3>1, <3>2, <2>3 DEF Asked, Unmerged, Cleared, QuestionedByService
  <2>5. Seen(at)
    <3>1. ~(at < at)
      BY <1>0, <1>p
    <3>. QED
      BY <2>1, <3>1, <1>0 DEF DoubtInv
  <2>6. ASSUME NEW p \in Page, p = at PROVE Asked(p)'
    <3>1. CASE at \in queued
      <4>1. PICK v \in [shown : {VisionImage(at)}, len : VisionLen \cup {0}] :
              /\ vision' = [vision EXCEPT ![at] = v]
              /\ read' = [read EXCEPT ![at] = TwiceMerged(read[at], v)]
        BY <3>1, <1>6 DEF VisionPage, TwiceMerged
      <4>2. read'[p] = TwiceMerged(read[at], v) /\ vision'[p] = v
        BY <4>1, <2>6, <1>t
      <4>3. v.shown # "nothing"
        BY <4>1, <1>0, <1>t DEF VisionImage
      <4>4. read[at] \in Read /\ v \in Transcript
        BY <4>1, <1>0, <1>t, ShownType DEF TypeOK
      <4>5. CASE ~Unmerged(TwiceMerged(read[at], v))
        BY <4>2, <4>5 DEF Asked, Unmerged
      <4>6. CASE TwiceMerged(read[at], v) = read[at] /\ NoBetter(read[at], v.len)
        BY <4>2, <4>3, <4>6 DEF Asked, NoBetter, Unreliable
      <4>. QED
        BY <4>4, <4>5, <4>6, TwiceMergedOrNoBetter
    <3>2. CASE at \notin queued
      <4>1. read' = read
        BY <3>2, <1>6 DEF VisionPage
      <4>2. Cleared(read[at]) \/ read[at].text = <<"layer">>
        BY <2>5, <3>2 DEF Seen
      <4>3. <<"layer">> \notin {<<>>, <<"ocr">>, <<"glm">>}
        OBVIOUS
      <4>. QED
        BY <2>6, <4>1, <4>2, <4>3 DEF Asked, Unmerged, Cleared, QuestionedByService
    <3>. QED
      BY <3>1, <3>2
  <2>7. CASE phase' = 7 /\ at' = at + 1
    <3>1. ASSUME NEW p \in Page PROVE IF p < at' THEN Asked(p)' ELSE Seen(p)'
      <4>1. CASE p < at'
        <5>1. p < at \/ p = at
          BY <4>1, <2>7, <1>0, <1>p
        <5>. QED
          BY <4>1, <5>1, <2>4, <2>6
      <4>2. CASE ~(p < at')
        <5>1. p # at /\ ~(p < at)
          BY <4>2, <2>7, <1>0, <1>p
        <5>2. Seen(p)
          BY <5>1, <2>1 DEF DoubtInv
        <5>. QED
          BY <4>2, <5>1, <5>2, <2>1, <2>3 DEF Seen, Cleared, QuestionedByService
      <4>. QED
        BY <4>1, <4>2
    <3>. QED
      BY <2>7, <3>1, <1>0 DEF DoubtInv
  <2>8. CASE phase' = 8 /\ at = Pages
    <3>1. \A p \in Page : p < at \/ p = at
      BY <2>8, <1>p
    <3>. QED
      BY <2>4, <2>6, <2>8, <3>1, <1>0 DEF DoubtInv
  <2>. QED
    BY <2>2, <2>7, <2>8
<1>7. CASE WritePages
  <2>1. phase = 8 /\ phase' = 9 /\ UNCHANGED <<read, vision>>
    BY <1>0, <1>7, PhaseAt DEF WritePages
  <2>2. \A p \in Page : Asked(p)
    BY <2>1 DEF DoubtInv
  <2>3. \A p \in Page : Asked(p)'
    BY <2>1, <2>2 DEF Asked
  <2>. QED
    BY <2>1, <2>3, <1>0 DEF DoubtInv
<1>9. CASE UNCHANGED vars
  BY <1>9, <1>0 DEF vars, DoubtInv, Seen, Asked
<1>. QED
  BY <1>1, <1>2, <1>3, <1>4, <1>5, <1>6, <1>7, <1>9 DEF Next, Done

(* No doubtful read ships unquestioned, for any number of pages: an OCR    *)
(* text still alone on its page at the end passed every gate, or the model *)
(* was shown the page and gave nothing better (process_pdf, the vision     *)
(* queue of pdf_service.py).                                               *)
THEOREM DoubtfulPagesReadAgain == Spec => []DoubtfulPagesAreReadAgain
<1>1. DoubtInv => DoubtfulPagesAreReadAgain
  <2>. SUFFICES ASSUME DoubtInv, At("done") PROVE DoubtfulPagesAreReadAgain
    BY DEF DoubtfulPagesAreReadAgain
  <2>1. phase = 9
    BY PhaseAt DEF DoubtInv, PageInv, TypeOK
  <2>. QED
    BY <2>1 DEF DoubtInv, Asked, Unmerged, Cleared, NoBetter, DoubtfulPagesAreReadAgain
<1>. QED
  BY DoubtStart, DoubtStepHolds, <1>1, PTL DEF Spec

-----------------------------------------------------------------------------
(***************************************************************************)
(* The model calls of an audit, for any number of documents, readers,      *)
(* sections and attempts: a delivered case has read every document of      *)
(* every section that it cannot do without. The reads of a section begin   *)
(* in the order of its documents, so the ones not begun, or called off,    *)
(* come after all the others; a read is called off only behind a failed    *)
(* one whose predecessors were all answered.                               *)
(***************************************************************************)
CallRead == [step : {"waiting", "asking", "answered", "failed", "called off"},
             requests : Nat, cuts : Nat, bad : Nat, budget : Nat,
             why : {"none", "unavailable", "refused", "truncated", "not json"}]

(* The reads of a section, and what is kept of them once it is read.       *)
Unbegun(r) == reads[r].step \in {"waiting", "called off"}

ReadsInOrder ==
  /\ reads \in [ReadsOf(Here) -> CallRead]
  /\ \A q, r \in ReadsOf(Here) : q < r /\ Unbegun(q) => Unbegun(r)
  /\ Under({"called off"}) # {} => FirstFailure # {} /\ Under({"waiting"}) = {}

SectionsBefore ==
  \A i \in 1..(section - 1) : Sections[i] \notin OptionalReads => answers[i] = InOrderOf(ReadsOf(Sections[i]))

CallsInv ==
  /\ caseOutcome \in {"running", "failed", "delivered"}
  /\ section \in 1..(Len(Sections) + 1) /\ attempt \in Nat
  /\ answers = [i \in 1..Len(Sections) |-> answers[i]]
  /\ SectionsBefore
  /\ section <= Len(Sections) => ReadsInOrder
  /\ caseOutcome = "delivered" => section = Len(Sections) + 1

-----------------------------------------------------------------------------
LEMMA Lengths == Len(Sections) \in Nat /\ \A i \in 1..Len(Sections) : Budget[Sections[i]] \in Nat
BY CallsAssumption

LEMMA ReadsAreNumbered == \A s : ReadsOf(s) \subseteq Nat
BY CallsAssumption DEF ReadsOf

LEMMA NewReadType ==
  ASSUME NEW i \in 1..Len(Sections)
  PROVE  NewRead(Sections[i]) \in CallRead /\ NewRead(Sections[i]).step = "waiting"
BY Lengths DEF NewRead, CallRead

(* A count of a read can be raised.                                        *)
LEMMA CountsGrow ==
  ASSUME NEW c \in CallRead
  PROVE  c.requests + 1 \in Nat /\ c.cuts + 1 \in Nat /\ c.bad + 1 \in Nat
<1>1. c.requests \in Nat /\ c.cuts \in Nat /\ c.bad \in Nat
  BY DEF CallRead
<1>2. \A n \in Nat : n + 1 \in Nat
  OBVIOUS
<1>. QED
  BY <1>1, <1>2

(* A section begins with all its reads waiting.                            *)
LEMMA SectionBegins ==
  ASSUME NEW i \in 1..Len(Sections), section' = i, reads' = ReadsAt(i)
  PROVE  ReadsInOrder'
<1>1. reads' = [r \in ReadsOf(Sections[i]) |-> NewRead(Sections[i])]
  BY Lengths DEF ReadsAt
<1>2. \A r \in ReadsOf(Sections[i]) : reads'[r].step = "waiting"
  BY <1>1, NewReadType
<1>3. reads' \in [ReadsOf(Sections[i]) -> CallRead]
  BY <1>1, NewReadType
<1>. QED
  BY <1>1, <1>2, <1>3 DEF ReadsInOrder, Here, Under, Unbegun

(* The step of one read that is under way keeps the others' order, and     *)
(* the failure that called some off.                                       *)
LEMMA OneReadMoves ==
  ASSUME CallsInv, Reading, NEW r \in Under({"asking"}), NEW x \in CallRead,
         x.step \in {"asking", "answered", "failed"}, Becomes(r, x)
  PROVE  CallsInv'
<1>. USE DEF CallsInv
<1>1. section \in 1..Len(Sections) /\ ReadsInOrder /\ caseOutcome = "running"
  BY Lengths DEF Reading
<1>2. reads' = [reads EXCEPT ![r] = x] /\ UNCHANGED <<section, answers, attempt, caseOutcome>>
  BY DEF Becomes
<1>3. r \in ReadsOf(Here) /\ reads[r].step = "asking" /\ Here' = Here
  BY <1>1, <1>2 DEF Under, ReadsInOrder, Here
<1>4. reads' \in [ReadsOf(Here) -> CallRead] /\ reads'[r] = x /\ \A q \in ReadsOf(Here) : q # r => reads'[q] = reads[q]
  BY <1>1, <1>2, <1>3 DEF ReadsInOrder
<1>5. DOMAIN reads = ReadsOf(Here) /\ DOMAIN reads' = ReadsOf(Here)
  BY <1>1, <1>4 DEF ReadsInOrder
<1>6. \A q \in ReadsOf(Here) : Unbegun(q)' <=> Unbegun(q)
  BY <1>3, <1>4 DEF Unbegun
<1>7. Under({"called off"})' = Under({"called off"}) /\ Under({"waiting"})' = Under({"waiting"})
  BY <1>3, <1>4, <1>5 DEF Under
<1>8. FirstFailure # {} => FirstFailure' # {}
  <2>. SUFFICES ASSUME NEW f \in FirstFailure PROVE f \in FirstFailure'
    OBVIOUS
  <2>1. f \in ReadsOf(Here) /\ reads[f].step = "failed" /\ \A q \in 1..(f - 1) : reads[q].step = "answered"
    BY <1>5 DEF FirstFailure, Under
  <2>2. f # r /\ r \notin 1..(f - 1)
    BY <2>1, <1>3
  <2>3. reads'[f].step = "failed"
    BY <2>1, <2>2, <1>4
  <2>4. \A q \in 1..(f - 1) : reads'[q].step = "answered"
    <3>. TAKE q \in 1..(f - 1)
    <3>1. q # r /\ reads[q].step = "answered"
      BY <2>1, <2>2
    <3>2. q \in ReadsOf(Here)
      BY <2>1, CallsAssumption DEF ReadsOf
    <3>. QED
      BY <3>1, <3>2, <1>4
  <2>. QED
    BY <2>1, <2>3, <2>4, <1>5 DEF FirstFailure, Under
<1>9. ReadsInOrder'
  BY <1>1, <1>3, <1>4, <1>6, <1>7, <1>8 DEF ReadsInOrder
<1>. QED
  BY <1>1, <1>2, <1>9 DEF SectionsBefore

-----------------------------------------------------------------------------
(* A case begins with its first section's reads waiting.                   *)
LEMMA CallsStart == CallInit => CallsInv
<1>. SUFFICES ASSUME CallInit PROVE CallsInv
  OBVIOUS
<1>1. section = 1 /\ reads = ReadsAt(1) /\ answers = NothingKept /\ attempt = 1 /\ caseOutcome = "running"
  BY DEF CallInit
<1>2. 1 <= Len(Sections) => ReadsInOrder
  <2>. SUFFICES ASSUME 1 \in 1..Len(Sections) PROVE ReadsInOrder
    BY Lengths
  <2>1. reads = [r \in ReadsOf(Sections[1]) |-> NewRead(Sections[1])]
    BY <1>1, Lengths DEF ReadsAt
  <2>2. \A r \in ReadsOf(Sections[1]) : reads[r].step = "waiting"
    BY <2>1, NewReadType
  <2>3. reads \in [ReadsOf(Sections[1]) -> CallRead]
    BY <2>1, NewReadType
  <2>. QED
    BY <1>1, <2>1, <2>2, <2>3 DEF ReadsInOrder, Here, Under, Unbegun
<1>. QED
  BY <1>1, <1>2, Lengths DEF CallsInv, SectionsBefore, NothingKept

(* Once nothing waits or is asked, and no failure is met in the order of   *)
(* the documents, every document of the section was answered.              *)
LEMMA AllAnswered ==
  ASSUME ReadsInOrder, section \in 1..Len(Sections), Under({"waiting", "asking"}) = {}, FirstFailure = {}
  PROVE  Under({"answered"}) = ReadsOf(Here)
<1>1. DOMAIN reads = ReadsOf(Here) /\ \A r \in ReadsOf(Here) : reads[r] \in CallRead
  BY DEF ReadsInOrder
<1>2. \A r \in ReadsOf(Here) : reads[r].step \in {"answered", "failed"}
  BY <1>1 DEF ReadsInOrder, Under, CallRead
<1>3. Under({"failed"}) = {}
  <2>. SUFFICES ASSUME Under({"failed"}) # {} PROVE FALSE
    OBVIOUS
  <2>1. PICK f \in Under({"failed"}) : \A y \in Under({"failed"}) : f <= y
    BY LeastOf, ReadsAreNumbered, <1>1 DEF Under
  <2>2. f \in ReadsOf(Here)
    BY <1>1 DEF Under
  <2>3. \A q \in 1..(f - 1) : reads[q].step = "answered"
    <3>. TAKE q \in 1..(f - 1)
    <3>1. q \in ReadsOf(Here) /\ q < f
      BY <2>2, CallsAssumption DEF ReadsOf
    <3>2. q \notin Under({"failed"})
      BY <2>1, <3>1, <2>2, ReadsAreNumbered
    <3>. QED
      BY <1>1, <1>2, <3>1, <3>2 DEF Under
  <2>. QED
    BY <2>1, <2>3 DEF FirstFailure
<1>. QED
  BY <1>1, <1>2, <1>3 DEF Under

LEMMA CallsStepHolds == CallsInv /\ [CallNext]_callVars => CallsInv'
<1>. SUFFICES ASSUME CallsInv, [CallNext]_callVars PROVE CallsInv'
  OBVIOUS
<1>. USE DEF CallsInv
<1>0. Reading => section \in 1..Len(Sections) /\ ReadsInOrder /\ Here = Sections[section]
  BY Lengths DEF Reading, Here
<1>t. ASSUME Reading, NEW r \in Under({"asking"})
      PROVE  /\ reads[r] \in CallRead /\ reads[r].step = "asking"
             /\ Budget[Here] \in Nat /\ NewRead(Here) \in CallRead
  BY <1>t, <1>0, Lengths, NewReadType DEF ReadsInOrder, Under
<1>f. ASSUME Reading, NEW r \in Under({"asking"}), NEW x, NEW why \in {"unavailable", "refused", "truncated", "not json"}
      PROVE  Failed(x, why) \in CallRead /\ Failed(x, why).step = "failed"
  BY <1>f, <1>t DEF Failed, CallRead, NewRead
<1>1. ASSUME NEW r \in DOMAIN reads, BeginRead(r) PROVE CallsInv'
  <2>1. Reading /\ r \in Under({"waiting"}) /\ \A q \in Under({"waiting"}) : r <= q
    BY <1>1 DEF BeginRead
  <2>2. reads' = [reads EXCEPT ![r].step = "asking"] /\ UNCHANGED <<section, answers, attempt, caseOutcome>>
    BY <1>1 DEF BeginRead, Becomes
  <2>3. Under({"called off"}) = {}
    BY <1>0, <2>1 DEF ReadsInOrder
  <2>4. r \in ReadsOf(Here) /\ DOMAIN reads = ReadsOf(Here) /\ Here' = Here
    BY <1>0, <2>1, <2>2 DEF ReadsInOrder, Here
  <2>5. reads' \in [ReadsOf(Here) -> CallRead] /\ reads'[r].step = "asking"
        /\ \A q \in ReadsOf(Here) : q # r => reads'[q] = reads[q]
    BY <1>0, <2>1, <2>2, <2>4 DEF ReadsInOrder, CallRead
  <2>6. \A q \in ReadsOf(Here) : Unbegun(q) => q \in Under({"waiting"})
    BY <2>3, <2>4 DEF Unbegun, Under
  <2>7. ASSUME NEW p \in ReadsOf(Here), NEW q \in ReadsOf(Here), p < q, Unbegun(p)' PROVE Unbegun(q)'
    <3>1. p # r /\ Unbegun(p)
      BY <2>5, <2>7 DEF Unbegun
    <3>2. r <= p /\ r \in Nat /\ p \in Nat /\ q \in Nat
      BY <2>1, <2>4, <2>6, <3>1, ReadsAreNumbered
    <3>3. q # r
      BY <2>7, <3>2
    <3>4. Unbegun(q)
      BY <1>0, <2>1, <2>7, <3>1 DEF ReadsInOrder
    <3>. QED
      BY <2>5, <3>3, <3>4 DEF Unbegun
  <2>8. Under({"called off"})' = {}
    <3>1. DOMAIN reads' = ReadsOf(Here)
      BY <2>5
    <3>. QED
      BY <2>3, <2>4, <2>5, <3>1 DEF Under
  <2>9. ReadsInOrder'
    BY <2>4, <2>5, <2>7, <2>8 DEF ReadsInOrder
  <2>. QED
    BY <2>2, <2>9 DEF SectionsBefore
<1>2. ASSUME NEW r \in DOMAIN reads, ApiBusy(r) PROVE CallsInv'
  <2>1. Reading /\ r \in Under({"asking"})
    BY <1>2 DEF ApiBusy
  <2>. DEFINE now == [reads[r] EXCEPT !.requests = @ + 1]
              x == IF now.requests = MaxRetries THEN Failed(now, "unavailable") ELSE now
  <2>2. now \in CallRead /\ now.step = "asking"
    <3>1. reads[r] \in CallRead /\ reads[r].step = "asking"
      BY <2>1, <1>t
    <3>2. reads[r].requests + 1 \in Nat /\ reads[r].cuts + 1 \in Nat /\ reads[r].bad + 1 \in Nat
      BY <3>1, CountsGrow
    <3>. QED
      BY <3>1, <3>2 DEF CallRead
  <2>3. Failed(now, "unavailable") \in CallRead /\ Failed(now, "unavailable").step = "failed"
    BY <2>1, <1>f
  <2>4. Becomes(r, x)
    BY <1>2 DEF ApiBusy
  <2>. HIDE DEF now
  <2>5. x \in CallRead /\ x.step \in {"asking", "failed"}
    BY <2>2, <2>3
  <2>. QED
    BY <2>1, <2>4, <2>5, OneReadMoves
<1>3. ASSUME NEW r \in DOMAIN reads, ApiRefuses(r) PROVE CallsInv'
  <2>1. Reading /\ r \in Under({"asking"}) /\ Becomes(r, Failed(reads[r], "refused"))
    BY <1>3 DEF ApiRefuses
  <2>. QED
    BY <2>1, <1>f, OneReadMoves
<1>4. ASSUME NEW r \in DOMAIN reads, AnswerCut(r) PROVE CallsInv'
  <2>1. Reading /\ r \in Under({"asking"})
    BY <1>4 DEF AnswerCut
  <2>. DEFINE now == [reads[r] EXCEPT !.requests = 0, !.cuts = @ + 1]
              asked == now.cuts + (IF OneCount(Here) THEN now.bad ELSE 0)
              larger == [now EXCEPT !.budget = Larger(@)]
              x == IF asked < AskedTwice /\ now.budget < MaxOutput THEN larger ELSE Failed(now, "truncated")
  <2>2. now \in CallRead /\ now.step = "asking" /\ now.budget \in Nat
    <3>1. reads[r] \in CallRead /\ reads[r].step = "asking"
      BY <2>1, <1>t
    <3>2. reads[r].requests + 1 \in Nat /\ reads[r].cuts + 1 \in Nat /\ reads[r].bad + 1 \in Nat
      BY <3>1, CountsGrow
    <3>. QED
      BY <3>1, <3>2 DEF CallRead
  <2>3. Failed(now, "truncated") \in CallRead /\ Failed(now, "truncated").step = "failed"
    BY <2>1, <1>f
  <2>4. Becomes(r, x)
    BY <1>4 DEF AnswerCut
  <2>. HIDE DEF now
  <2>5. Larger(now.budget) \in Nat
    BY <2>2, CallsAssumption DEF Larger
  <2>6. larger \in CallRead /\ larger.step = "asking"
    BY <2>2, <2>5 DEF CallRead
  <2>. HIDE DEF larger, asked
  <2>7. x \in CallRead /\ x.step \in {"asking", "failed"}
    BY <2>3, <2>6
  <2>. QED
    BY <2>1, <2>4, <2>7, OneReadMoves
<1>5. ASSUME NEW r \in DOMAIN reads, AnswerNotJson(r) PROVE CallsInv'
  <2>1. Reading /\ r \in Under({"asking"})
    BY <1>5 DEF AnswerNotJson
  <2>. DEFINE now == [reads[r] EXCEPT !.requests = 0, !.bad = @ + 1]
              asked == now.bad + (IF OneCount(Here) THEN now.cuts ELSE 0)
              again == [now EXCEPT !.cuts = 0, !.budget = Budget[Here]]
              x == IF asked >= AskedTwice THEN Failed(now, "not json")
                   ELSE IF OneCount(Here) THEN now ELSE again
  <2>2. now \in CallRead /\ now.step = "asking"
    <3>1. reads[r] \in CallRead /\ reads[r].step = "asking"
      BY <2>1, <1>t
    <3>2. reads[r].requests + 1 \in Nat /\ reads[r].cuts + 1 \in Nat /\ reads[r].bad + 1 \in Nat
      BY <3>1, CountsGrow
    <3>. QED
      BY <3>1, <3>2 DEF CallRead
  <2>3. Failed(now, "not json") \in CallRead /\ Failed(now, "not json").step = "failed"
    BY <2>1, <1>f
  <2>4. Becomes(r, x)
    BY <1>5 DEF AnswerNotJson
  <2>. HIDE DEF now
  <2>5. again \in CallRead /\ again.step = "asking"
    BY <2>1, <2>2, <1>t DEF CallRead
  <2>. HIDE DEF again, asked
  <2>6. x \in CallRead /\ x.step \in {"asking", "failed"}
    BY <2>2, <2>3, <2>5
  <2>. QED
    BY <2>1, <2>4, <2>6, OneReadMoves
<1>6. ASSUME NEW r \in DOMAIN reads, AnswerUsable(r) PROVE CallsInv'
  <2>1. Reading /\ r \in Under({"asking"}) /\ Becomes(r, [NewRead(Here) EXCEPT !.step = "answered"])
    BY <1>6 DEF AnswerUsable
  <2>. DEFINE x == [NewRead(Here) EXCEPT !.step = "answered"]
  <2>2. x \in CallRead /\ x.step = "answered"
    BY <1>t, <2>1 DEF CallRead, NewRead
  <2>3. Becomes(r, x)
    BY <2>1
  <2>. HIDE DEF x
  <2>. QED
    BY <2>1, <2>2, <2>3, OneReadMoves
<1>7. CASE CallOff
  <2>1. Reading /\ FirstFailure # {} /\ UNCHANGED <<section, answers, attempt, caseOutcome>>
    BY <1>7 DEF CallOff
  <2>2. /\ DOMAIN reads = ReadsOf(Here) /\ Here' = Here
        /\ \A r \in ReadsOf(Here) : reads[r] \in CallRead
    BY <1>0, <2>1 DEF ReadsInOrder, Here
  <2>3. reads' = [r \in ReadsOf(Here) |-> IF reads[r].step = "waiting" THEN [reads[r] EXCEPT !.step = "called off"]
                                           ELSE reads[r]]
    BY <1>7, <2>2 DEF CallOff
  <2>4. ASSUME NEW r \in ReadsOf(Here)
        PROVE  reads'[r] = IF reads[r].step = "waiting" THEN [reads[r] EXCEPT !.step = "called off"] ELSE reads[r]
    BY <2>3
  <2>5. ASSUME NEW r \in ReadsOf(Here)
        PROVE  /\ reads'[r] \in CallRead /\ reads'[r].step # "waiting"
               /\ reads[r].step # "waiting" => reads'[r] = reads[r]
               /\ Unbegun(r) <=> Unbegun(r)'
    BY <2>2, <2>4 DEF CallRead, Unbegun
  <2>6. DOMAIN reads' = ReadsOf(Here) /\ reads' \in [ReadsOf(Here) -> CallRead]
    BY <2>3, <2>5
  <2>7. FirstFailure' # {}
    <3>1. PICK f \in FirstFailure : TRUE
      BY <2>1
    <3>2. f \in ReadsOf(Here) /\ reads[f].step = "failed" /\ \A q \in 1..(f - 1) : reads[q].step = "answered"
      BY <2>2 DEF FirstFailure, Under
    <3>3. reads'[f].step = "failed"
      BY <2>5, <3>2
    <3>4. ASSUME NEW q \in 1..(f - 1) PROVE reads'[q].step = "answered"
      <4>1. q \in ReadsOf(Here)
        BY <3>2, CallsAssumption DEF ReadsOf
      <4>. QED
        BY <2>5, <3>2, <4>1
    <3>5. f \in FirstFailure'
      BY <2>6, <3>2, <3>3, <3>4 DEF FirstFailure, Under
    <3>. QED
      BY <3>5
  <2>8. Under({"waiting"})' = {}
    BY <2>5, <2>6 DEF Under
  <2>9. ReadsInOrder'
    BY <1>0, <2>1, <2>2, <2>5, <2>6, <2>7, <2>8 DEF ReadsInOrder
  <2>. QED
    BY <2>1, <2>9 DEF SectionsBefore
<1>8. CASE SectionRead
  <2>1. /\ Reading /\ Under({"waiting", "asking"}) = {}
        /\ FirstFailure = {} \/ ~FailsTheCase(Here)
        /\ answers' = [answers EXCEPT ![section] = KeptReads]
        /\ section' = section + 1 /\ reads' = ReadsAt(section + 1) /\ UNCHANGED <<attempt, caseOutcome>>
    BY <1>8 DEF SectionRead
  <2>2. section' \in 1..(Len(Sections) + 1) /\ caseOutcome = "running"
    BY <1>0, <2>1, Lengths DEF Reading
  <2>3. answers'[section] = KeptReads /\ \A i \in 1..Len(Sections) : i # section => answers'[i] = answers[i]
    BY <1>0, <2>1
  <2>4. answers' = [i \in 1..Len(Sections) |-> answers'[i]]
    BY <1>0, <2>1
  <2>5. Here \notin OptionalReads => KeptReads = InOrderOf(ReadsOf(Here))
    <3>1. Here \notin OptionalReads => Under({"answered"}) = ReadsOf(Here)
      BY <1>0, <2>1, AllAnswered DEF FailsTheCase
    <3>2. KeptReads = InOrderOf(Under({"answered"}))
      BY DEF KeptReads, InOrderOf
    <3>. QED
      BY <3>1, <3>2
  <2>6. SectionsBefore'
    <3>. SUFFICES ASSUME NEW i \in 1..section, Sections[i] \notin OptionalReads
                  PROVE  answers'[i] = InOrderOf(ReadsOf(Sections[i]))
      BY <1>0, <2>1 DEF SectionsBefore
    <3>1. CASE i = section
      BY <1>0, <2>1, <2>3, <2>5, <3>1
    <3>2. CASE i # section
      <4>1. i \in 1..(section - 1) /\ i \in 1..Len(Sections)
        BY <1>0, <2>1, <3>2, Lengths
      <4>2. answers[i] = InOrderOf(ReadsOf(Sections[i]))
        BY <4>1 DEF SectionsBefore
      <4>. QED
        BY <2>3, <3>2, <4>1, <4>2
    <3>. QED
      BY <3>1, <3>2
  <2>7. section' <= Len(Sections) => ReadsInOrder'
    <3>1. section' <= Len(Sections) => section' \in 1..Len(Sections) /\ reads' = ReadsAt(section')
      BY <2>1, <2>2, Lengths
    <3>. QED
      BY <3>1, SectionBegins
  <2>. QED
    BY <2>1, <2>2, <2>4, <2>6, <2>7
<1>9. CASE SectionFails
  <2>1. CASE attempt' = attempt + 1 /\ section' = 1 /\ reads' = ReadsAt(1) /\ answers' = NothingKept /\ UNCHANGED caseOutcome
    <3>1. caseOutcome' = "running"
      BY <1>9, <2>1 DEF SectionFails, Reading
    <3>2. answers' = [i \in 1..Len(Sections) |-> answers'[i]]
      BY <2>1 DEF NothingKept
    <3>3. section' <= Len(Sections) => ReadsInOrder'
      BY <2>1, SectionBegins, Lengths
    <3>4. SectionsBefore'
      BY <2>1 DEF SectionsBefore
    <3>. QED
      BY <2>1, <3>1, <3>2, <3>3, <3>4, Lengths
  <2>2. CASE caseOutcome' = "failed" /\ UNCHANGED <<section, reads, answers, attempt>>
    BY <2>2 DEF SectionsBefore, ReadsInOrder, FirstFailure, Under, Unbegun, Here
  <2>. QED
    BY <1>9, <2>1, <2>2 DEF SectionFails
<1>10. CASE CaseDelivered
  BY <1>10 DEF CaseDelivered, SectionsBefore, ReadsInOrder, FirstFailure, Under, Unbegun, Here
<1>11. CASE UNCHANGED callVars
  BY <1>11 DEF callVars, SectionsBefore, ReadsInOrder, FirstFailure, Under, Unbegun, Here
<1>. QED
  BY <1>1, <1>2, <1>3, <1>4, <1>5, <1>6, <1>7, <1>8, <1>9, <1>10, <1>11 DEF CallNext, CallsEnded

-----------------------------------------------------------------------------
(* A delivered case has read every document of every section that it       *)
(* cannot do without, in the order of the packet, whichever thread was     *)
(* answered first and however often the case was extracted again           *)
(* (app/services/llm_service.py, the reader pools of the pipeline).        *)
THEOREM EverythingIsRead == CallSpec => []FinishedAuditHasReadEverything
<1>1. CallsInv => FinishedAuditHasReadEverything
  <2>. SUFFICES ASSUME CallsInv, caseOutcome = "delivered", NEW i \in 1..Len(Sections), Sections[i] \notin OptionalReads
                PROVE  answers[i] = InOrderOf(ReadsOf(Sections[i]))
    BY DEF FinishedAuditHasReadEverything
  <2>1. i \in 1..(section - 1)
    BY Lengths DEF CallsInv
  <2>2. answers[i] = InOrderOf(ReadsOf(Sections[i]))
    BY <2>1 DEF CallsInv, SectionsBefore
  <2>. QED
    BY <2>2 DEF InOrderOf
<1>. QED
  BY CallsStart, CallsStepHolds, <1>1, PTL DEF CallSpec

-----------------------------------------------------------------------------
(***************************************************************************)
(* Amounts are on their pages, for any document, whatever the model        *)
(* answers. The invariant says so from the first read on, not only at the  *)
(* end, except before a re-read, when the pages were just replaced and the *)
(* records of the old pages are about to be.                               *)
(***************************************************************************)
IsRecord(r) == r = [type |-> r.type, amount |-> r.amount, who |-> r.who]

AreRecords == \A r \in vis \cup pss : IsRecord(r)
AmountsArePrinted == docStep # "read" => \A r \in vis \cup pss : HasAmount(r) => r.amount \in Printed

DocInv == AreRecords /\ AmountsArePrinted

-----------------------------------------------------------------------------
(* What the check against the pages returns: records, with no amount the   *)
(* pages do not print.                                                     *)
LEMMA OnlyPrintedHolds ==
  ASSUME NEW S, \A r \in S : IsRecord(r)
  PROVE  \A r \in OnlyPrinted(S) : IsRecord(r) /\ (HasAmount(r) => r.amount \in Printed)
BY DEF OnlyPrinted, IsRecord, HasAmount

(* Naming the person a record is about leaves its amount alone.            *)
LEMMA AttributedHolds ==
  ASSUME NEW S, \A r \in S : IsRecord(r) /\ (HasAmount(r) => r.amount \in Printed)
  PROVE  \A r \in Attributed(S) : IsRecord(r) /\ (HasAmount(r) => r.amount \in Printed)
BY DEF Attributed, IsRecord, HasAmount

(* What a read of the document hands over, whatever the model answers.     *)
LEMMA ReadFromHolds ==
  ASSUME NEW answer \in Answer
  PROVE  \A r \in ReadFrom(answer).vis \cup ReadFrom(answer).pss :
            IsRecord(r) /\ (HasAmount(r) => r.amount \in Printed)
<1>1. \A r \in answer.vis : IsRecord(r)
  BY AnswerAssumption DEF IsRecord
<1>2. \A r \in answer.pss : IsRecord(r)
  BY AnswerAssumption DEF IsRecord
<1>3. \A r \in Attributed(OnlyPrinted(answer.vis)) : IsRecord(r) /\ (HasAmount(r) => r.amount \in Printed)
  BY <1>1, OnlyPrintedHolds, AttributedHolds
<1>4. \A r \in Attributed(OnlyPrinted(answer.pss)) : IsRecord(r) /\ (HasAmount(r) => r.amount \in Printed)
  BY <1>2, OnlyPrintedHolds, AttributedHolds
<1>. QED
  BY <1>3, <1>4 DEF ReadFrom

(* A figure recovered by the second ask is held to the pages too.          *)
LEMMA RecoveredHolds ==
  ASSUME NEW S, NEW found, \A r \in S : IsRecord(r)
  PROVE  \A r \in RecoveredOnPage(S, found) : IsRecord(r) /\ (HasAmount(r) => r.amount \in Printed)
<1>1. \A r \in Recovered(S, found) : IsRecord(r)
  BY DEF Recovered, IsRecord
<1>. QED
  BY <1>1, OnlyPrintedHolds DEF RecoveredOnPage

-----------------------------------------------------------------------------
LEMMA DocStart == DocInit => DocInv
BY DEF DocInit, DocInv, AreRecords, AmountsArePrinted

LEMMA DocStepHolds == DocInv /\ [DocNext]_docVars => DocInv'
<1>. SUFFICES ASSUME DocInv, [DocNext]_docVars
              PROVE  DocInv'
  OBVIOUS
<1>. USE DEF DocInv, AreRecords, AmountsArePrinted
<1>1. CASE ReadDocument
  <2>1. PICK answer \in Answer :
          /\ vis' = IF doc.kind = "pay stub" THEN {r \in ReadFrom(answer).vis : WageType(r)} ELSE ReadFrom(answer).vis
          /\ pss' = ReadFrom(answer).pss
    BY <1>1 DEF ReadDocument
  <2>2. Printed' = Printed
    BY <1>1 DEF ReadDocument, Printed
  <2>3. vis' \cup pss' \subseteq ReadFrom(answer).vis \cup ReadFrom(answer).pss
    BY <2>1
  <2>. QED
    BY <2>2, <2>3, ReadFromHolds DEF HasAmount
<1>2. CASE RetryAmounts
  <2>1. PICK found : vis' = RecoveredOnPage(vis, found) /\ pss' = RecoveredOnPage(pss, found)
    BY <1>2 DEF RetryAmounts
  <2>2. Printed' = Printed
    BY <1>2 DEF RetryAmounts, Printed
  <2>3. \A r \in vis' : IsRecord(r) /\ (HasAmount(r) => r.amount \in Printed)
    BY <2>1, RecoveredHolds
  <2>4. \A r \in pss' : IsRecord(r) /\ (HasAmount(r) => r.amount \in Printed)
    BY <2>1, RecoveredHolds
  <2>. QED
    BY <2>2, <2>3, <2>4 DEF HasAmount
<1>3. CASE SettleRecords
  BY <1>3 DEF SettleRecords, Settled, Printed, HasAmount
<1>4. CASE ReadAgain
  <2>1. PICK answer \in Answer : vis' = ReadFrom(answer).vis /\ pss' = ReadFrom(answer).pss
    BY <1>4 DEF ReadAgain
  <2>2. Printed' = Printed
    BY <1>4 DEF ReadAgain, Printed
  <2>. QED
    BY <2>1, <2>2, ReadFromHolds DEF HasAmount
<1>5. CASE ReadTemplate
  <2>1. \A r \in TemplateRecords : IsRecord(r) /\ r.amount \in Printed
    BY DEF TemplateRecords, IsRecord
  <2>2. Printed' = Printed /\ pss' = pss /\ vis' \subseteq vis \cup TemplateRecords /\ docStep # "read"
    BY <1>5 DEF ReadTemplate, Printed
  <2>. QED
    BY <2>1, <2>2 DEF HasAmount
<1>6. CASE ReadImages
  <2>1. PICK got \in SUBSET ImagePages : \E transcript \in [got -> SUBSET Figure] :
          /\ pageText' = [p \in DOMAIN pageText |-> IF p \in got THEN transcript[p] ELSE pageText[p]]
          /\ docStep' = IF got = {} THEN "named" ELSE "read"
    BY <1>6 DEF ReadImages
  <2>2. vis' = vis /\ pss' = pss /\ docStep # "read"
    BY <1>6 DEF ReadImages
  <2>3. CASE got = {}
    <3>1. DOMAIN pageText' = DOMAIN pageText /\ \A p \in DOMAIN pageText : pageText'[p] = pageText[p]
      BY <2>1, <2>3
    <3>2. Printed' = Printed
      BY <3>1 DEF Printed
    <3>. QED
      BY <2>2, <3>2 DEF HasAmount
  <2>4. CASE got # {}
    BY <2>1, <2>2, <2>4
  <2>. QED
    BY <2>3, <2>4
<1>7. CASE NoImages
  BY <1>7 DEF NoImages, Printed, HasAmount
<1>8. CASE DropUnnamed
  BY <1>8 DEF DropUnnamed, Printed, HasAmount
<1>9. CASE DocFinished \/ UNCHANGED docVars
  BY <1>9 DEF DocFinished, docVars, Printed, HasAmount
<1>. QED
  BY <1>1, <1>2, <1>3, <1>4, <1>5, <1>6, <1>7, <1>8, <1>9 DEF DocNext

(* Whatever the language model answers, however often it is asked, and     *)
(* whichever pages are replaced by their transcripts: every amount that    *)
(* leaves extract_income is printed on the document's pages.               *)
THEOREM AmountsArePrintedOnTheirPages == DocSpec => []AmountsAreOnTheirPages
<1>1. DocInv => AmountsAreOnTheirPages
  BY DEF DocInv, AmountsArePrinted, AmountsAreOnTheirPages
<1>. QED
  BY <1>1, DocStart, DocStepHolds, PTL DEF DocSpec

-----------------------------------------------------------------------------
(***************************************************************************)
(* The stubs, for any that were read and any likeness of their names. A    *)
(* job is the least set that holds a stub and what is tied to it, so tied  *)
(* stubs are of one job and take one name. Repairing a stub compares it    *)
(* with all others, repaired or not, so of two stubs one of which was      *)
(* repaired the later is never below the earlier.                          *)
(***************************************************************************)
StubsInv ==
  /\ DOMAIN asRead = 1..Len(asRead) /\ Len(asRead) \in Nat
  /\ \A i \in DOMAIN asRead : IsStub(asRead[i])
  /\ DOMAIN stubs = DOMAIN asRead
  /\ \A i \in DOMAIN stubs : IsStub(stubs[i])
  /\ stubStep = "unify" => stubs = asRead
  /\ stubStep \in {"unify", "repair", "done"}
  /\ stubStep # "unify" => \A i, j \in DOMAIN stubs : Tied(asRead, i, j) => stubs[i].source = stubs[j].source
  /\ stubStep # "unify" => \A i, j \in DOMAIN stubs : ~(i \in toRepair /\ j \in toRepair) => Climbs(i, j)
  /\ stubStep = "done" => toRepair = {}

LEMMA TiedStubsAreOneJob ==
  ASSUME NEW s, NEW i \in DOMAIN s, NEW j \in DOMAIN s, Tied(s, i, j)
  PROVE  OneJob(s, i) = OneJob(s, j) /\ i \in OneJob(s, i) /\ j \in OneJob(s, i)
<1>. DEFINE Closed(S) == \A a \in S, b \in DOMAIN s : Tied(s, a, b) => b \in S
<1>1. \A a \in DOMAIN s : /\ a \in OneJob(s, a) /\ OneJob(s, a) \in SUBSET DOMAIN s
                          /\ \A S \in SUBSET DOMAIN s : a \in S /\ Closed(S) => OneJob(s, a) \subseteq S
  BY DEF OneJob
<1>2. ASSUME NEW a \in DOMAIN s PROVE Closed(OneJob(s, a))
  BY DEF OneJob
<1>3. Tied(s, j, i)
  BY DEF Tied
<1>4. j \in OneJob(s, i) /\ i \in OneJob(s, j)
  <2>. HIDE DEF Closed
  <2>1. Closed(OneJob(s, i)) /\ i \in OneJob(s, i) /\ Closed(OneJob(s, j)) /\ j \in OneJob(s, j)
    BY <1>1, <1>2
  <2>. QED
    BY <2>1, <1>3 DEF Closed
<1>. HIDE DEF Closed
<1>5. OneJob(s, i) \subseteq OneJob(s, j) /\ OneJob(s, j) \subseteq OneJob(s, i)
  BY <1>1, <1>2, <1>4
<1>. QED
  BY <1>1, <1>4, <1>5

(* Tied stubs carry one name once they are unified.                        *)
LEMMA UnifiedAlike ==
  ASSUME NEW s, NEW n \in Nat, DOMAIN s = 1..n, \A k \in DOMAIN s : IsStub(s[k]),
         NEW i \in DOMAIN s, NEW j \in DOMAIN s, Tied(s, i, j)
  PROVE  Unified(s)[i].source = Unified(s)[j].source
<1>. DEFINE c == OneJob(s, i)
<1>1. OneJob(s, i) = c /\ OneJob(s, j) = c /\ i \in c /\ j \in c /\ c \subseteq 1..n
  BY TiedStubsAreOneJob DEF OneJob
<1>. HIDE DEF c
<1>2. i # j
  BY DEF Tied
<1>3. ~(Cardinality(c) < 2)
  <2>1. IsFiniteSet(c)
    BY <1>1, FS_Interval, FS_Subset
  <2>2. Cardinality({i, j}) <= Cardinality(c) /\ Cardinality({i, j}) = 2
    <3>1. Cardinality({i}) = 1 /\ IsFiniteSet({i})
      BY FS_Singleton
    <3>2. Cardinality({i} \cup {j}) = Cardinality({i}) + 1
      BY <3>1, <1>2, FS_AddElement
    <3>3. {i} \cup {j} = {i, j} /\ {i, j} \subseteq c
      BY <1>1
    <3>. QED
      BY <3>1, <3>2, <3>3, <2>1, FS_Subset
  <2>3. Cardinality(c) \in Nat
    BY <2>1, FS_CardinalityType
  <2>. QED
    BY <2>2, <2>3
<1>4. CASE \A k \in c : s[k].source = None
  <2>1. Unified(s)[i] = s[i] /\ Unified(s)[j] = s[j]
    BY <1>1, <1>4 DEF Unified
  <2>. QED
    BY <2>1, <1>1, <1>4
<1>5. CASE ~\A k \in c : s[k].source = None
  <2>1. PICK name : name = Canonical(s, c)
    OBVIOUS
  <2>2. Unified(s)[i] = [s[i] EXCEPT !.source = name] /\ Unified(s)[j] = [s[j] EXCEPT !.source = name]
    BY <2>1, <1>1, <1>3, <1>5 DEF Unified
  <2>3. "source" \in DOMAIN s[i] /\ "source" \in DOMAIN s[j]
    BY DEF IsStub
  <2>. QED
    BY <2>2, <2>3
<1>. QED
  BY <1>4, <1>5

LEMMA UnifiedAreStubs ==
  ASSUME NEW s, NEW i \in DOMAIN s, IsStub(s[i])
  PROVE  IsStub(Unified(s)[i])
<1>1. PICK w, d, n, t, g, y : s[i] = [who |-> w, id |-> d, source |-> n, date |-> t, gross |-> g, ytd |-> y]
  BY DEF IsStub
<1>2. t \in Nat /\ (t # NoDate => Year(t) # Year(NoDate))
  BY <1>1 DEF IsStub
<1>3. PICK u : u = Unified(s)[i]
  OBVIOUS
<1>4. u = s[i] \/ \E x : u = [s[i] EXCEPT !.source = x]
  BY <1>3 DEF Unified
<1>5. PICK x : u = [who |-> w, id |-> d, source |-> x, date |-> t, gross |-> g, ytd |-> y]
  BY <1>1, <1>4
<1>. QED
  BY <1>2, <1>3, <1>5 DEF IsStub

(* What a repair leaves on a stub fits all the others.                     *)
LEMMA RepairHolds ==
  ASSUME StubsInv, RepairYtd
  PROVE  StubsInv'
<1>1. /\ stubStep = "repair" /\ asRead' = asRead /\ stubStep' = stubStep
  BY DEF RepairYtd
<1>2. PICK i \in toRepair :
        LET printed == stubs[i].ytd IN
          /\ stubs' = [stubs EXCEPT ![i].ytd = IF Fits(i, printed) THEN printed
                                            ELSE IF Fits(i, printed \div 100) THEN printed \div 100
                                            ELSE None]
          /\ toRepair' = toRepair \ {i}
  BY DEF RepairYtd
<1>3. PICK v : /\ stubs' = [stubs EXCEPT ![i].ytd = v] /\ toRepair' = toRepair \ {i}
               /\ v = None \/ Fits(i, v)
  BY <1>2
<1>4. DOMAIN stubs' = DOMAIN stubs /\ \A k \in DOMAIN stubs : k # i => stubs'[k] = stubs[k]
  BY <1>3
<1>5. ASSUME i \in DOMAIN stubs
      PROVE  /\ stubs'[i].who = stubs[i].who /\ stubs'[i].source = stubs[i].source /\ stubs'[i].date = stubs[i].date
             /\ stubs'[i].ytd = v /\ IsStub(stubs'[i])
  <2>1. PICK w, d, n, t, g, y : stubs[i] = [who |-> w, id |-> d, source |-> n, date |-> t, gross |-> g, ytd |-> y]
    BY <1>5 DEF StubsInv, IsStub
  <2>2. t \in Nat /\ (t # NoDate => Year(t) # Year(NoDate))
    BY <1>5, <2>1 DEF StubsInv, IsStub
  <2>3. PICK u : u = stubs'[i]
    OBVIOUS
  <2>4. u = [who |-> w, id |-> d, source |-> n, date |-> t, gross |-> g, ytd |-> v]
    BY <1>3, <1>5, <2>1, <2>3
  <2>. QED
    BY <2>1, <2>2, <2>3, <2>4 DEF IsStub
<1>6. ASSUME NEW k \in DOMAIN stubs PROVE IsStub(stubs'[k]) /\ stubs'[k].source = stubs[k].source
  BY <1>4, <1>5, <1>6 DEF StubsInv
<1>7. ASSUME NEW j \in DOMAIN stubs, NEW k \in DOMAIN stubs, ~(j \in toRepair' /\ k \in toRepair') PROVE Climbs(j, k)'
  <2>1. stubs[j].date \in Nat /\ stubs[k].date \in Nat
    BY DEF StubsInv, IsStub
  <2>2. CASE j # i /\ k # i
    <3>1. Climbs(j, k)
      BY <2>2, <1>1, <1>3, <1>7 DEF StubsInv
    <3>. QED
      BY <3>1, <2>2, <1>4 DEF Climbs, SameGroup
  <2>3. CASE j = i /\ k # i
    <3>1. SUFFICES ASSUME SameGroup(stubs'[i], stubs'[k]), Year(stubs'[i].date) = Year(stubs'[k].date),
                          stubs'[i].date < stubs'[k].date, None \notin {stubs'[i].ytd, stubs'[k].ytd}
                   PROVE  stubs'[i].ytd <= stubs'[k].ytd
      BY <2>3 DEF Climbs
    <3>2. k \in Others(i) /\ Fits(i, v) /\ stubs[k].date > stubs[i].date /\ Year(stubs[k].date) = Year(stubs[i].date)
      BY <3>1, <2>1, <2>3, <1>3, <1>4, <1>5 DEF Others, SameGroup
    <3>3. v <= stubs[k].ytd
      BY <3>2 DEF Fits
    <3>. QED
      BY <3>3, <2>3, <1>4, <1>5
  <2>4. CASE k = i /\ j # i
    <3>1. SUFFICES ASSUME SameGroup(stubs'[j], stubs'[i]), Year(stubs'[j].date) = Year(stubs'[i].date),
                          stubs'[j].date < stubs'[i].date, None \notin {stubs'[j].ytd, stubs'[i].ytd}
                   PROVE  stubs'[j].ytd <= stubs'[i].ytd
      BY <2>4 DEF Climbs
    <3>2. j \in Others(i) /\ Fits(i, v) /\ stubs[j].date < stubs[i].date /\ Year(stubs[j].date) = Year(stubs[i].date)
      BY <3>1, <2>1, <2>4, <1>3, <1>4, <1>5 DEF Others, SameGroup
    <3>3. v >= stubs[j].ytd
      BY <3>2 DEF Fits
    <3>. QED
      BY <3>3, <2>4, <1>4, <1>5
  <2>5. CASE j = i /\ k = i
    <3>1. stubs'[i].date \in Nat
      BY <2>5, <1>6 DEF IsStub
    <3>. QED
      BY <3>1, <2>5 DEF Climbs
  <2>. QED
    BY <2>2, <2>3, <2>4, <2>5
<1>. QED
  BY <1>1, <1>4, <1>6, <1>7 DEF StubsInv

LEMMA StubsStart == PayInit => StubsInv
<1>. SUFFICES ASSUME PayInit PROVE StubsInv
  OBVIOUS
<1>1. PICK family \in DOMAIN StubsRead : asRead \in StubsRead[family]
  BY DEF PayInit
<1>2. asRead \in Seq({asRead[i] : i \in DOMAIN asRead}) /\ \A i \in DOMAIN asRead : IsStub(asRead[i])
  BY <1>1, StubAssumption
<1>3. DOMAIN asRead = 1..Len(asRead) /\ Len(asRead) \in Nat
  BY <1>2, SequenceFacts
<1>. QED
  BY <1>2, <1>3 DEF PayInit, StubsInv

LEMMA StubsStepHolds == StubsInv /\ [PayNext]_stubVars => StubsInv'
<1>. SUFFICES ASSUME StubsInv, [PayNext]_stubVars PROVE StubsInv'
  OBVIOUS
<1>1. CASE UnifySources
  <2>1. /\ asRead' = asRead /\ stubs = asRead /\ stubStep' = "repair" /\ stubs' = Unified(asRead)
        /\ toRepair' = {i \in DOMAIN asRead : asRead[i].ytd # None}
    BY <1>1 DEF UnifySources, StubsInv
  <2>2. PICK s : s = asRead /\ DOMAIN s = 1..Len(s) /\ Len(s) \in Nat /\ \A i \in DOMAIN s : IsStub(s[i])
    BY DEF StubsInv
  <2>3. DOMAIN stubs' = DOMAIN s
    BY <2>1, <2>2 DEF Unified
  <2>4. \A i \in DOMAIN s : IsStub(stubs'[i])
    BY <2>1, <2>2, UnifiedAreStubs
  <2>5. ASSUME NEW i \in DOMAIN s, NEW j \in DOMAIN s, Tied(s, i, j) PROVE stubs'[i].source = stubs'[j].source
    BY <2>1, <2>2, <2>5, UnifiedAlike
  <2>6. \A i \in DOMAIN s : stubs'[i].ytd = s[i].ytd
    <3>. SUFFICES ASSUME NEW i \in DOMAIN s PROVE Unified(s)[i].ytd = s[i].ytd
      BY <2>1, <2>2
    <3>1. PICK w, d, n, t, g, y : s[i] = [who |-> w, id |-> d, source |-> n, date |-> t, gross |-> g, ytd |-> y]
      BY <2>2 DEF IsStub
    <3>2. PICK u : u = Unified(s)[i]
      OBVIOUS
    <3>3. u = s[i] \/ \E x : u = [s[i] EXCEPT !.source = x]
      BY <3>2 DEF Unified
    <3>. QED
      BY <3>1, <3>2, <3>3
  <2>7. \A i, j \in DOMAIN s : ~(i \in toRepair' /\ j \in toRepair') => Climbs(i, j)'
    BY <2>1, <2>2, <2>6 DEF Climbs
  <2>. QED
    BY <2>1, <2>2, <2>3, <2>4, <2>5, <2>7 DEF StubsInv
<1>2. CASE RepairYtd
  BY <1>2, RepairHolds
<1>3. CASE Repaired
  BY <1>3 DEF Repaired, StubsInv, Climbs
<1>4. CASE UNCHANGED stubVars
  BY <1>4 DEF stubVars, StubsInv, Climbs
<1>. QED
  BY <1>1, <1>2, <1>3, <1>4 DEF PayNext

(* Stubs tied to one job carry one employer's name, and figures of one     *)
(* year never fall (extractor.py, _unify_paystub_sources and               *)
(* _repair_paystub_ytd), however many stubs and however they were misread. *)
THEOREM StubsRunOn == PaySpec => []StubsOfOneJobRunOn
<1>1. StubsInv => StubsOfOneJobRunOn
  BY DEF StubsInv, StubsOfOneJobRunOn
<1>. QED
  BY StubsStart, StubsStepHolds, <1>1, PTL DEF PaySpec

-----------------------------------------------------------------------------
(***************************************************************************)
(* The groups, for any pages and any answer of the model that calls only   *)
(* certifications previous. Each pass moves the groups left, one by one,   *)
(* to the groups made, and puts in a group's place groups that share its   *)
(* pages out; a page that was in one of them stays in one. Until the last  *)
(* pass a suffix means a prior certification, and promoting one when none  *)
(* is current leaves a current one; the last pass sets a form aside only   *)
(* for one that starts before it and is itself not set aside.              *)
(***************************************************************************)
IsList(s) == s \in Seq({s[k] : k \in DOMAIN s})

AtMostOnce(s, p) == \A j, k \in DOMAIN s : p \in s[j].pages /\ p \in s[k].pages => j = k
Nowhere(s, p) == \A k \in DOMAIN s : p \notin s[k].pages
Once(s, p) == AtMostOnce(s, p) /\ ~Nowhere(s, p)

PlacedOnce(p) ==
  /\ p \in DOMAIN bundle.pages /\ PageOf(p).text
  /\ Cardinality({k \in DOMAIN bundle.groups : p \in bundle.groups[k].pages}) < 2

(* A group as the passes keep it: only a certification is a prior one.     *)
IsKept(g) == IsGroup(g) /\ (g.label.suffix # "" => g.label.suffix = "previous" /\ IsCert(g))
AreKept(s) == \A k \in DOMAIN s : IsKept(s[k])

PriorsArePromoted ==
  (\E k \in DOMAIN groups : groups[k].label.suffix # "") => \E k \in DOMAIN groups : Current(groups[k])

GroupInv ==
  /\ bundle \in Bundles
  /\ groupStep \in {"build", "split", "relabel", "promote", "supersede", "done"}
  /\ IsList(groups) /\ IsList(pending) /\ AreKept(pending)
  /\ groupStep # "done" => AreKept(groups)
  /\ groupStep \in {"promote", "supersede", "done"} => pending = <<>>
  /\ groupStep = "build" => \A p : PlacedOnce(p) => AtMostOnce(groups \o pending, p)
  /\ groupStep # "build" => \A p : PlacedOnce(p) => Once(groups \o pending, p)
  /\ groupStep = "supersede" => PriorsArePromoted
  /\ ACertificationIsRead

-----------------------------------------------------------------------------
(* Lists and what is in them.                                              *)
LEMMA ListFacts ==
  ASSUME NEW s, IsList(s)
  PROVE  Len(s) \in Nat /\ DOMAIN s = 1..Len(s)
BY SequenceFacts DEF IsList

LEMMA ListOf ==
  ASSUME NEW n \in Nat, NEW s, DOMAIN s = 1..n, s = [i \in 1..n |-> s[i]]
  PROVE  IsList(s) /\ Len(s) = n
<1>1. \A i \in 1..n : s[i] \in {s[k] : k \in DOMAIN s}
  OBVIOUS
<1>2. [i \in 1..n |-> s[i]] \in Seq({s[k] : k \in DOMAIN s})
  BY <1>1
<1>3. s \in Seq({s[k] : k \in DOMAIN s})
  BY <1>2
<1>4. Len(s) \in Nat /\ DOMAIN s = 1..Len(s)
  BY <1>3, SequenceFacts
<1>5. Len(s) = n
  BY <1>4
<1>. QED
  BY <1>3, <1>5 DEF IsList

LEMMA SeqIsList ==
  ASSUME NEW S, NEW s \in Seq(S)
  PROVE  IsList(s)
<1>1. Len(s) \in Nat /\ DOMAIN s = 1..Len(s)
  BY SequenceFacts
<1>2. s = [i \in 1..Len(s) |-> s[i]]
  OBVIOUS
<1>. QED
  BY <1>1, <1>2, ListOf

LEMMA JoinedLists ==
  ASSUME NEW s, NEW t, IsList(s), IsList(t)
  PROVE  /\ IsList(s \o t) /\ Len(s \o t) = Len(s) + Len(t)
         /\ DOMAIN (s \o t) = 1..(Len(s) + Len(t)) /\ DOMAIN s = 1..Len(s) /\ DOMAIN t = 1..Len(t)
         /\ Len(s) \in Nat /\ Len(t) \in Nat
         /\ \A k \in 1..(Len(s) + Len(t)) : (s \o t)[k] = IF k <= Len(s) THEN s[k] ELSE t[k - Len(s)]
<1>. DEFINE S == {s[k] : k \in DOMAIN s} \cup {t[k] : k \in DOMAIN t}
<1>1. s \in Seq(S) /\ t \in Seq(S)
  <2>1. Len(s) \in Nat /\ DOMAIN s = 1..Len(s) /\ Len(t) \in Nat /\ DOMAIN t = 1..Len(t)
    BY ListFacts
  <2>2. s \in Seq({s[k] : k \in DOMAIN s}) /\ t \in Seq({t[k] : k \in DOMAIN t})
    BY DEF IsList
  <2>. QED
    BY <2>1, <2>2
<1>. HIDE DEF S
<1>2. /\ s \o t \in Seq(S) /\ Len(s) \in Nat /\ Len(t) \in Nat /\ Len(s \o t) = Len(s) + Len(t)
      /\ DOMAIN s = 1..Len(s) /\ DOMAIN t = 1..Len(t) /\ DOMAIN (s \o t) = 1..Len(s \o t)
  BY <1>1
<1>3. \A k \in 1..(Len(s) + Len(t)) : (s \o t)[k] = IF k <= Len(s) THEN s[k] ELSE t[k - Len(s)]
  BY <1>1, <1>2
<1>5. IsList(s \o t)
  BY <1>2, SeqIsList
<1>. QED
  BY <1>2, <1>3, <1>5

LEMMA InJoined ==
  ASSUME NEW s, NEW t, NEW p, IsList(s), IsList(t)
  PROVE  /\ Nowhere(s \o t, p) <=> Nowhere(s, p) /\ Nowhere(t, p)
         /\ AtMostOnce(s \o t, p) <=> AtMostOnce(s, p) /\ AtMostOnce(t, p) /\ (Nowhere(s, p) \/ Nowhere(t, p))
<1>. DEFINE a == Len(s) b == Len(t) u == s \o t
<1>1. /\ DOMAIN u = 1..(a + b) /\ DOMAIN s = 1..a /\ DOMAIN t = 1..b /\ a \in Nat /\ b \in Nat
      /\ \A k \in 1..(a + b) : u[k] = IF k <= a THEN s[k] ELSE t[k - a]
  BY JoinedLists
<1>. HIDE DEF a, b, u
<1>2. \A k \in DOMAIN s : k \in DOMAIN u /\ u[k] = s[k]
  BY <1>1
<1>3. \A k \in DOMAIN t : a + k \in DOMAIN u /\ u[a + k] = t[k]
  BY <1>1
<1>4. \A k \in DOMAIN u : (k \in DOMAIN s /\ u[k] = s[k]) \/ (k - a \in DOMAIN t /\ u[k] = t[k - a])
  BY <1>1
<1>5. Nowhere(u, p) <=> Nowhere(s, p) /\ Nowhere(t, p)
  BY <1>2, <1>3, <1>4 DEF Nowhere
<1>6. ASSUME AtMostOnce(u, p) PROVE AtMostOnce(s, p) /\ AtMostOnce(t, p) /\ (Nowhere(s, p) \/ Nowhere(t, p))
  <2>1. AtMostOnce(s, p)
    BY <1>2, <1>6 DEF AtMostOnce
  <2>2. ASSUME NEW j \in DOMAIN t, NEW k \in DOMAIN t, p \in t[j].pages, p \in t[k].pages PROVE j = k
    <3>1. a + j = a + k
      BY <1>3, <1>6, <2>2 DEF AtMostOnce
    <3>. QED
      BY <3>1, <1>1
  <2>3. ASSUME NEW j \in DOMAIN s, NEW k \in DOMAIN t, p \in s[j].pages, p \in t[k].pages PROVE FALSE
    <3>1. j = a + k
      BY <1>2, <1>3, <1>6, <2>3 DEF AtMostOnce
    <3>. QED
      BY <3>1, <1>1
  <2>. QED
    BY <2>1, <2>2, <2>3 DEF AtMostOnce, Nowhere
<1>7. ASSUME AtMostOnce(s, p), AtMostOnce(t, p), Nowhere(s, p) \/ Nowhere(t, p) PROVE AtMostOnce(u, p)
  <2>. SUFFICES ASSUME NEW j \in DOMAIN u, NEW k \in DOMAIN u, p \in u[j].pages, p \in u[k].pages PROVE j = k
    BY DEF AtMostOnce
  <2>1. CASE Nowhere(t, p)
    <3>1. j \in DOMAIN s /\ u[j] = s[j] /\ k \in DOMAIN s /\ u[k] = s[k]
      BY <1>4, <2>1 DEF Nowhere
    <3>. QED
      BY <3>1, <1>7 DEF AtMostOnce
  <2>2. CASE Nowhere(s, p)
    <3>1. j - a \in DOMAIN t /\ u[j] = t[j - a] /\ k - a \in DOMAIN t /\ u[k] = t[k - a]
      BY <1>4, <2>2 DEF Nowhere
    <3>2. j - a = k - a
      BY <3>1, <1>7 DEF AtMostOnce
    <3>. QED
      BY <3>2, <1>1
  <2>. QED
    BY <2>1, <2>2, <1>7
<1>. QED
  BY <1>5, <1>6, <1>7 DEF u

LEMMA OneElement ==
  ASSUME NEW h, NEW p
  PROVE  /\ IsList(<<h>>) /\ Len(<<h>>) = 1 /\ DOMAIN <<h>> = 1..1 /\ <<h>>[1] = h
         /\ AtMostOnce(<<h>>, p) /\ (Nowhere(<<h>>, p) <=> p \notin h.pages)
<1>1. DOMAIN <<h>> = 1..1 /\ <<h>>[1] = h /\ Len(<<h>>) = 1 /\ <<h>> = [i \in 1..1 |-> <<h>>[i]]
  OBVIOUS
<1>2. IsList(<<h>>)
  BY <1>1, ListOf
<1>. QED
  BY <1>1, <1>2 DEF AtMostOnce, Nowhere

(* A list that is not empty is its head before its tail.                   *)
LEMMA HeadAndTail ==
  ASSUME NEW s, IsList(s), s # <<>>
  PROVE  /\ IsList(Tail(s)) /\ s = <<Head(s)>> \o Tail(s)
         /\ Head(s) = s[1] /\ 1 \in DOMAIN s
         /\ \A k \in DOMAIN Tail(s) : k + 1 \in DOMAIN s /\ Tail(s)[k] = s[k + 1]
<1>. DEFINE S == {s[k] : k \in DOMAIN s}
<1>1. s \in Seq(S)
  BY DEF IsList
<1>. HIDE DEF S
<1>2. Len(s) \in Nat /\ Len(s) > 0 /\ DOMAIN s = 1..Len(s) /\ Head(s) = s[1]
  BY <1>1
<1>3. /\ Tail(s) \in Seq(S) /\ Len(Tail(s)) = Len(s) - 1 /\ DOMAIN Tail(s) = 1..(Len(s) - 1)
      /\ \A k \in 1..(Len(s) - 1) : Tail(s)[k] = s[k + 1]
  BY <1>1, <1>2
<1>4. IsList(Tail(s))
  BY <1>3, SeqIsList
<1>5. /\ IsList(<<Head(s)>>) /\ Len(<<Head(s)>>) = 1 /\ <<Head(s)>>[1] = s[1]
  BY <1>2, OneElement
<1>6. /\ IsList(<<Head(s)>> \o Tail(s)) /\ DOMAIN (<<Head(s)>> \o Tail(s)) = 1..Len(s)
      /\ \A k \in 1..Len(s) : (<<Head(s)>> \o Tail(s))[k] = IF k <= 1 THEN s[1] ELSE s[k]
  <2>1. /\ DOMAIN (<<Head(s)>> \o Tail(s)) = 1..(1 + (Len(s) - 1)) /\ IsList(<<Head(s)>> \o Tail(s))
        /\ \A k \in 1..(1 + (Len(s) - 1)) : (<<Head(s)>> \o Tail(s))[k] = IF k <= 1 THEN <<Head(s)>>[k] ELSE Tail(s)[k - 1]
    BY <1>3, <1>4, <1>5, JoinedLists
  <2>2. 1 + (Len(s) - 1) = Len(s)
    BY <1>2
  <2>3. ASSUME NEW k \in 1..Len(s), ~(k <= 1) PROVE Tail(s)[k - 1] = s[k]
    <3>1. k - 1 \in 1..(Len(s) - 1) /\ (k - 1) + 1 = k
      BY <1>2, <2>3
    <3>. QED
      BY <3>1, <1>3
  <2>. QED
    BY <2>1, <2>2, <2>3, <1>2, <1>5
<1>7. \A k \in 1..Len(s) : (<<Head(s)>> \o Tail(s))[k] = s[k]
  BY <1>2, <1>6
<1>8. s = <<Head(s)>> \o Tail(s)
  <2>1. <<Head(s)>> \in Seq(S)
    BY <1>1, <1>2
  <2>2. PICK u : u = <<Head(s)>> \o Tail(s)
    OBVIOUS
  <2>3. u \in Seq(S)
    BY <2>1, <2>2, <1>3
  <2>4. Len(u) = Len(s)
    <3>1. Len(u) = 1 + (Len(s) - 1)
      BY <2>1, <2>2, <1>3
    <3>. QED
      BY <3>1, <1>2
  <2>5. \A k \in 1..Len(s) : u[k] = s[k]
    BY <2>2, <1>7
  <2>6. u = s
    BY <2>3, <2>4, <2>5, <1>1, <1>2
  <2>. QED
    BY <2>2, <2>6
<1>. QED
  BY <1>2, <1>3, <1>4, <1>8

(* Groups put in the place of a list's head share its pages out.           *)
SharesOut(parts, h) ==
  \A p : IF p \in h.pages THEN Once(parts, p) ELSE Nowhere(parts, p)

LEMMA PagesStayOnce ==
  ASSUME NEW s, NEW t, NEW parts, NEW p, IsList(s), IsList(t), IsList(parts), t # <<>>,
         SharesOut(parts, Head(t)), Once(s \o t, p)
  PROVE  Once((s \o parts) \o Tail(t), p)
<1>. DEFINE h == Head(t) rest == Tail(t)
<1>1. IsList(rest) /\ t = <<h>> \o rest
  BY HeadAndTail
<1>2. IsList(<<h>>) /\ AtMostOnce(<<h>>, p) /\ (Nowhere(<<h>>, p) <=> p \notin h.pages)
  BY OneElement
<1>3. IF p \in h.pages THEN Once(parts, p) ELSE Nowhere(parts, p)
  BY DEF SharesOut
<1>. HIDE DEF h, rest
<1>4. /\ Nowhere(t, p) <=> Nowhere(<<h>>, p) /\ Nowhere(rest, p)
      /\ AtMostOnce(t, p) <=> AtMostOnce(<<h>>, p) /\ AtMostOnce(rest, p) /\ (Nowhere(<<h>>, p) \/ Nowhere(rest, p))
  BY <1>1, <1>2, InJoined
<1>5. /\ Nowhere(s \o t, p) <=> Nowhere(s, p) /\ Nowhere(t, p)
      /\ AtMostOnce(s \o t, p) <=> AtMostOnce(s, p) /\ AtMostOnce(t, p) /\ (Nowhere(s, p) \/ Nowhere(t, p))
  BY InJoined
<1>6. /\ Nowhere(s \o parts, p) <=> Nowhere(s, p) /\ Nowhere(parts, p)
      /\ AtMostOnce(s \o parts, p) <=> AtMostOnce(s, p) /\ AtMostOnce(parts, p) /\ (Nowhere(s, p) \/ Nowhere(parts, p))
      /\ IsList(s \o parts)
  BY InJoined, JoinedLists
<1>7. /\ Nowhere((s \o parts) \o rest, p) <=> Nowhere(s \o parts, p) /\ Nowhere(rest, p)
      /\ AtMostOnce((s \o parts) \o rest, p) <=>
           AtMostOnce(s \o parts, p) /\ AtMostOnce(rest, p) /\ (Nowhere(s \o parts, p) \/ Nowhere(rest, p))
  BY <1>1, <1>6, InJoined
<1>8. AtMostOnce(parts, p)
  BY <1>3 DEF Once, Nowhere, AtMostOnce
<1>. QED
  BY <1>2, <1>3, <1>4, <1>5, <1>6, <1>7, <1>8 DEF Once, rest

LEMMA NoElement ==
  ASSUME NEW s, IsList(s), NEW p
  PROVE  /\ IsList(<<>>) /\ s \o <<>> = s /\ <<>> \o s = s
         /\ Nowhere(<<>>, p) /\ AtMostOnce(<<>>, p)
<1>1. s \in Seq({s[k] : k \in DOMAIN s})
  BY DEF IsList
<1>2. <<>> \in Seq({s[k] : k \in DOMAIN s}) /\ DOMAIN <<>> = {}
  OBVIOUS
<1>3. s \o <<>> = s /\ <<>> \o s = s
  BY <1>1
<1>. QED
  BY <1>2, <1>3, SeqIsList DEF Nowhere, AtMostOnce

LEMMA Appended ==
  ASSUME NEW s, IsList(s), NEW h
  PROVE  Append(s, h) = s \o <<h>>
<1>. DEFINE S == {s[k] : k \in DOMAIN s} \cup {h}
<1>1. s \in Seq({s[k] : k \in DOMAIN s})
  BY DEF IsList
<1>2. Len(s) \in Nat /\ DOMAIN s = 1..Len(s)
  BY ListFacts
<1>3. s \in Seq(S) /\ h \in S
  BY <1>1, <1>2
<1>. HIDE DEF S
<1>4. <<h>> \in Seq(S)
  BY <1>3
<1>. QED
  BY <1>3, <1>4

LEMMA AreKeptJoined ==
  ASSUME NEW s, NEW t, IsList(s), IsList(t), AreKept(s), AreKept(t)
  PROVE  AreKept(s \o t)
<1>1. /\ DOMAIN (s \o t) = 1..(Len(s) + Len(t)) /\ DOMAIN s = 1..Len(s) /\ DOMAIN t = 1..Len(t)
      /\ Len(s) \in Nat /\ Len(t) \in Nat
      /\ \A k \in 1..(Len(s) + Len(t)) : (s \o t)[k] = IF k <= Len(s) THEN s[k] ELSE t[k - Len(s)]
  BY JoinedLists
<1>. SUFFICES ASSUME NEW k \in 1..(Len(s) + Len(t)) PROVE IsKept((s \o t)[k])
  BY <1>1 DEF AreKept
<1>2. CASE k <= Len(s)
  BY <1>1, <1>2 DEF AreKept
<1>3. CASE ~(k <= Len(s))
  <2>1. k - Len(s) \in DOMAIN t
    BY <1>1, <1>3
  <2>. QED
    BY <2>1, <1>1, <1>3 DEF AreKept
<1>. QED
  BY <1>2, <1>3

LEMMA KeptElement ==
  ASSUME NEW h, IsKept(h)
  PROVE  AreKept(<<h>>)
BY OneElement DEF AreKept

LEMMA KeptHeadAndTail ==
  ASSUME NEW s, IsList(s), s # <<>>, AreKept(s)
  PROVE  IsKept(Head(s)) /\ AreKept(Tail(s))
BY HeadAndTail DEF AreKept

(* A group in its own place.                                               *)
LEMMA ItselfSharesOut == \A h : SharesOut(<<h>>, h)
BY OneElement DEF SharesOut, Once

(* Two groups that share one's pages.                                      *)
LEMMA TwoShareOut ==
  ASSUME NEW h, NEW a, NEW b, a.pages \cup b.pages = h.pages, a.pages \cap b.pages = {}
  PROVE  IsList(<<a, b>>) /\ SharesOut(<<a, b>>, h) /\ (IsKept(a) /\ IsKept(b) => AreKept(<<a, b>>))
<1>. DEFINE s == <<a, b>>
<1>1. DOMAIN s = 1..2 /\ s[1] = a /\ s[2] = b /\ s = [i \in 1..2 |-> s[i]]
  OBVIOUS
<1>. HIDE DEF s
<1>2. IsList(s)
  BY <1>1, ListOf
<1>3. \A k \in DOMAIN s : k = 1 \/ k = 2
  BY <1>1
<1>4. SharesOut(s, h)
  BY <1>1, <1>3 DEF SharesOut, Once, AtMostOnce, Nowhere
<1>5. IsKept(a) /\ IsKept(b) => AreKept(s)
  BY <1>1, <1>3 DEF AreKept
<1>. QED
  BY <1>2, <1>4, <1>5 DEF s

(* The fields of labels and groups.                                        *)
LEMMA LabelFacts ==
  ASSUME NEW l, NEW t, NEW s, l = Label(t, s)
  PROVE  l.type = t /\ l.suffix = s /\ l = Label(l.type, l.suffix)
BY DEF Label

LEMMA PlainFacts ==
  ASSUME NEW l, NEW t, l = Plain(t)
  PROVE  l.type = t /\ l.suffix = "" /\ l = Label(l.type, l.suffix)
<1>1. l = Label(t, "")
  BY DEF Plain
<1>. QED
  BY <1>1, LabelFacts

MadeOf(g, l, f, P) == g = [label |-> l, fit |-> f, pages |-> P]

LEMMA GroupOf ==
  ASSUME NEW l, NEW f, NEW P, NEW g, MadeOf(g, l, f, P)
  PROVE  /\ g.label = l /\ g.fit = f /\ g.pages = P
         /\ IsGroup(g) <=> l = Label(l.type, l.suffix) /\ P \subseteq Nat /\ IsFiniteSet(P)
<1>1. g.label = l /\ g.fit = f /\ g.pages = P
  BY DEF MadeOf
<1>2. l = Label(l.type, l.suffix) /\ P \subseteq Nat /\ IsFiniteSet(P) => IsGroup(g)
  BY <1>1 DEF IsGroup, MadeOf
<1>3. IsGroup(g) => l = Label(l.type, l.suffix) /\ P \subseteq Nat /\ IsFiniteSet(P)
  BY <1>1 DEF IsGroup, MadeOf
<1>. QED
  BY <1>1, <1>2, <1>3

LEMMA GroupExcept ==
  ASSUME NEW l, NEW f, NEW P, NEW g, MadeOf(g, l, f, P)
  PROVE  /\ \A o : [g EXCEPT !.pages = o] = [label |-> l, fit |-> f, pages |-> o]
         /\ \A m : [g EXCEPT !.label = m] = [label |-> m, fit |-> f, pages |-> P]
<1>1. \A o : [g EXCEPT !.pages = o] = [label |-> l, fit |-> f, pages |-> o]
  BY DEF MadeOf
<1>2. \A m : [g EXCEPT !.label = m] = [label |-> m, fit |-> f, pages |-> P]
  BY DEF MadeOf
<1>. QED
  BY <1>1, <1>2

LEMMA GroupIs ==
  ASSUME NEW g, IsGroup(g)
  PROVE  MadeOf(g, g.label, g.fit, g.pages)
<1>1. PICK l : l = Label(g.label.type, g.label.suffix)
  OBVIOUS
<1>2. g = [label |-> l, fit |-> g.fit, pages |-> g.pages]
  BY <1>1 DEF IsGroup
<1>. QED
  BY <1>2 DEF MadeOf

(* The passes that take groups apart.                                      *)
LEMMA SplitSharesOut ==
  ASSUME NEW g, IsKept(g)
  PROVE  IsList(SplitOf(g)) /\ AreKept(SplitOf(g)) /\ SharesOut(SplitOf(g), g)
<1>. DEFINE lead == Lead(g.pages)
            own == {p \in g.pages : Agrees(p, lead, "date") /\ Agrees(p, lead, "income")}
<1>1. CASE SplitOf(g) = <<g>>
  BY <1>1, OneElement, KeptElement, ItselfSharesOut
<1>2. CASE SplitOf(g) # <<g>>
  <2>1. PICK o : o = own /\ o \subseteq g.pages
    OBVIOUS
  <2>2. /\ TwoForms(g)
        /\ SplitOf(g) = <<[g EXCEPT !.pages = o], PriorOf(g, g.pages \ o)>>
    BY <1>2, <2>1 DEF SplitOf
  <2>3. PICK l, f, P : MadeOf(g, l, f, P)
    BY GroupIs DEF IsKept
  <2>4. /\ g.label = l /\ g.fit = f /\ g.pages = P /\ l = Label(l.type, l.suffix) /\ l.suffix = ""
        /\ P \subseteq Nat /\ IsFiniteSet(P) /\ IsCert(g)
    <3>1. IsGroup(g) /\ IsCert(g) /\ g.label.suffix = ""
      BY <2>2 DEF TwoForms, IsKept
    <3>2. g.label = l /\ g.fit = f /\ g.pages = P
      BY <2>3, GroupOf
    <3>3. l = Label(l.type, l.suffix) /\ P \subseteq Nat /\ IsFiniteSet(P)
      BY <2>3, <3>1, GroupOf
    <3>. QED
      BY <3>1, <3>2, <3>3
  <2>5. IsFiniteSet(o) /\ IsFiniteSet(P \ o) /\ o \subseteq P
    BY <2>1, <2>4, FS_Subset
  <2>6. PICK a : MadeOf(a, l, f, o)
    BY DEF MadeOf
  <2>7. PICK m : m = Label(l.type, "previous")
    OBVIOUS
  <2>8. PICK b : MadeOf(b, m, f, P \ o)
    BY DEF MadeOf
  <2>9. a.label = l /\ a.pages = o /\ b.label = m /\ b.pages = P \ o /\ m.type = l.type /\ m.suffix = "previous"
    BY <2>6, <2>7, <2>8, LabelFacts, GroupOf
  <2>11. SplitOf(g) = <<a, b>>
    <3>1. [g EXCEPT !.pages = o] = a
      BY <2>3, <2>6, GroupExcept DEF MadeOf
    <3>2. PriorOf(g, g.pages \ o) = b
      BY <2>4, <2>7, <2>8 DEF PriorOf, MadeOf
    <3>. QED
      BY <3>1, <3>2, <2>2
  <2>12. IsKept(a)
    <3>1. IsGroup(a)
      BY <2>4, <2>5, <2>6, GroupOf
    <3>. QED
      BY <3>1, <2>4, <2>9 DEF IsKept
  <2>13. IsKept(b)
    <3>1. m = Label(m.type, m.suffix)
      BY <2>7, LabelFacts
    <3>2. IsGroup(b)
      BY <3>1, <2>4, <2>5, <2>8, GroupOf
    <3>. QED
      BY <3>2, <2>4, <2>9 DEF IsKept, IsCert
  <2>10. a.pages \cup b.pages = g.pages /\ a.pages \cap b.pages = {}
    BY <2>4, <2>5, <2>9
  <2>. QED
    BY <2>10, <2>11, <2>12, <2>13, TwoShareOut
<1>. QED
  BY <1>1, <1>2

LEMMA FirstIn ==
  ASSUME NEW T, T \subseteq Nat, T # {}
  PROVE  First(T) \in T /\ \A q \in T : First(T) <= q
BY LeastOf DEF First

(* Every page of a group is in one of its runs.                            *)
LEMMA RunOfPage ==
  ASSUME NEW g, IsGroup(g), NEW p \in g.pages
  PROVE  Cardinality(Starts(g)) \in Nat /\ RunOf(g, p) \in 1..Cardinality(Starts(g))
<1>. DEFINE S == Starts(g)
            T == {q \in S : q <= p}
<1>1. g.pages \subseteq Nat /\ IsFiniteSet(g.pages) /\ S \subseteq g.pages
  BY DEF IsGroup, Starts
<1>2. PICK f \in g.pages : \A q \in g.pages : f <= q
  BY <1>1, LeastOf
<1>3. f \in T
  <2>1. f \in Nat /\ p \in Nat /\ \A q \in g.pages : q \in Nat /\ ~(q < f)
    BY <1>1, <1>2
  <2>2. BeginsRun(g, f)
    BY <2>1 DEF BeginsRun
  <2>. QED
    BY <2>2, <1>2 DEF Starts
<1>4. IsFiniteSet(S) /\ Cardinality(S) \in Nat
  BY <1>1, FS_Subset, FS_CardinalityType
<1>5. IsFiniteSet(T) /\ Cardinality(T) \in Nat /\ Cardinality(T) <= Cardinality(S)
  <2>1. T \in SUBSET S
    OBVIOUS
  <2>. HIDE DEF T, S
  <2>. QED
    BY <2>1, <1>4, FS_Subset, FS_CardinalityType
<1>6. Cardinality(T) # 0
  BY <1>3, <1>5, FS_EmptySet
<1>7. RunOf(g, p) = Cardinality(T)
  BY DEF RunOf
<1>. HIDE DEF S, T
<1>8. Cardinality(S) \in Nat /\ RunOf(g, p) \in 1..Cardinality(S)
  BY <1>4, <1>5, <1>6, <1>7
<1>. QED
  BY <1>8 DEF S

LEMMA RunsShareOut ==
  ASSUME NEW g, IsKept(g)
  PROVE  IsList(Runs(g)) /\ AreKept(Runs(g)) /\ SharesOut(Runs(g), g)
<1>. DEFINE n == Cardinality(Starts(g))
            r == Runs(g)
            In(k) == {p \in g.pages : RunOf(g, p) = k}
<1>1. g.pages \subseteq Nat /\ IsFiniteSet(g.pages) /\ IsGroup(g)
  BY DEF IsKept, IsGroup
<1>2. n \in Nat
  <2>1. Starts(g) \subseteq g.pages
    BY DEF Starts
  <2>. QED
    BY <2>1, <1>1, FS_Subset, FS_CardinalityType
<1>3. DOMAIN r = 1..n /\ r = [i \in 1..n |-> r[i]]
  BY DEF Runs
<1>4. \A k \in 1..n : \E t, f : r[k] = [label |-> Plain(t), fit |-> f, pages |-> In(k)]
  BY DEF Runs
<1>. HIDE DEF r, n
<1>5. IsList(r)
  BY <1>2, <1>3, ListOf
<1>6. ASSUME NEW k \in 1..n PROVE IsKept(r[k])
  <2>1. PICK t, f : r[k] = [label |-> Plain(t), fit |-> f, pages |-> In(k)]
    BY <1>4
  <2>2. In(k) \subseteq Nat /\ IsFiniteSet(In(k))
    BY <1>1, FS_Subset
  <2>. HIDE DEF In
  <2>3. PICK x, l : x = r[k] /\ l = Plain(t)
    OBVIOUS
  <2>4. MadeOf(x, l, f, In(k))
    BY <2>1, <2>3 DEF MadeOf
  <2>5. l.suffix = "" /\ l = Label(l.type, l.suffix)
    BY <2>3, PlainFacts
  <2>6. x.label = l /\ IsGroup(x)
    <3>1. PICK P : P = In(k)
      OBVIOUS
    <3>2. MadeOf(x, l, f, P) /\ l = Label(l.type, l.suffix) /\ P \subseteq Nat /\ IsFiniteSet(P)
      BY <3>1, <2>2, <2>4, <2>5
    <3>3. IsGroup(x)
      BY <3>2, GroupOf
    <3>4. x.label = l
      BY <3>2, GroupOf
    <3>. QED
      BY <3>3, <3>4
  <2>. QED
    BY <2>3, <2>5, <2>6 DEF IsKept
<1>7. ASSUME NEW k \in 1..n PROVE r[k].pages = In(k)
  <2>1. PICK t, f : r[k] = [label |-> Plain(t), fit |-> f, pages |-> In(k)]
    BY <1>4
  <2>. HIDE DEF In
  <2>. QED
    BY <2>1
<1>8. \A p \in g.pages : RunOf(g, p) \in 1..n
  BY <1>1, RunOfPage DEF n
<1>9. SharesOut(r, g)
  BY <1>3, <1>7, <1>8 DEF SharesOut, Once, AtMostOnce, Nowhere
<1>. QED
  BY <1>3, <1>5, <1>6, <1>9 DEF AreKept, r

(* A list under other labels holds the same pages.                         *)
LEMMA Relabelled ==
  ASSUME NEW s, IsList(s), NEW t, t = [k \in DOMAIN s |-> t[k]], \A k \in DOMAIN s : t[k].pages = s[k].pages, NEW p
  PROVE  IsList(t) /\ DOMAIN t = DOMAIN s /\ (Once(s, p) => Once(t, p))
<1>1. DOMAIN t = DOMAIN s
  OBVIOUS
<1>2. IsList(t)
  BY <1>1, ListFacts, ListOf
<1>. QED
  BY <1>1, <1>2 DEF Once, AtMostOnce, Nowhere

-----------------------------------------------------------------------------
(* Each step, from the model's groups on.                                  *)
LEMMA PlacedIsOnce ==
  ASSUME bundle \in Bundles, NEW p, PlacedOnce(p)
  PROVE  AtMostOnce(bundle.groups, p)
<1>. DEFINE s == bundle.groups
            K == {k \in DOMAIN s : p \in s[k].pages}
<1>1. s \in Seq({s[k] : k \in DOMAIN s})
  BY BundleAssumption
<1>2. Len(s) \in Nat /\ DOMAIN s = 1..Len(s)
  BY <1>1, SequenceFacts
<1>3. IsFiniteSet(K) /\ Cardinality(K) \in Nat
  <2>1. IsFiniteSet(DOMAIN s)
    BY <1>2, FS_Interval
  <2>. QED
    BY <2>1, FS_Subset, FS_CardinalityType
<1>4. Cardinality(K) < 2
  BY DEF PlacedOnce
<1>. SUFFICES ASSUME NEW j \in K, NEW k \in K PROVE j = k
  BY DEF AtMostOnce
<1>. HIDE DEF K
<1>5. CASE Cardinality(K) = 0
  BY <1>3, <1>5, FS_EmptySet
<1>6. CASE Cardinality(K) = 1
  <2>1. PICK x : K = {x}
    BY <1>3, <1>6, FS_Singleton
  <2>. QED
    BY <2>1
<1>. QED
  BY <1>3, <1>4, <1>5, <1>6

LEMMA GroupingStarts == GroupInit => GroupInv
<1>. SUFFICES ASSUME GroupInit PROVE GroupInv
  OBVIOUS
<1>1. bundle \in Bundles /\ groups = <<>> /\ pending = bundle.groups /\ groupStep = "build"
  BY DEF GroupInit
<1>2. IsList(pending)
  BY <1>1, BundleAssumption DEF IsList
<1>3. AreKept(pending)
  BY <1>1, BundleAssumption DEF AreKept, IsKept
<1>4. IsList(groups) /\ AreKept(groups)
  <2>1. IsList(<<>>)
    BY <1>2, NoElement
  <2>. QED
    BY <2>1, <1>1 DEF AreKept
<1>5. ASSUME NEW p, PlacedOnce(p) PROVE AtMostOnce(groups \o pending, p)
  BY <1>1, <1>2, <1>5, PlacedIsOnce, NoElement
<1>. QED
  BY <1>1, <1>2, <1>3, <1>4, <1>5 DEF GroupInv, ACertificationIsRead

LEMMA AnswerHolds == GroupInv /\ AnswerGroup => GroupInv'
<1>. SUFFICES ASSUME GroupInv, AnswerGroup PROVE GroupInv'
  OBVIOUS
<1>1. PICK s, t, h, rest : s = groups /\ t = pending /\ h = Head(pending) /\ rest = Tail(pending)
  OBVIOUS
<1>2. /\ IsList(s) /\ IsList(t) /\ t # <<>> /\ AreKept(s) /\ AreKept(t)
      /\ groupStep = "build" /\ \A p : PlacedOnce(p) => AtMostOnce(s \o t, p)
  BY <1>1 DEF GroupInv, AnswerGroup
<1>3. IsList(rest) /\ t = <<h>> \o rest /\ IsKept(h) /\ AreKept(rest)
  BY <1>1, <1>2, HeadAndTail, KeptHeadAndTail
<1>4. IsList(<<h>>) /\ AreKept(<<h>>)
  BY <1>3, OneElement, KeptElement
<1>5. \A p : PlacedOnce(p)' <=> PlacedOnce(p)
  BY DEF AnswerGroup, PlacedOnce, PageOf
<1>6. groups' = IF h.pages = {} THEN s ELSE s \o <<h>>
  BY <1>1, <1>2, Appended DEF AnswerGroup
<1>7. IsList(groups') /\ AreKept(groups')
  <2>1. IsList(s \o <<h>>) /\ AreKept(s \o <<h>>)
    BY <1>2, <1>4, JoinedLists, AreKeptJoined
  <2>. QED
    BY <2>1, <1>2, <1>6
<1>8. ASSUME NEW p, PlacedOnce(p) PROVE AtMostOnce(groups' \o rest, p)
  <2>1. AtMostOnce(s \o t, p)
    BY <1>2, <1>8
  <2>2. AtMostOnce(s, p) /\ AtMostOnce(t, p) /\ (Nowhere(s, p) \/ Nowhere(t, p))
    BY <2>1, <1>2, InJoined
  <2>3. AtMostOnce(<<h>> \o rest, p) /\ (Nowhere(t, p) => Nowhere(<<h>> \o rest, p))
    BY <2>2, <1>3
  <2>4. AtMostOnce(rest, p) /\ (Nowhere(<<h>>, p) \/ Nowhere(rest, p)) /\ (Nowhere(t, p) => Nowhere(<<h>>, p) /\ Nowhere(rest, p))
    BY <2>3, <1>3, <1>4, InJoined
  <2>5. CASE h.pages = {}
    BY <2>2, <2>4, <2>5, <1>2, <1>3, <1>6, InJoined
  <2>6. CASE h.pages # {}
    <3>1. AtMostOnce(<<h>>, p)
      BY OneElement
    <3>2. AtMostOnce(s \o <<h>>, p)
      BY <3>1, <2>2, <2>4, <1>2, <1>4, InJoined
    <3>3. Nowhere(s \o <<h>>, p) \/ Nowhere(rest, p)
      BY <2>2, <2>4, <1>2, <1>4, InJoined
    <3>. QED
      BY <3>2, <3>3, <2>4, <2>6, <1>3, <1>6, <1>7, InJoined
  <2>. QED
    BY <2>5, <2>6
<1>9. groupStep' = "build" /\ bundle' = bundle /\ pending' = rest /\ bundle \in Bundles
  BY <1>1, <1>2 DEF AnswerGroup, GroupInv
<1>. QED
  BY <1>3, <1>5, <1>7, <1>8, <1>9 DEF GroupInv, ACertificationIsRead

LEMMA ForgottenHolds == GroupInv /\ ForgottenPage => GroupInv'
<1>. SUFFICES ASSUME GroupInv, ForgottenPage PROVE GroupInv'
  OBVIOUS
<1>1. PICK s, f, l, h : s = groups /\ f = First(LeftOut) /\ l = Plain(Untyped) /\ h = [label |-> l, fit |-> "none", pages |-> {f}]
  OBVIOUS
<1>2. /\ IsList(s) /\ AreKept(s) /\ pending = <<>> /\ LeftOut # {} /\ bundle \in Bundles
      /\ groupStep = "build" /\ \A p : PlacedOnce(p) => AtMostOnce(s \o pending, p)
  BY <1>1 DEF GroupInv, ForgottenPage
<1>3. f \in Nat /\ f \in LeftOut
  <2>1. LeftOut \subseteq Nat
    BY <1>2, BundleAssumption DEF LeftOut
  <2>. QED
    BY <2>1, <1>1, <1>2, FirstIn
<1>4. IsKept(h)
  <2>1. l.suffix = "" /\ l = Label(l.type, l.suffix)
    BY <1>1, PlainFacts
  <2>2. PICK P : P = {f}
    OBVIOUS
  <2>3. P \subseteq Nat /\ IsFiniteSet(P)
    BY <2>2, <1>3, FS_Singleton
  <2>4. MadeOf(h, l, "none", P)
    BY <2>2, <1>1 DEF MadeOf
  <2>5. IsGroup(h)
    BY <2>1, <2>3, <2>4, GroupOf
  <2>6. h.label = l
    BY <2>4, GroupOf
  <2>. QED
    BY <2>1, <2>5, <2>6 DEF IsKept
<1>5. h.pages = {f}
  BY <1>1
<1>6. IsList(<<h>>) /\ AreKept(<<h>>)
  BY <1>4, OneElement, KeptElement
<1>7. groups' = s \o <<h>>
  BY <1>1, <1>2, Appended DEF ForgottenPage
<1>8. IsList(groups') /\ AreKept(groups')
  BY <1>2, <1>6, <1>7, JoinedLists, AreKeptJoined
<1>9. ASSUME NEW p, PlacedOnce(p) PROVE AtMostOnce(groups' \o <<>>, p)
  <2>1. AtMostOnce(s, p)
    BY <1>2, <1>9, NoElement
  <2>2. AtMostOnce(<<h>>, p) /\ (p # f => Nowhere(<<h>>, p))
    BY <1>5, OneElement
  <2>3. p = f => Nowhere(s, p)
    BY <1>1, <1>3 DEF LeftOut, Nowhere
  <2>4. AtMostOnce(groups', p)
    BY <2>1, <2>2, <2>3, <1>2, <1>6, <1>7, InJoined
  <2>. QED
    BY <2>4, <1>8, NoElement
<1>10. \A p : PlacedOnce(p)' <=> PlacedOnce(p)
  BY DEF ForgottenPage, PlacedOnce, PageOf
<1>11. groupStep' = "build" /\ bundle' = bundle /\ pending' = <<>>
  BY <1>2 DEF ForgottenPage
<1>12. IsList(<<>>) /\ AreKept(<<>>)
  BY <1>2, NoElement DEF AreKept
<1>. QED
  BY <1>2, <1>8, <1>9, <1>10, <1>11, <1>12 DEF GroupInv, ACertificationIsRead

LEMMA BeginSplitHolds == GroupInv /\ BeginSplit => GroupInv'
<1>. SUFFICES ASSUME GroupInv, BeginSplit PROVE GroupInv'
  OBVIOUS
<1>1. PICK s : s = groups
  OBVIOUS
<1>2. /\ IsList(s) /\ AreKept(s) /\ pending = <<>> /\ LeftOut = {} /\ bundle \in Bundles
      /\ \A p : PlacedOnce(p) => AtMostOnce(s \o <<>>, p)
  BY <1>1 DEF GroupInv, BeginSplit
<1>3. ASSUME NEW p, PlacedOnce(p) PROVE Once(<<>> \o s, p)
  <2>1. AtMostOnce(s, p)
    BY <1>2, <1>3, NoElement
  <2>2. ~Nowhere(s, p)
    BY <1>1, <1>2, <1>3 DEF LeftOut, PlacedOnce, Nowhere
  <2>. QED
    BY <2>1, <2>2, <1>2, NoElement DEF Once
<1>4. IsList(<<>>) /\ AreKept(<<>>)
  BY <1>2, NoElement DEF AreKept
<1>5. \A p : PlacedOnce(p)' <=> PlacedOnce(p)
  BY DEF BeginSplit, PlacedOnce, PageOf
<1>6. groupStep' = "split" /\ bundle' = bundle /\ groups' = <<>> /\ pending' = s
  BY <1>1 DEF BeginSplit
<1>. QED
  BY <1>2, <1>3, <1>4, <1>5, <1>6 DEF GroupInv, ACertificationIsRead

(* Any pass that puts in a group's place groups that share its pages out.  *)
LEMMA PartsHold ==
  ASSUME GroupInv, groupStep \in {"split", "relabel"}, pending # <<>>, UNCHANGED <<bundle, groupStep>>,
         NEW parts, IsList(parts), AreKept(parts), SharesOut(parts, Head(pending)),
         groups' = groups \o parts, pending' = Tail(pending)
  PROVE  GroupInv'
<1>1. PICK s, t : s = groups /\ t = pending
  OBVIOUS
<1>2. /\ IsList(s) /\ IsList(t) /\ t # <<>> /\ AreKept(s) /\ AreKept(t) /\ bundle \in Bundles
      /\ \A p : PlacedOnce(p) => Once(s \o t, p)
  BY <1>1 DEF GroupInv
<1>3. groups' = s \o parts /\ pending' = Tail(t) /\ SharesOut(parts, Head(t))
  BY <1>1
<1>4. IsList(s \o parts) /\ AreKept(s \o parts)
  BY <1>2, JoinedLists, AreKeptJoined
<1>5. IsList(Tail(t)) /\ AreKept(Tail(t))
  BY <1>2, HeadAndTail, KeptHeadAndTail
<1>6. \A p : PlacedOnce(p) => Once((s \o parts) \o Tail(t), p)
  BY <1>2, <1>3, PagesStayOnce
<1>7. \A p : PlacedOnce(p)' <=> PlacedOnce(p)
  BY DEF PlacedOnce, PageOf
<1>. QED
  BY <1>2, <1>3, <1>4, <1>5, <1>6, <1>7 DEF GroupInv, ACertificationIsRead

LEMMA SplitHolds == GroupInv /\ SplitGroup => GroupInv'
<1>. SUFFICES ASSUME GroupInv, SplitGroup PROVE GroupInv'
  OBVIOUS
<1>1. PICK h : h = Head(pending)
  OBVIOUS
<1>2. IsKept(h)
  BY <1>1, KeptHeadAndTail DEF GroupInv, SplitGroup
<1>3. IsList(SplitOf(h)) /\ AreKept(SplitOf(h)) /\ SharesOut(SplitOf(h), h)
  BY <1>2, SplitSharesOut
<1>. QED
  BY <1>1, <1>3, PartsHold DEF SplitGroup

LEMMA RelabelHolds == GroupInv /\ RelabelGroup => GroupInv'
<1>. SUFFICES ASSUME GroupInv, RelabelGroup PROVE GroupInv'
  OBVIOUS
<1>1. PICK h, parts : h = Head(pending) /\ parts = IF IsIgnored(h) THEN <<h>> ELSE Runs(h)
  OBVIOUS
<1>2. IsKept(h)
  BY <1>1, KeptHeadAndTail DEF GroupInv, RelabelGroup
<1>3. IsList(parts) /\ AreKept(parts) /\ SharesOut(parts, h)
  BY <1>1, <1>2, RunsShareOut, OneElement, KeptElement, ItselfSharesOut
<1>. QED
  BY <1>1, <1>3, PartsHold DEF RelabelGroup

(* A group under another label.                                            *)
Relabels(h, g, t, x) == h = [g EXCEPT !.label = Label(t, x)]
IsFor(x, t) == x = "" \/ (x = "previous" /\ t \in CertForms)

LEMMA KeptUnderLabel ==
  ASSUME NEW g, IsKept(g), NEW t, NEW x, IsFor(x, t),
         NEW h, Relabels(h, g, t, x)
  PROVE  IsKept(h) /\ h.pages = g.pages /\ h.label = Label(t, x)
<1>1. PICK l, f, P : MadeOf(g, l, f, P)
  BY GroupIs DEF IsKept
<1>2. PICK m : m = Label(t, x)
  OBVIOUS
<1>3. g.pages = P
  BY <1>1, GroupOf
<1>4. IsGroup(g)
  BY DEF IsKept
<1>5. P \subseteq Nat /\ IsFiniteSet(P)
  BY <1>1, <1>4, GroupOf
<1>6. MadeOf(h, m, f, P)
  BY <1>1, <1>2, GroupExcept DEF MadeOf, Relabels
<1>7. m.type = t /\ m.suffix = x
  BY <1>2, LabelFacts
<1>8. m = Label(m.type, m.suffix)
  BY <1>2, <1>7
<1>9. IsGroup(h)
  BY <1>5, <1>6, <1>8, GroupOf
<1>10. h.label = m
  BY <1>6, GroupOf
<1>11. h.pages = P
  BY <1>6, GroupOf
<1>. QED
  BY <1>2, <1>3, <1>7, <1>9, <1>10, <1>11 DEF IsKept, IsCert, IsFor

LEMMA OrderHolds == GroupInv /\ OrderCertifications => GroupInv'
<1>. SUFFICES ASSUME GroupInv, OrderCertifications PROVE GroupInv'
  OBVIOUS
<1>1. PICK s, t : s = groups /\ t = pending'
  OBVIOUS
<1>2. /\ IsList(s) /\ AreKept(s) /\ pending = <<>> /\ bundle \in Bundles
      /\ \A p : PlacedOnce(p) => Once(s \o <<>>, p)
  BY <1>1 DEF GroupInv, OrderCertifications
<1>3. t = [k \in DOMAIN s |-> t[k]]
  BY <1>1 DEF OrderCertifications
<1>4. ASSUME NEW k \in DOMAIN s PROVE IsKept(t[k]) /\ t[k].pages = s[k].pages
  <2>1. PICK g, y : g = s[k] /\ y = g.label.type
    OBVIOUS
  <2>2. \/ t[k] = g
        \/ t[k] = [g EXCEPT !.label = Plain(y)] /\ y \in CertForms
        \/ t[k] = [g EXCEPT !.label = Label(y, "previous")] /\ y \in CertForms
    BY <1>1, <2>1 DEF OrderCertifications
  <2>3. IsKept(g)
    BY <1>2, <2>1 DEF AreKept
  <2>4. CASE t[k] = g
    BY <2>1, <2>3, <2>4
  <2>5. CASE t[k] = [g EXCEPT !.label = Plain(y)] /\ y \in CertForms
    <3>1. PICK h : h = t[k]
      OBVIOUS
    <3>2. Relabels(h, g, y, "") /\ IsFor("", y)
      BY <3>1, <2>5 DEF Plain, Relabels, IsFor
    <3>3. IsKept(h) /\ h.pages = g.pages /\ h.label = Label(y, "")
      BY <3>2, <2>3, KeptUnderLabel
    <3>. QED
      BY <3>1, <3>3, <2>1
  <2>6. CASE t[k] = [g EXCEPT !.label = Label(y, "previous")] /\ y \in CertForms
    <3>1. Relabels(t[k], g, y, "previous") /\ IsFor("previous", y)
      BY <2>6 DEF Relabels, IsFor
    <3>. QED
      BY <3>1, <2>1, <2>3, KeptUnderLabel
  <2>. QED
    BY <2>2, <2>4, <2>5, <2>6
<1>5. IsList(t) /\ AreKept(t)
  BY <1>2, <1>3, <1>4, Relabelled DEF AreKept
<1>6. ASSUME NEW p, PlacedOnce(p) PROVE Once(<<>> \o t, p)
  <2>1. Once(s, p)
    BY <1>2, <1>6, NoElement
  <2>2. Once(t, p)
    BY <2>1, <1>2, <1>3, <1>4, Relabelled
  <2>. QED
    BY <2>2, <1>5, NoElement
<1>7. \A p : PlacedOnce(p)' <=> PlacedOnce(p)
  BY DEF OrderCertifications, PlacedOnce, PageOf
<1>8. IsList(<<>>) /\ AreKept(<<>>)
  BY <1>2, NoElement DEF AreKept
<1>9. groupStep' = "relabel" /\ bundle' = bundle /\ groups' = <<>> /\ pending' = t
  BY <1>1 DEF OrderCertifications
<1>. QED
  BY <1>2, <1>5, <1>6, <1>7, <1>8, <1>9 DEF GroupInv, ACertificationIsRead

(* A pass over finished groups that changes labels only.                   *)
LEMMA LabelsOnly ==
  ASSUME GroupInv, pending = <<>>, UNCHANGED <<bundle, pending>>, groupStep # "build", groupStep' # "build",
         NEW t, groups' = t, t = [k \in DOMAIN groups |-> t[k]], \A k \in DOMAIN groups : t[k].pages = groups[k].pages
  PROVE  /\ IsList(t) /\ DOMAIN t = DOMAIN groups /\ IsList(pending') /\ AreKept(pending') /\ bundle' \in Bundles
         /\ \A p : PlacedOnce(p)' => Once(groups' \o pending', p)
<1>1. PICK s : s = groups
  OBVIOUS
<1>2. IsList(s) /\ bundle \in Bundles /\ \A p : PlacedOnce(p) => Once(s \o <<>>, p)
  BY <1>1 DEF GroupInv
<1>3. t = [k \in DOMAIN s |-> t[k]] /\ \A k \in DOMAIN s : t[k].pages = s[k].pages
  BY <1>1
<1>4. IsList(t) /\ DOMAIN t = DOMAIN s
  BY <1>2, <1>3, Relabelled
<1>5. ASSUME NEW p, PlacedOnce(p) PROVE Once(t \o <<>>, p)
  BY <1>2, <1>3, <1>4, <1>5, Relabelled, NoElement
<1>6. \A p : PlacedOnce(p)' <=> PlacedOnce(p)
  BY DEF PlacedOnce, PageOf
<1>7. IsList(<<>>) /\ AreKept(<<>>)
  BY <1>2, NoElement DEF AreKept
<1>. QED
  BY <1>1, <1>2, <1>4, <1>5, <1>6, <1>7

LEMMA DemoteHudHolds == GroupInv /\ DemoteHudOnly => GroupInv'
<1>. SUFFICES ASSUME GroupInv, DemoteHudOnly PROVE GroupInv'
  OBVIOUS
<1>1. PICK s, t, l : s = groups /\ t = groups' /\ l = Plain(Untyped)
  OBVIOUS
<1>2. IsList(s) /\ AreKept(s)
  BY <1>1 DEF GroupInv, DemoteHudOnly
<1>3. t = [k \in DOMAIN s |-> t[k]]
  BY <1>1 DEF DemoteHudOnly
<1>4. ASSUME NEW k \in DOMAIN s PROVE IsKept(t[k]) /\ t[k].pages = s[k].pages
  <2>1. PICK g, x : g = s[k] /\ x = t[k]
    OBVIOUS
  <2>2. x = g \/ x = [label |-> l, fit |-> "none", pages |-> g.pages]
    BY <1>1, <2>1 DEF DemoteHudOnly
  <2>3. IsKept(g)
    BY <1>2, <2>1 DEF AreKept
  <2>4. CASE x = g
    BY <2>1, <2>3, <2>4
  <2>5. CASE x = [label |-> l, fit |-> "none", pages |-> g.pages]
    <3>1. PICK P : P = g.pages
      OBVIOUS
    <3>2. MadeOf(x, l, "none", P)
      BY <3>1, <2>5 DEF MadeOf
    <3>3. P \subseteq Nat /\ IsFiniteSet(P)
      BY <3>1, <2>3 DEF IsKept, IsGroup
    <3>4. l.suffix = "" /\ l = Label(l.type, l.suffix)
      BY <1>1, PlainFacts
    <3>5. IsGroup(x)
      BY <3>2, <3>3, <3>4, GroupOf
    <3>6. x.label = l /\ x.pages = P
      BY <3>2, GroupOf
    <3>. QED
      BY <2>1, <3>1, <3>4, <3>5, <3>6 DEF IsKept
  <2>. QED
    BY <2>2, <2>4, <2>5
<1>5. /\ groupStep = "relabel" /\ pending = <<>> /\ UNCHANGED <<bundle, pending>> /\ groupStep' = "promote" /\ groups' = t
  BY <1>1 DEF DemoteHudOnly
<1>6. /\ IsList(t) /\ DOMAIN t = DOMAIN s /\ IsList(pending') /\ AreKept(pending') /\ bundle' \in Bundles
      /\ \A p : PlacedOnce(p)' => Once(groups' \o pending', p)
  BY <1>1, <1>3, <1>4, <1>5, LabelsOnly
<1>7. AreKept(t)
  BY <1>4, <1>6 DEF AreKept
<1>. QED
  BY <1>5, <1>6, <1>7 DEF GroupInv, ACertificationIsRead

(* One prior document goes before all the others.                          *)
LEMMA FirstDateIsNat ==
  ASSUME bundle \in Bundles, NEW g, IsGroup(g)
  PROVE  FirstDate(g) \in Nat
<1>1. ASSUME NEW p PROVE Date(p) \in Nat
  BY BundleAssumption DEF Date, PageOf, BlankPage, Zero
<1>. QED
  BY <1>1 DEF FirstDate

LEMMA PriorsRank ==
  ASSUME bundle \in Bundles, IsList(groups), AreKept(groups), Priors # {}
  PROVE  \E k \in Priors : \A j \in Priors \ {k} : MoreRecent(k, j)
<1>. DEFINE d(k) == FirstDate(groups[k])
            c(k) == Cardinality(groups[k].pages)
            Before == {x \in Nat \X Nat : MoreRecent(x[1], x[2])}
<1>1. Len(groups) \in Nat /\ DOMAIN groups = 1..Len(groups)
  BY ListFacts
<1>2. Priors \subseteq DOMAIN groups
  BY DEF Priors
<1>3. \A k \in DOMAIN groups : d(k) \in Nat /\ c(k) \in Nat /\ k \in Nat
  <2>. SUFFICES ASSUME NEW k \in DOMAIN groups PROVE d(k) \in Nat /\ c(k) \in Nat /\ k \in Nat
    OBVIOUS
  <2>1. IsGroup(groups[k])
    BY DEF AreKept, IsKept
  <2>2. IsFiniteSet(groups[k].pages)
    BY <2>1 DEF IsGroup
  <2>3. d(k) \in Nat
    BY <2>1, FirstDateIsNat
  <2>4. c(k) \in Nat
    BY <2>2, FS_CardinalityType
  <2>. QED
    BY <2>3, <2>4, <1>1
<1>4. \A k, j : MoreRecent(k, j) <=> d(k) > d(j) \/ (d(k) = d(j) /\ c(k) > c(j)) \/ (d(k) = d(j) /\ c(k) = c(j) /\ k < j)
  BY DEF MoreRecent
<1>5. ASSUME NEW k \in DOMAIN groups, NEW j \in DOMAIN groups PROVE <<k, j>> \in Before <=> MoreRecent(k, j)
  <2>1. PICK x : x = <<k, j>>
    OBVIOUS
  <2>2. x \in Nat \X Nat /\ x[1] = k /\ x[2] = j
    BY <2>1, <1>3
  <2>. QED
    BY <2>1, <2>2
<1>. HIDE DEF d, c, Before
<1>6. Ranks(Before, Priors)
  <2>1. \A i, j \in Priors : i # j => MoreRecent(i, j) \/ MoreRecent(j, i)
    BY <1>2, <1>3, <1>4
  <2>2. \A i, j, k \in Priors : MoreRecent(i, j) /\ MoreRecent(j, k) => MoreRecent(i, k)
    BY <1>2, <1>3, <1>4
  <2>. QED
    BY <2>1, <2>2, <1>2, <1>5 DEF Ranks
<1>7. Priors \subseteq 0..Len(groups)
  BY <1>1, <1>2
<1>8. PICK k \in Priors : \A j \in Priors \ {k} : <<k, j>> \in Before
  BY <1>1, <1>6, <1>7, TopOf
<1>. QED
  BY <1>2, <1>5, <1>8

LEMMA PromoteHolds == GroupInv /\ PromotePrior => GroupInv'
<1>. SUFFICES ASSUME GroupInv, PromotePrior PROVE GroupInv'
  OBVIOUS
<1>1. PICK s, t : s = groups /\ t = groups'
  OBVIOUS
<1>2. IsList(s) /\ AreKept(s) /\ pending = <<>> /\ bundle \in Bundles
  BY <1>1 DEF GroupInv, PromotePrior
<1>3. ASSUME Priors = {}
      PROVE  t = s /\ PriorsArePromoted'
  <2>1. t = s
    BY <1>1, <1>3 DEF PromotePrior
  <2>2. PriorsArePromoted
    BY <1>1, <1>2, <1>3 DEF Priors, PriorsArePromoted, AreKept, IsKept
  <2>. QED
    BY <1>1, <2>1, <2>2 DEF PriorsArePromoted, Current, IsCert, IsIgnored
<1>4. ASSUME Priors # {}
      PROVE  /\ t = [k \in DOMAIN s |-> t[k]] /\ PriorsArePromoted'
             /\ \A k \in DOMAIN s : IsKept(t[k]) /\ t[k].pages = s[k].pages
  <2>1. PICK b : b = CHOOSE k \in Priors : \A j \in Priors \ {k} : MoreRecent(k, j)
    OBVIOUS
  <2>2. b \in Priors
    BY <1>1, <1>2, <1>4, <2>1, PriorsRank
  <2>3. b \in DOMAIN s /\ s[b].label.suffix = "previous"
    BY <1>1, <2>2 DEF Priors
  <2>4. PICK g, h, y : g = s[b] /\ y = g.label.type /\ h = [g EXCEPT !.label = Label(y, "")]
    OBVIOUS
  <2>5. IsKept(g) /\ y \in CertForms
    BY <1>2, <2>3, <2>4 DEF AreKept, IsKept, IsCert
  <2>6. IsKept(h) /\ h.pages = g.pages /\ h.label = Label(y, "")
    <3>1. Relabels(h, g, y, "") /\ IsFor("", y)
      BY <2>4 DEF Relabels, IsFor
    <3>. QED
      BY <3>1, <2>5, KeptUnderLabel
  <2>7. t = [s EXCEPT ![b].label = Plain(y)]
    BY <1>1, <1>4, <2>1, <2>4 DEF PromotePrior
  <2>8. t = [k \in DOMAIN s |-> t[k]] /\ t[b] = h /\ \A k \in DOMAIN s : k # b => t[k] = s[k]
    BY <2>3, <2>4, <2>7 DEF Plain
  <2>9. \A k \in DOMAIN s : IsKept(t[k]) /\ t[k].pages = s[k].pages
    BY <1>2, <2>4, <2>6, <2>8 DEF AreKept
  <2>10. PriorsArePromoted'
    <3>1. h.label.type = y /\ h.label.suffix = ""
      BY <2>6, LabelFacts
    <3>2. IsCert(h) /\ ~IsIgnored(h)
      BY <3>1, <2>5, UntypedAssumption DEF IsCert, IsIgnored
    <3>3. Current(h)
      BY <3>2 DEF Current
    <3>. QED
      BY <1>1, <2>3, <2>8, <3>3 DEF PriorsArePromoted, Current, IsCert, IsIgnored
  <2>. QED
    BY <2>8, <2>9, <2>10
<1>5. /\ t = [k \in DOMAIN s |-> t[k]] /\ PriorsArePromoted'
      /\ \A k \in DOMAIN s : IsKept(t[k]) /\ t[k].pages = s[k].pages
  <2>1. s = [k \in DOMAIN s |-> s[k]]
    BY <1>2 DEF IsList
  <2>. QED
    BY <2>1, <1>2, <1>3, <1>4 DEF AreKept
<1>6. /\ groupStep = "promote" /\ pending = <<>> /\ UNCHANGED <<bundle, pending>> /\ groupStep' = "supersede" /\ groups' = t
  BY <1>1, <1>2 DEF PromotePrior
<1>7. /\ IsList(t) /\ DOMAIN t = DOMAIN s /\ IsList(pending') /\ AreKept(pending') /\ bundle' \in Bundles
      /\ \A p : PlacedOnce(p)' => Once(groups' \o pending', p)
  BY <1>1, <1>5, <1>6, LabelsOnly
<1>8. AreKept(t)
  BY <1>5, <1>7 DEF AreKept
<1>. QED
  BY <1>5, <1>6, <1>7, <1>8 DEF GroupInv, ACertificationIsRead

(* The form that starts first is not set aside.                            *)
LEMMA FirstStays ==
  ASSUME NEW l, NEW j \in StartsFirst(l)
  PROVE  j \in DOMAIN groups /\ Current(groups[j]) /\ ~IsSuperseded(j)
<1>1. /\ j \in DOMAIN groups /\ groups[j].label = l /\ Current(groups[j])
      /\ \A i \in DOMAIN groups : groups[i].label = l => ~(Start(groups[i]) < Start(groups[j]))
  BY DEF StartsFirst
<1>2. \A i \in StartsFirst(groups[j].label) : i \in DOMAIN groups /\ groups[i].label = groups[j].label
  BY DEF StartsFirst
<1>. QED
  BY <1>1, <1>2 DEF IsSuperseded

LEMMA SupersedeHolds == GroupInv /\ DemoteSuperseded => GroupInv'
<1>. SUFFICES ASSUME GroupInv, DemoteSuperseded PROVE GroupInv'
  OBVIOUS
<1>1. PICK s, t : s = groups /\ t = groups'
  OBVIOUS
<1>2. IsList(s) /\ AreKept(s) /\ PriorsArePromoted
  BY <1>1 DEF GroupInv, DemoteSuperseded
<1>3. t = [k \in DOMAIN s |-> t[k]]
  BY <1>1 DEF DemoteSuperseded
<1>4. \A k \in DOMAIN s :
        /\ ~IsSuperseded(k) => t[k] = s[k]
        /\ IsSuperseded(k) => t[k] = [s[k] EXCEPT !.label = Label(s[k].label.type, "superseded")]
  BY <1>1 DEF DemoteSuperseded
<1>5. ASSUME NEW k \in DOMAIN s PROVE t[k].pages = s[k].pages
  <2>1. CASE ~IsSuperseded(k)
    BY <1>4, <2>1
  <2>2. CASE IsSuperseded(k)
    <3>1. PICK g, h, m : g = s[k] /\ h = t[k] /\ m = Label(s[k].label.type, "superseded")
      OBVIOUS
    <3>2. h = [g EXCEPT !.label = m]
      BY <1>4, <2>2, <3>1
    <3>3. PICK l, f, P : MadeOf(g, l, f, P)
      BY <1>2, <3>1, GroupIs DEF AreKept, IsKept
    <3>4. MadeOf(h, m, f, P)
      BY <3>2, <3>3, GroupExcept DEF MadeOf
    <3>. QED
      BY <3>1, <3>3, <3>4, GroupOf
  <2>. QED
    BY <2>1, <2>2
<1>6. /\ groupStep = "supersede" /\ pending = <<>> /\ UNCHANGED <<bundle, pending>> /\ groupStep' = "done" /\ groups' = t
  BY <1>1 DEF DemoteSuperseded, GroupInv
<1>7. /\ IsList(t) /\ DOMAIN t = DOMAIN s /\ IsList(pending') /\ AreKept(pending') /\ bundle' \in Bundles
      /\ \A p : PlacedOnce(p)' => Once(groups' \o pending', p)
  BY <1>1, <1>3, <1>5, <1>6, LabelsOnly
<1>8. ASSUME NEW k \in DOMAIN s, t[k].label.suffix # "" PROVE \E c \in DOMAIN s : Current(s[c])
  <2>1. CASE IsSuperseded(k)
    BY <1>1, <2>1 DEF IsSuperseded
  <2>2. CASE ~IsSuperseded(k)
    BY <1>1, <1>2, <1>4, <1>8, <2>2 DEF PriorsArePromoted
  <2>. QED
    BY <2>1, <2>2
<1>9. ASSUME NEW c \in DOMAIN s, Current(s[c]) PROVE \E k \in DOMAIN s : Current(s[k]) /\ ~IsSuperseded(k)
  <2>1. CASE ~IsSuperseded(c)
    BY <1>9, <2>1
  <2>2. CASE IsSuperseded(c)
    <3>1. PICK j : j \in StartsFirst(groups[c].label)
      BY <2>2 DEF IsSuperseded
    <3>. QED
      BY <1>1, <3>1, FirstStays
  <2>. QED
    BY <2>1, <2>2
<1>10. (\E k \in DOMAIN t : t[k].label.suffix # "") => \E k \in DOMAIN t : Current(t[k])
  <2>1. ASSUME NEW k \in DOMAIN t, t[k].label.suffix # "" PROVE \E c \in DOMAIN t : Current(t[c])
    <3>1. PICK c \in DOMAIN s : Current(s[c]) /\ ~IsSuperseded(c)
      BY <1>7, <1>8, <1>9, <2>1
    <3>. QED
      BY <3>1, <1>4, <1>7
  <2>. QED
    BY <2>1
<1>11. ACertificationIsRead'
  BY <1>6, <1>10 DEF ACertificationIsRead, Current, IsCert, IsIgnored
<1>. QED
  BY <1>6, <1>7, <1>11 DEF GroupInv

LEMMA GroupingStutters == GroupInv /\ UNCHANGED groupVars => GroupInv'
BY DEF GroupInv, groupVars, PlacedOnce, PageOf, PriorsArePromoted, ACertificationIsRead, Current, IsCert, IsIgnored

LEMMA GroupStepHolds == GroupInv /\ [GroupNext]_groupVars => GroupInv'
BY AnswerHolds, ForgottenHolds, BeginSplitHolds, SplitHolds, OrderHolds, RelabelHolds, DemoteHudHolds,
   PromoteHolds, SupersedeHolds, GroupingStutters DEF GroupNext

LEMMA GroupAlways == GroupSpec => []GroupInv
BY GroupingStarts, GroupStepHolds, PTL DEF GroupSpec

(* For any packet, and any answer of the model that calls only             *)
(* certifications previous: a packet with a prior certification ends with  *)
(* one that is read (pipeline.py, _promote_prior_certification and         *)
(* _demote_superseded_cert_groups).                                        *)
THEOREM CertificationRead == GroupSpec => []ACertificationIsRead
<1>1. GroupInv => ACertificationIsRead
  BY DEF GroupInv
<1>. QED
  BY <1>1, GroupAlways, PTL

(* For any packet and any number of groups and pages: once the model's     *)
(* groups are completed, a page with text that it placed once or forgot is *)
(* in exactly one group, whatever is split, relabelled, promoted or set    *)
(* aside (two_pass_classifier.py, classify_and_group and its passes).      *)
THEOREM PagesInOneGroup == GroupSpec => []EveryPageIsInOneGroup
<1>1. GroupInv => EveryPageIsInOneGroup
  <2>. SUFFICES ASSUME GroupInv, groupStep # "build", NEW p, PlacedOnce(p)
                PROVE  Cardinality({k \in DOMAIN (groups \o pending) : p \in (groups \o pending)[k].pages}) = 1
    BY DEF EveryPageIsInOneGroup, PlacedOnce
  <2>. DEFINE u == groups \o pending
  <2>1. Once(u, p)
    BY DEF GroupInv
  <2>. HIDE DEF u
  <2>2. PICK k \in DOMAIN u : p \in u[k].pages
    BY <2>1 DEF Once, Nowhere
  <2>3. {j \in DOMAIN u : p \in u[j].pages} = {k}
    BY <2>1, <2>2 DEF Once, AtMostOnce
  <2>4. Cardinality({j \in DOMAIN u : p \in u[j].pages}) = 1
    BY <2>3, FS_Singleton
  <2>. QED
    BY <2>4 DEF u
<1>. QED
  BY <1>1, GroupAlways, PTL
=============================================================================
