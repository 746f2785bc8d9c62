---------------------------- MODULE PageReading -----------------------------
(***************************************************************************)
(* How the text of each page of a packet is decided (process_pdf in        *)
(* app/services/pdf_service.py, with ocr_service.py): the first OCR tier,  *)
(* the rotation probe, the second tier, the gates that queue a page for a  *)
(* second read, the PDF's own text layer, the vision read, and the files   *)
(* written at the end. The phases run one after the other; within one, the *)
(* results are folded in page by page, in page order.                      *)
(*                                                                         *)
(* A text is the sequence of the readers it was put together from. A read  *)
(* carries what the phases tell apart: the class of its plain length, its  *)
(* composite score in twentieths, if it has one, its reliability flags,    *)
(* what the tests on the text would find in it (its signs), whether the    *)
(* service asked for another engine, and the images its text was read from.*)
(***************************************************************************)
EXTENDS Integers, Sequences, FiniteSets

CONSTANTS
  Pages,         \* number of pages of the packet
  OcrRead,       \* the answers an OCR service can give: [len, score, flags, signs, ext]
  Fallback,      \* ocr_fallback_url is set
  VisionLen      \* lengths of the transcripts the model can return

(* Length classes of plain text: none; under 40 characters; under 200      *)
(* (_MIN_VISION_CHARS); two longer ones.                                   *)
Length == 0..4
ConfirmMin == 2
ReplaceMin == 3

ProbeBelow == 14   \* _ROTATION_PROBE_MAX_COMPOSITE, 0.7
WinMargin == 2     \* _ROTATION_WIN_MARGIN, 0.1
FlagMargin == 1    \* the 0.05 a flag-clean rotation may score less
VisionBelow == 10  \* ocr_vision_threshold, 0.5

(* A score in twentieths, or none. Where reads are compared none is 0, the *)
(* gate of the vision queue lets one without a score through.              *)
NoScore == -1
Score == {NoScore} \cup 0..20
CompositeOf(r) == IF r.score = NoScore THEN 0 ELSE r.score

(* Flags by what the phases do with them. "fabricated" stands for possible *)
(* hallucination, repetitive content and incomplete extraction, "failed"   *)
(* for ocr_failed, no_content and a low-quality scan, "cut" for            *)
(* max_tokens_hit. The rest are added here: by a gate, or as provenance.   *)
ServiceFlag == {"fabricated", "failed", "cut"}
Provenance == {"auto_rotated", "glm", "text_layer", "vision_fallback", "vision_appended"}
VisionQueueFlags == {"fabricated"}
ProbeFlags == {"fabricated", "failed"}
UnreliableFlags == {"fabricated", "failed", "cut", "degenerate"}

(* What the tests on a page's text can find, in the order they are tried;  *)
(* the first one found is the flag the page gets. "partial" stands for     *)
(* suspected content loss, a text layer with numbers the read lost, and an *)
(* unread region.                                                          *)
SignOrder == <<"degenerate", "repetitive", "partial", "marks", "broken">>
Sign == {SignOrder[i] : i \in DOMAIN SignOrder}
FlagOfSign(s) == IF s = "repetitive" THEN "fabricated" ELSE s
Flag == ServiceFlag \cup Provenance \cup {FlagOfSign(s) : s \in Sign}

(* A PDF text layer: long enough to judge and clean or broken, or too      *)
(* short to judge (under forty words).                                     *)
Layer == {"none", "clean", "garbled", "short"}

ASSUME PagesAssumption == Pages \in Nat \ {0}
ASSUME ReadAssumption ==
  /\ OcrRead \subseteq [len : Length, score : Score, flags : SUBSET ServiceFlag,
                        signs : SUBSET Sign, ext : BOOLEAN]
  /\ VisionLen \subseteq Length /\ Fallback \in BOOLEAN

Page == 1..Pages

\* Mutant: the gates look at the reads of before the probe.
PhaseGatesFirst == <<"open", "ocr", "queue", "probe", "tier2", "layer", "vision", "write", "done">>

Phase == <<"open", "ocr", "probe", "tier2", "queue", "layer", "vision", "write", "done">>

VARIABLES
  phase,     \* index into Phase
  at,        \* the next page of the phase
  sideways,  \* the pages scanned turned by a quarter
  image,     \* per page: the processed image, as "scanned" or "corrected"
  kept,      \* pages whose colour render could be kept
  layer,     \* per page: the PDF's text layer, while it counts
  read,      \* per page: the read in use
  queued,    \* low_quality_pages
  vision     \* per page: the image the vision read was given and what it
             \* returned (history)

vars == <<phase, at, sideways, image, kept, layer, read, queued, vision>>

Read == [text : Seq({"ocr", "glm", "layer", "vision"}), len : Length, score : Score,
         flags : SUBSET Flag, signs : SUBSET Sign, ext : BOOLEAN,
         from : SUBSET {"scanned", "corrected"}]

NoVision == [shown |-> "nothing", len |-> 0]

At(name) == Phase[phase] = name

\* Mutant: one page too many.
NextPagePast ==
  IF at > Pages THEN phase' = phase + 1 /\ at' = 1
                ELSE phase' = phase /\ at' = at + 1

(* The page is folded in; after the last one the next phase begins.        *)
NextPage ==
  IF at = Pages THEN phase' = phase + 1 /\ at' = 1
                ELSE phase' = phase /\ at' = at + 1

NoRead == [text |-> <<>>, len |-> 0, score |-> 0, flags |-> {"failed"}, signs |-> {},
           ext |-> TRUE, from |-> {}]

Init ==
  /\ phase = 1 /\ at = 1
  /\ sideways \in SUBSET Page
  /\ image = [p \in Page |-> "scanned"]
  /\ kept \in {Page, {}}
  /\ layer \in [Page -> Layer]
  /\ read = [p \in Page |-> NoRead]
  /\ queued = {}
  /\ vision = [p \in Page |-> NoVision]

-----------------------------------------------------------------------------
(* A scanner writes one layer for the whole file: when two judged pages,   *)
(* and a quarter of those long enough to judge, read as its OCR, every     *)
(* layer of the file is ignored.                                           *)
Garbled(l) == {p \in Page : l[p] = "garbled"}
Judged(l) == {p \in Page : l[p] \in {"clean", "garbled"}}

ScannerLayerFile(l) ==
  Cardinality(Garbled(l)) >= 2 /\ 4 * Cardinality(Garbled(l)) >= Cardinality(Judged(l))

JudgeLayers ==
  /\ At("open")
  /\ phase' = phase + 1 /\ at' = 1
  /\ layer' = IF ScannerLayerFile(layer) THEN [p \in Page |-> "none"] ELSE layer
  /\ UNCHANGED <<sideways, image, kept, read, queued, vision>>

-----------------------------------------------------------------------------
(* One OCR answer as a read of the page's processed image. An answer that  *)
(* asks for another engine is flagged ocr_failed; a call that fails leaves *)
(* an empty read.                                                          *)
OcrResult(o, img) ==
  [text |-> IF o.len = 0 THEN <<>> ELSE <<"ocr">>, len |-> o.len, score |-> o.score,
   flags |-> o.flags \cup (IF o.ext THEN {"failed"} ELSE {}), signs |-> o.signs,
   ext |-> o.ext, from |-> {img}]

FirstTier(img) == {OcrResult(o, img) : o \in OcrRead} \cup {NoRead}

OcrPage ==
  /\ At("ocr")
  /\ NextPage
  /\ \E r \in FirstTier(image[at]) : read' = [read EXCEPT ![at] = r]
  /\ UNCHANGED <<sideways, image, kept, layer, queued, vision>>

(* The rotation probe: an unreliable page whose content lies across is     *)
(* read again at 90 and 270 degrees; the better of the two replaces the    *)
(* read and the processed image when it wins clearly, or wins on flags.    *)
Suspect(r) == r.ext \/ CompositeOf(r) < ProbeBelow \/ r.flags \cap ProbeFlags # {}

RotationWins(r, base) ==
  \/ CompositeOf(r) >= CompositeOf(base) + WinMargin
  \/ /\ base.ext \/ base.flags \cap ProbeFlags # {}
     /\ r.flags \cap ProbeFlags = {}
     /\ CompositeOf(r) >= CompositeOf(base) - FlagMargin

\* Mutant: the read is taken before the file is put in place.
ProbePageReadFirst ==
  /\ At("probe")
  /\ NextPage
  /\ \/ UNCHANGED <<read, image>>
     \/ /\ Suspect(read[at]) /\ at \in sideways
        /\ \E o \in OcrRead :
             LET r == OcrResult(o, "corrected") IN
             /\ RotationWins(r, read[at])
             /\ read' = [read EXCEPT ![at] = [r EXCEPT !.flags = @ \cup {"auto_rotated"}]]
             /\ UNCHANGED image \/ image' = [image EXCEPT ![at] = "corrected"]
  /\ UNCHANGED <<sideways, kept, layer, queued, vision>>

ProbePage ==
  /\ At("probe")
  /\ NextPage
  /\ \/ UNCHANGED <<read, image>>   \* not suspect, not across, or no read of either angle
     \/ /\ Suspect(read[at]) /\ at \in sideways
        /\ \E o \in OcrRead :
             LET r == OcrResult(o, "corrected") IN
             /\ RotationWins(r, read[at])
             /\ \/ UNCHANGED <<read, image>>   \* the file could not be replaced
                \/ /\ image' = [image EXCEPT ![at] = "corrected"]
                   /\ read' = [read EXCEPT ![at] = [r EXCEPT !.flags = @ \cup {"auto_rotated"}]]
  /\ UNCHANGED <<sideways, kept, layer, queued, vision>>

(* ocr_single_image with the fallback: the first engine again, and the     *)
(* second when that fails or asks for it. The second engine's answer is    *)
(* taken when it has text; one without a score is scored 0 and still asks  *)
(* for another engine.                                                     *)
SecondTier(img) ==
  FirstTier(img)
    \cup {[OcrResult(o, img) EXCEPT !.text = <<"glm">>, !.flags = o.flags \cup {"glm"},
                                   !.score = CompositeOf(o), !.ext = o.score = NoScore] :
           o \in {o \in OcrRead : o.len > 0}}

SecondTierPage ==
  /\ At("tier2")
  /\ NextPage
  /\ IF Fallback /\ read[at].ext
     THEN \E r \in SecondTier(image[at]) :
            read' = [read EXCEPT ![at] = IF CompositeOf(r) >= CompositeOf(@) THEN r ELSE @]
     ELSE UNCHANGED read
  /\ UNCHANGED <<sideways, image, kept, layer, queued, vision>>

-----------------------------------------------------------------------------
(* The gates that queue a page for a second read: the engine asked for it, *)
(* the score, the service's own flags, then the tests on the text, where   *)
(* the first that finds something flags the page.                          *)
FirstSign(r) == SignOrder[CHOOSE i \in DOMAIN SignOrder :
                            /\ SignOrder[i] \in r.signs
                            /\ \A j \in 1..(i - 1) : SignOrder[j] \notin r.signs]

LowScore(r) == r.score # NoScore /\ r.score < VisionBelow

QuestionedByService(r) == r.ext \/ LowScore(r) \/ r.flags \cap VisionQueueFlags # {}

QueuePage ==
  /\ At("queue")
  /\ NextPage
  /\ LET r == read[at] IN
     \/ /\ QuestionedByService(r)
        /\ queued' = queued \cup {at}
        /\ UNCHANGED read
     \/ /\ ~QuestionedByService(r) /\ r.signs # {}
        /\ queued' = queued \cup {at}
        /\ read' = [read EXCEPT ![at].flags = @ \cup {FlagOfSign(FirstSign(r))}]
     \/ /\ ~QuestionedByService(r) /\ r.signs = {}
        /\ UNCHANGED <<queued, read>>
  /\ UNCHANGED <<sideways, image, kept, layer, vision>>

(* A queued page takes the PDF's text layer word for word, unless that one *)
(* page's layer reads as a scanner's; then it stays in the queue.          *)
LayerText(r) ==
  [r EXCEPT !.text = <<"layer">>, !.len = 4, !.signs = {}, !.ext = FALSE, !.from = {},
            !.flags = @ \cup {"text_layer"}]

LayerPage ==
  /\ At("layer")
  /\ NextPage
  /\ IF at \in queued /\ layer[at] \in {"clean", "short"}
     THEN /\ queued' = queued \ {at}
          /\ read' = [read EXCEPT ![at] = LayerText(@)]
     ELSE UNCHANGED <<queued, read>>
  /\ UNCHANGED <<sideways, image, kept, layer, vision>>

-----------------------------------------------------------------------------
(* The vision read of a page: of its colour render, which the probe does   *)
(* not turn, or of the processed image where there is none. A failed call  *)
(* and a truncated transcript are no read. The two lengths compared are    *)
(* taken once, before the merge.                                           *)
VisionImage(p) == IF p \in kept THEN "scanned" ELSE image[p]

Unreliable(r) == r.flags \cap UnreliableFlags # {}

ConfirmingRead(r, v) ==
  [r EXCEPT !.text = Append(@, "vision"), !.flags = @ \cup {"vision_appended"},
            !.from = @ \cup {v.shown}]

ReplacedBy(r, v) ==
  [r EXCEPT !.text = <<"vision">>, !.len = v.len, !.ext = FALSE, !.signs = {},
            !.flags = @ \cup {"vision_fallback"}, !.from = {v.shown}]

\* Mutant: a transcript of useful length replaces any read.
MergeAny(r, ocrLen, v) ==
  IF v.len >= ConfirmMin /\ "marks" \in r.flags /\ ~Unreliable(r) THEN ConfirmingRead(r, v)
  ELSE IF v.len >= ReplaceMin THEN ReplacedBy(r, v)
  ELSE r

MergeVision(r, ocrLen, v) ==
  IF v.len >= ConfirmMin /\ "marks" \in r.flags /\ ~Unreliable(r) THEN ConfirmingRead(r, v)
  ELSE IF v.len > ocrLen \/ (Unreliable(r) /\ v.len >= ReplaceMin) THEN ReplacedBy(r, v)
  ELSE r

(* The merge stands twice in the code, the second time on what the first   *)
(* one left, with the lengths of before.                                   *)
VisionPage ==
  /\ At("vision")
  /\ NextPage
  /\ IF at \in queued
     THEN \E v \in [shown : {VisionImage(at)}, len : VisionLen \cup {0}] :
            /\ vision' = [vision EXCEPT ![at] = v]
            /\ read' = [read EXCEPT ![at] = MergeVision(MergeVision(@, @.len, v), @.len, v)]
     ELSE UNCHANGED <<vision, read>>
  /\ UNCHANGED <<sideways, image, kept, layer, queued>>

WritePages ==
  /\ At("write")
  /\ phase' = phase + 1 /\ at' = 1
  /\ UNCHANGED <<sideways, image, kept, layer, read, queued, vision>>

Done == At("done") /\ UNCHANGED vars

Next ==
  \/ JudgeLayers \/ OcrPage \/ ProbePage \/ SecondTierPage \/ QueuePage
  \/ LayerPage \/ VisionPage \/ WritePages \/ Done

Spec == Init /\ [][Next]_vars

-----------------------------------------------------------------------------
(* The types of the pages' state.                                          *)
TypeOK ==
  /\ phase \in 1..Len(Phase) /\ at \in Page
  /\ sideways \subseteq Page /\ kept \subseteq Page /\ queued \subseteq Page
  /\ image \in [Page -> {"scanned", "corrected"}]
  /\ layer \in [Page -> Layer]
  /\ read \in [Page -> Read]
  /\ vision \in [Page -> [shown : {"nothing", "scanned", "corrected"}, len : Length]]

(* The processed image kept for a page stands for the text in use: that    *)
(* text was read off it, whatever the probe, the tiers and the disk did.   *)
(* The one text in use of another image is a vision read's, of the colour  *)
(* render kept beside a page the probe has turned, which it leaves as      *)
(* scanned.                                                                *)
TextIsOfTheImage ==
  \A p \in Page : \A img \in read[p].from \ {image[p]} :
    /\ p \in kept /\ image[p] = "corrected"
    /\ vision[p].shown = img /\ \E i \in DOMAIN read[p].text : read[p].text[i] = "vision"

(* No doubtful read ships unquestioned: an OCR text still alone on its     *)
(* page at the end was above every gate, or the vision read was asked for  *)
(* and gave nothing better.                                                *)
DoubtfulPagesAreReadAgain ==
  At("done") =>
    \A p \in Page : read[p].text \in {<<>>, <<"ocr">>, <<"glm">>} =>
      LET r == read[p] IN
      \/ ~QuestionedByService(r) /\ r.signs = {}
      \/ /\ vision[p].shown # "nothing"
         /\ vision[p].len = 0 \/ (vision[p].len <= r.len /\ ~(Unreliable(r) /\ vision[p].len >= ReplaceMin))

(* A second read never costs a page text that could be relied on: a vision *)
(* read replaces a reliable read only by a longer one.                     *)
ReliableTextIsNotShortened ==
  [][At("vision") => \A p \in Page : ~Unreliable(read[p]) => read'[p].len >= read[p].len]_vars
=============================================================================
