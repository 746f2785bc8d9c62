------------------------------- MODULE Assets -------------------------------
(***************************************************************************)
(* The household's assets (app/services/extractor.py, pipeline.py): the    *)
(* records read from statements are deduplicated, a request form joins the *)
(* bank's reply, each line the household declares is merged into the       *)
(* record it describes or kept as a claim, and the pipeline deduplicates   *)
(* once more, by account number and then by value.                         *)
(*                                                                         *)
(* Each pass walks the list and builds the next one: `unread` holds the    *)
(* positions it has still to look at, `built` what it has made of the      *)
(* others.                                                                 *)
(*                                                                         *)
(* An account number is a model value with its last four digits and the    *)
(* numbers one OCR slip away. Amounts are whole dollars; Misread relates   *)
(* those one digit apart. Sources are equal when they share a word, owners *)
(* when they are one member.                                               *)
(***************************************************************************)
EXTENDS Records

CONSTANTS
  Statements,  \* families of record sequences the source documents yield
  Declared,    \* what a read of the declarations may return: [lines, totals]
  LastFour,    \* the last four digits of an account number
  OneSlip,     \* pairs of account numbers one OCR slip apart
  Misread,     \* pairs of amounts one digit apart
  Certificate  \* the document type of the certification form

VARIABLES records, unread, built, declared, asked, lineAt, assetStep

assetVars == <<records, unread, built, declared, asked, lineAt, assetStep>>

AssetFields == {"owner", "source", "type", "number", "balance", "stated", "statedIn"}

IsRecord(r) ==
  r = [owner |-> r.owner, source |-> r.source, type |-> r.type, number |-> r.number, balance |-> r.balance,
       stated |-> r.stated, statedIn |-> r.statedIn, status |-> r.status, pages |-> r.pages]

ASSUME StatementAssumption ==
  \A family \in DOMAIN Statements : \A s \in Statements[family] :
    s \in Seq({s[i] : i \in DOMAIN s}) /\ \A i \in DOMAIN s : IsRecord(s[i])

Family(type) ==
  CASE type \in {"checking", "savings"} -> "cash" [] type = "property" -> "real estate" [] OTHER -> "other"

Filled(r) == Cardinality({f \in AssetFields : r[f] # None})
Figures(r) == Cardinality({f \in {"number", "balance", "stated"} : r[f] # None})
HasFigures(r) == r.balance # None
SameOwner(a, b) == None \in {a.owner, b.owner} \/ a.owner = b.owner
Close(a, b) == Distance(a, b) * 100 <= b \/ <<a, b>> \in Misread

(* r with what it lacks taken from other.                                  *)
FilledFrom(r, other) ==
  [owner |-> Or(r.owner, other.owner), source |-> Or(r.source, other.source), type |-> Or(r.type, other.type),
   number |-> Or(r.number, other.number), balance |-> Or(r.balance, other.balance), stated |-> Or(r.stated, other.stated),
   statedIn |-> Or(r.statedIn, other.statedIn), status |-> r.status, pages |-> r.pages]

Position(s, P(_)) == IF \E i \in DOMAIN s : P(s[i]) THEN First({i \in DOMAIN s : P(s[i])}) ELSE 0

AssetInit ==
  /\ \E family \in DOMAIN Statements : records \in Statements[family]
  /\ unread = DOMAIN records /\ built = <<>>
  /\ declared = <<>> /\ asked = 0 /\ lineAt = 0
  /\ assetStep = "keys"

(* A pass looks at its next record, and ends when it has looked at all.    *)
Look(step) ==
  assetStep = step /\ unread # {} /\ UNCHANGED <<records, declared, asked, lineAt, assetStep>>
LookAtNext(step) == Look(step) /\ unread' = unread \ {First(unread)}
NextRead == records[First(unread)]

EndPass(step, next) ==
  /\ assetStep = step /\ unread = {}
  /\ records' = built /\ unread' = DOMAIN built /\ built' = <<>>
  /\ assetStep' = next
  /\ UNCHANGED <<declared, asked, lineAt>>

-----------------------------------------------------------------------------
(* One asset extracted twice: the same source, type and number, the more   *)
(* complete record staying; then the same owner, type and balance,         *)
(* whatever each document calls the source, the richer record filled from  *)
(* the other.                                                              *)
NoIdentity(r) == r.source = None /\ r.type = None /\ r.number = None
SameKey(a, b) == ~NoIdentity(a) /\ a.source = b.source /\ a.type = b.type /\ a.number = b.number

AddByKey(out, r) ==
  LET k == Position(out, LAMBDA o : SameKey(o, r)) IN
  IF k = 0 THEN Append(out, r)
  ELSE IF Filled(r) > Filled(out[k]) THEN [out EXCEPT ![k] = r] ELSE out

AddByBalance(out, r) ==
  LET k == Position(out, LAMBDA o : HasFigures(r) /\ o.balance = r.balance /\ o.type = r.type /\ SameOwner(o, r)) IN
  IF k = 0 THEN Append(out, r)
  ELSE [out EXCEPT ![k] = IF Filled(r) > Filled(@) THEN FilledFrom(r, @) ELSE FilledFrom(@, r)]

DedupeByKey == LookAtNext("keys") /\ built' = AddByKey(built, NextRead)
DedupeByBalance == LookAtNext("balances") /\ built' = AddByBalance(built, NextRead)

(* A record without a figure is the request form of the reply before it.   *)
AddUnlessRequest(out, r) ==
  LET k == Position(out, LAMBDA o : HasFigures(o) /\ o.type = r.type /\ SameOwner(o, r)
                                      /\ r.source # None /\ o.source = r.source) IN
  IF HasFigures(r) \/ k = 0 THEN Append(out, r) ELSE [out EXCEPT ![k].pages = @ \cup r.pages]

JoinRequest == LookAtNext("requests") /\ built' = AddUnlessRequest(built, NextRead)

(* The declarations are read; a read of only total lines, or of nothing    *)
(* where the pages print amounts, is repeated once. A call that fails      *)
(* declares nothing.                                                       *)
ReadDeclared ==
  /\ assetStep = "declared"
  /\ \E answer \in Declared \cup {[lines |-> <<>>, totals |-> FALSE]} : \E printed \in BOOLEAN :
       LET again == answer.lines = <<>> /\ (answer.totals \/ printed) /\ asked = 0 IN
       /\ declared' = answer.lines
       /\ assetStep' = IF again THEN "declared" ELSE "reconcile"
  /\ asked' = asked + 1
  /\ lineAt' = 1
  /\ UNCHANGED <<records, unread, built>>

-----------------------------------------------------------------------------
(* The record a declared line describes: by account number; by type family *)
(* and a close amount, for a line that can be compared; by a distinctive   *)
(* balance to the dollar, of whichever member; or as the only account of   *)
(* its type, declared and verified.                                        *)
Distinctive(amount) == amount # None /\ amount > 0 /\ amount % 50 # 0
StatesNothing(d) == d.kind # "asset" \/ (Zero(d.amount) = 0 /\ d.number = None)

IsVerified(r) == r.status = "verified"
Untyped(d) == Family(d.type) = "other"
Numbered(d, r) == d.number # None /\ r.number # None
SameNumber(d, r) == LastFour[d.number] = LastFour[r.number] \/ <<d.number, r.number>> \in OneSlip

Describes(d, r) ==
  /\ IsVerified(r) /\ SameOwner(d, r)
  /\ IF Numbered(d, r) THEN SameNumber(d, r)
     ELSE /\ d.amount # None /\ r.balance # None
          /\ Family(r.type) = Family(d.type) \/ Untyped(d)
          /\ Close(d.amount, r.balance)

ToTheDollar(d) ==
  IF ~Distinctive(d.amount) \/ d.number # None THEN {}
  ELSE LET exact == {i \in DOMAIN records : IsVerified(records[i]) /\ records[i].balance = d.amount}
           alike == {i \in exact : Family(records[i].type) = Family(d.type) \/ Untyped(d)}
       IN IF alike # {} THEN alike ELSE exact

OnlyOne(d) ==
  LET same == {i \in DOMAIN records : IsVerified(records[i]) /\ HasFigures(records[i])
                                        /\ records[i].type = d.type /\ SameOwner(d, records[i])}
      others == {k \in DOMAIN declared : k # lineAt /\ declared[k].kind = "asset" /\ declared[k].type = d.type
                                           /\ SameOwner(d, declared[k]) /\ declared[k].doc = d.doc}
  IN IF d.type = "other" \/ Cardinality(same) # 1 \/ others # {} THEN {} ELSE same

Described(d) ==
  LET described == {i \in DOMAIN records : Describes(d, records[i])} IN
  IF described # {} THEN {First(described)}
  ELSE IF ToTheDollar(d) # {} THEN {First(ToTheDollar(d))}
  ELSE IF d.amount = None THEN {} ELSE OnlyOne(d)

(* The household's own statement outranks the certification's line.        *)
Annotated(r, d) ==
  LET own == r.statedIn = Certificate /\ d.doc # Certificate
      taken == d.amount # None /\ (r.stated = None \/ own) IN
  [r EXCEPT !.stated = IF taken THEN d.amount ELSE @, !.statedIn = IF taken THEN d.doc ELSE @,
            !.source = Or(@, d.source)]

ClaimOf(d) ==
  [owner |-> d.owner, source |-> d.source, type |-> d.type, number |-> d.number, balance |-> None,
   stated |-> d.amount, statedIn |-> d.doc, status |-> "declared_only", pages |-> {d.page}]

ReconcileLine ==
  /\ assetStep = "reconcile" /\ lineAt <= Len(declared)
  /\ LET d == declared[lineAt] IN
     records' = IF StatesNothing(d) THEN records
                ELSE IF Described(d) # {}
                     THEN LET i == First(Described(d)) IN [records EXCEPT ![i] = Annotated(@, d)]
                ELSE IF d.amount = None THEN records
                ELSE Append(records, ClaimOf(d))
  /\ lineAt' = lineAt + 1
  /\ UNCHANGED <<unread, built, declared, asked, assetStep>>

(* Records that name no source, type or owner are dropped, and then those  *)
(* that carry neither a number nor a figure: they are not looked at again. *)
IsEmpty(r) == (\A f \in {"source", "type", "owner"} : r[f] = None) \/ Figures(r) = 0

DropBlank ==
  /\ assetStep = "reconcile" /\ lineAt > Len(declared)
  /\ unread' = {i \in DOMAIN records : ~IsEmpty(records[i])}
  /\ assetStep' = "accounts"
  /\ UNCHANGED <<records, built, declared, asked, lineAt>>

-----------------------------------------------------------------------------
(* Records of one account number, or of one owner, type and value when     *)
(* neither has a number, become the richest of them, filled from the rest. *)
Worth(r) == Or(r.balance, r.stated)
\* Mutant: the number as each document prints it.
SameAccountAsPrinted(a, b) ==
  IF a.number # None \/ b.number # None THEN a.number = b.number
  ELSE a.owner = b.owner /\ a.type = b.type /\ Worth(a) = Worth(b)
SameAccount(a, b) ==
  IF a.number # None \/ b.number # None THEN Numbered(a, b) /\ LastFour[a.number] = LastFour[b.number]
  ELSE a.owner = b.owner /\ a.type = b.type /\ Worth(a) = Worth(b)

(* Of records i and j the one the sort by what is filled in puts first.    *)
Fuller(i, j) ==
  Figures(records[i]) > Figures(records[j]) \/ (Figures(records[i]) = Figures(records[j]) /\ i < j)
Fullest(S) == CHOOSE i \in S : \A j \in S \ {i} : Fuller(i, j)

\* What the records G say of a field: the first that says anything.
Said(G, f) ==
  LET says == {i \in G : records[i][f] # None} IN IF says = {} THEN None ELSE records[Fullest(says)][f]

Merged(G) ==
  [owner |-> Said(G, "owner"), source |-> Said(G, "source"), type |-> Said(G, "type"), number |-> Said(G, "number"),
   balance |-> Said(G, "balance"), stated |-> Said(G, "stated"), statedIn |-> Said(G, "statedIn"),
   status |-> records[Fullest(G)].status, pages |-> records[Fullest(G)].pages]

MergeAccount ==
  /\ Look("accounts")
  /\ LET G == {i \in unread : SameAccount(NextRead, records[i])} IN
     built' = Append(built, Merged(G)) /\ unread' = unread \ G

(* One owner, one type family, no different numbers and a close value: one *)
(* asset read twice with a slip; the other value stays as the stated one.  *)
ReadTwice(twin, r) ==
  /\ twin.owner = r.owner /\ Family(twin.type) = Family(r.type)
  /\ Numbered(twin, r) => LastFour[twin.number] = LastFour[r.number]
  /\ Worth(twin) # None /\ Worth(r) # None /\ Close(Worth(twin), Worth(r))

TwinOf(r) == Position(built, LAMBDA o : ReadTwice(o, r))

Absorb(twin, r) ==
  [owner |-> twin.owner, source |-> Or(twin.source, r.source), type |-> twin.type, number |-> Or(twin.number, r.number),
   balance |-> twin.balance,
   stated |-> Or(twin.stated, Or(r.stated, IF twin.balance = r.balance THEN None ELSE r.balance)),
   statedIn |-> IF twin.stated = None /\ r.stated # None THEN Or(twin.statedIn, r.statedIn) ELSE twin.statedIn,
   status |-> twin.status, pages |-> twin.pages]

MergeMisread ==
  /\ Look("misread")
  /\ \E i \in unread :
       /\ \A j \in unread \ {i} : Fuller(i, j)
       /\ LET k == TwinOf(records[i]) IN
          built' = IF k = 0 THEN Append(built, records[i]) ELSE [built EXCEPT ![k] = Absorb(@, records[i])]
       /\ unread' = unread \ {i}

AssetNext ==
  \/ DedupeByKey \/ EndPass("keys", "balances") \/ DedupeByBalance \/ EndPass("balances", "requests")
  \/ JoinRequest \/ EndPass("requests", "declared")
  \/ ReadDeclared \/ ReconcileLine \/ DropBlank
  \/ MergeAccount \/ EndPass("accounts", "misread") \/ MergeMisread \/ EndPass("misread", "done")
  \/ (assetStep = "done" /\ UNCHANGED assetVars)

AssetSpec == AssetInit /\ [][AssetNext]_assetVars

-----------------------------------------------------------------------------
(* No account is counted twice: after every pass no two records share an   *)
(* account number's last four, nor an owner, a type and a value when       *)
(* neither has a number, and no declared line stands beside the verified   *)
(* account of its number.                                                  *)
NoAccountIsCountedTwice ==
  assetStep = "done" =>
    \A i, j \in DOMAIN records :
      i # j => /\ Numbered(records[i], records[j]) => LastFour[records[i].number] # LastFour[records[j].number]
               /\ {records[i].number, records[j].number} = {None} =>
                    <<records[i].owner, records[i].type, Worth(records[i])>> # <<records[j].owner, records[j].type, Worth(records[j])>>

=============================================================================
