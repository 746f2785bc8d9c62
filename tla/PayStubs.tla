------------------------------ MODULE PayStubs ------------------------------
(***************************************************************************)
(* The pay stubs of a packet, after each was read by itself                *)
(* (app/services/extractor.py): stubs of one job are given one employer    *)
(* name, then each job's year-to-date figures are put back in sequence.    *)
(*                                                                         *)
(* Names are model values; Alike relates the employer names OCR could have *)
(* spelled from one another, which is not transitive. A lost decimal point *)
(* makes a figure a hundred times too large. A date is a day of a year.    *)
(***************************************************************************)
EXTENDS Records

CONSTANTS
  StubsRead,  \* families of stub sequences the runs start from
  Alike,   \* pairs of employer names that are near-identical (both ways round)
  Width    \* the length of an employer's name

VARIABLES asRead, stubs, toRepair, stubStep

stubVars == <<asRead, stubs, toRepair, stubStep>>

YtdMaxPeriods == 60
NoDate == 0   \* a stub whose pay date was not read
Year(date) == date \div 100

IsStub(s) ==
  /\ s = [who |-> s.who, id |-> s.id, source |-> s.source, date |-> s.date, gross |-> s.gross, ytd |-> s.ytd]
  /\ s.date \in Nat /\ (s.date # NoDate => Year(s.date) # Year(NoDate))

ASSUME StubAssumption ==
  \A family \in DOMAIN StubsRead : \A s \in StubsRead[family] :
    s \in Seq({s[i] : i \in DOMAIN s}) /\ \A i \in DOMAIN s : IsStub(s[i])

PayInit ==
  /\ \E family \in DOMAIN StubsRead : asRead \in StubsRead[family]
  /\ stubs = asRead
  /\ toRepair = {}
  /\ stubStep = "unify"

-----------------------------------------------------------------------------
(* A stub without a name may be anyone's.                                  *)
SamePerson(a, b) == None \in {a.who, b.who} \/ a.who = b.who
SameName(a, b) == a.source # None /\ b.source # None /\ (a.source = b.source \/ <<a.source, b.source>> \in Alike)
SameId(a, b) == a.id # None /\ a.id = b.id

(* The later stub's year-to-date is the earlier one's and its own gross.   *)
YtdContinuous(a, b) ==
  LET first == IF a.date <= b.date THEN a ELSE b
      second == IF a.date <= b.date THEN b ELSE a IN
  /\ None \notin {first.ytd, second.ytd, second.gross} /\ NoDate \notin {a.date, b.date}
  /\ second.ytd - first.ytd = second.gross

SameJob(a, b) == SamePerson(a, b) /\ (SameId(a, b) \/ SameName(a, b) \/ YtdContinuous(a, b))

(* Each pair is looked at once, the stub read first before the other; what *)
(* a chain of pairs joins is one set of the union-find.                    *)
Tied(s, i, j) == (i < j /\ SameJob(s[i], s[j])) \/ (j < i /\ SameJob(s[j], s[i]))

\* Mutant: a stub is joined with those it is tied to itself, and no further.
TiedItself(s, i) == {i} \cup {j \in DOMAIN s : Tied(s, i, j)}
OneJob(s, i) ==
  {j \in DOMAIN s : \A S \in SUBSET DOMAIN s :
     (i \in S /\ \A a \in S, b \in DOMAIN s : Tied(s, a, b) => b \in S) => j \in S}

(* The employer most stubs of the cluster carry, then the longest name,    *)
(* then the one read first.                                                *)
Canonical(s, cluster) ==
  LET named == {i \in cluster : s[i].source # None}
      carried(i) == Cardinality({j \in named : s[j].source = s[i].source})
      ahead(i, j) == \/ carried(i) > carried(j)
                     \/ carried(i) = carried(j) /\ Width[s[i].source] > Width[s[j].source]
                     \/ carried(i) = carried(j) /\ Width[s[i].source] = Width[s[j].source] /\ i <= j
  IN s[CHOOSE i \in named : \A j \in named : ahead(i, j)].source

Unified(s) ==
  [i \in DOMAIN s |->
     LET cluster == OneJob(s, i) IN
     IF Cardinality(cluster) < 2 \/ \A j \in cluster : s[j].source = None THEN s[i]
     ELSE [s[i] EXCEPT !.source = Canonical(s, cluster)]]

(* A stub's figures are put in order with those of its member and source,  *)
(* in the order of the pay dates.                                          *)
SameGroup(a, b) == a.who = b.who /\ a.source = b.source

UnifySources ==
  /\ stubStep = "unify"
  /\ stubs' = Unified(stubs)
  /\ toRepair' = {i \in DOMAIN stubs : stubs[i].ytd # None}
  /\ stubStep' = "repair"
  /\ UNCHANGED asRead

-----------------------------------------------------------------------------
(* No year-to-date is below its own gross or beyond sixty of them, nor out *)
(* of sequence with the others of its year.                                *)
Others(i) == {j \in DOMAIN stubs \ {i} : SameGroup(stubs[i], stubs[j]) /\ stubs[j].ytd # None}

Fits(i, value) ==
  LET sameYear == {j \in Others(i) : Year(stubs[j].date) = Year(stubs[i].date)} IN
  /\ Zero(stubs[i].gross) # 0 => value >= stubs[i].gross /\ value <= YtdMaxPeriods * stubs[i].gross
  /\ \A j \in sameYear : stubs[j].date < stubs[i].date => value >= stubs[j].ytd
  /\ \A j \in sameYear : stubs[j].date > stubs[i].date => value <= stubs[j].ytd

RepairYtd ==
  /\ stubStep = "repair"
  /\ \E i \in toRepair :
       /\ \A j \in toRepair : stubs[i].date < stubs[j].date \/ (stubs[i].date = stubs[j].date /\ i <= j)
       /\ LET printed == stubs[i].ytd IN
          stubs' = [stubs EXCEPT ![i].ytd = IF Fits(i, printed) THEN printed
                                            ELSE IF Fits(i, printed \div 100) THEN printed \div 100
                                            ELSE None]
       /\ toRepair' = toRepair \ {i}
  /\ UNCHANGED <<asRead, stubStep>>

Repaired ==
  /\ stubStep = "repair" /\ toRepair = {}
  /\ stubStep' = "done"
  /\ UNCHANGED <<asRead, stubs, toRepair>>

PayNext == UnifySources \/ RepairYtd \/ Repaired \/ (stubStep = "done" /\ UNCHANGED stubVars)

PaySpec == PayInit /\ [][PayNext]_stubVars

-----------------------------------------------------------------------------
(* Stubs that any chain of evidence ties to one job carry one employer     *)
(* name, and one member's year-to-date at one employer never falls within  *)
(* a year.                                                                 *)
Climbs(i, j) ==
  SameGroup(stubs[i], stubs[j]) /\ Year(stubs[i].date) = Year(stubs[j].date)
    /\ stubs[i].date < stubs[j].date /\ None \notin {stubs[i].ytd, stubs[j].ytd}
  => stubs[i].ytd <= stubs[j].ytd

StubsOfOneJobRunOn ==
  /\ stubStep # "unify" => \A i, j \in DOMAIN stubs : Tied(asRead, i, j) => stubs[i].source = stubs[j].source
  /\ stubStep = "done" => \A i, j \in DOMAIN stubs : Climbs(i, j)
=============================================================================
