-------------------------- MODULE IncomeCalculation --------------------------
(***************************************************************************)
(* Annual income of one source (app/services/income_calculator.py,         *)
(* hours_resolver.py): the methods the evidence allows are tried in        *)
(* evidence order, the first plausible figure is the answer, a method that *)
(* cannot answer leaves a rejected row, evidence of the past is a          *)
(* historical one, and year-to-date projections are audit rows beside it.  *)
(*                                                                         *)
(* Days are numbered; a month is 30 of them where only months count.       *)
(* Overtime is left out: it adds its own annualised amount to a rate.      *)
(***************************************************************************)
EXTENDS Records, SequencesExt

CONSTANTS
  Evidence,   \* the evidence of a source the runs start from
  CertDay     \* the certification's effective date

VARIABLES evidence, untried, counted, calcRows

calcVars == <<evidence, untried, counted, calcRows>>

Multiplier(frequency) ==
  CASE frequency = "weekly" -> 52 [] frequency = "bi-weekly" -> 26 [] frequency = "semi-monthly" -> 24
    [] frequency = "monthly" -> 12 [] frequency = "quarterly" -> 4 [] frequency = "annually" -> 1
    [] OTHER -> None

MaxHourlyRate == 300
Ceiling(mode) == IF mode = "fixed_monthly" THEN 250000 ELSE 300000
GuidanceCount == 3
StaleMonths == 15

(* A method's answer: a figure with the days it is dated by, a rejection   *)
(* that says why, or nothing.                                              *)
Figure(x, days) == [kind |-> "figure", annual |-> x, days |-> days]
Rejected == [kind |-> "rejected", annual |-> None, days |-> {}]
Nothing == [kind |-> "nothing", annual |-> None, days |-> {}]

Total(s) == FoldLeft(LAMBDA a, x : a + x, 0, s)
Latest(S) == CHOOSE d \in S : \A e \in S : e <= d
Earliest(S) == CHOOSE d \in S : \A e \in S : d <= e

-----------------------------------------------------------------------------
(* An hours range is resolved by the funding program's rule.               *)
Hours(range, rule) ==
  CASE rule = "highest" -> range.high [] rule = "lowest" -> range.low [] OTHER -> (range.low + range.high) \div 2

(* The pay period the spacing of dated payments implies: the band their    *)
(* median gap lies in (twice the gap, to keep half days).                  *)
TwiceMedian(s) ==
  LET n == Len(s) o == SortSeq(s, <) IN
  IF n % 2 = 1 THEN 2 * o[(n + 1) \div 2] ELSE o[n \div 2] + o[n \div 2 + 1]

PeriodicityOf(days) ==
  LET d == SortSeq(days, <)
      gaps == SelectSeq([i \in 1..(Len(d) - 1) |-> d[i + 1] - d[i]], LAMBDA g : g > 0) IN
  IF gaps = <<>> THEN None
  ELSE LET gap == TwiceMedian(gaps) IN
       CASE gap >= 10 /\ gap <= 18 -> "weekly"
         [] gap >= 24 /\ gap < 30 -> "bi-weekly"
         [] gap >= 30 /\ gap <= 36 -> "semi-monthly"
         [] gap >= 50 /\ gap <= 90 -> "monthly"
         [] gap >= 160 /\ gap <= 240 -> "quarterly"
         [] OTHER -> None

(* Pay stubs: their average times the periods of a year. The label of the  *)
(* first stub that has one says which, unless three dates say otherwise.   *)
Label(stubs) ==
  IF \A i \in DOMAIN stubs : stubs[i].interval = None THEN None
  ELSE stubs[First({i \in DOMAIN stubs : stubs[i].interval # None})].interval

StubDays(stubs) == [i \in DOMAIN stubs |-> stubs[i].day]

\* Mutant: the label decides and the dates only fill in for it.
StubFrequencyByLabel(stubs) ==
  IF Label(stubs) # None \/ Len(stubs) < 3 THEN Label(stubs) ELSE PeriodicityOf(StubDays(stubs))

StubFrequency(stubs) ==
  LET dated == IF Len(stubs) < 3 THEN None ELSE PeriodicityOf(StubDays(stubs)) IN Or(dated, Label(stubs))

ByStubs(e) ==
  IF e.stubs = <<>> THEN Nothing
  ELSE IF Multiplier(StubFrequency(e.stubs)) = None THEN Rejected
  ELSE Figure((Total([i \in DOMAIN e.stubs |-> e.stubs[i].gross]) * Multiplier(StubFrequency(e.stubs))) \div Len(e.stubs),
              Range(StubDays(e.stubs)))

(* A payment history: a full year of it is summed over the twelve months   *)
(* that end with the last payment, four equal payments are a fixed amount, *)
(* anything else an average per period.                                    *)
ByHistory(e) ==
  LET h == e.history
      days == {h[i].day : i \in DOMAIN h}
      period == PeriodicityOf([i \in DOMAIN h |-> h[i].day])
      perYear == Multiplier(period)
      periods == Cardinality(IF period = "monthly" THEN {d \div 30 : d \in days}
                             ELSE IF period = "quarterly" THEN {d \div 90 : d \in days} ELSE days)
      lastYear == SelectSeq(h, LAMBDA p : p.day > Latest(days) - 365)
      amounts == {h[i].amount : i \in DOMAIN h} IN
  IF h = <<>> THEN Nothing
  ELSE IF Len(h) < 2 \/ period = None THEN Rejected
  ELSE IF periods >= perYear \/ (Latest(days) - Earliest(days) - 365) * perYear >= -730
  THEN Figure(Total([i \in DOMAIN lastYear |-> lastYear[i].amount]), days)
  ELSE IF Len(h) >= 4 /\ Cardinality(amounts) = 1 THEN Figure(h[1].amount * perYear, days)
  ELSE Figure((Total([i \in DOMAIN h |-> h[i].amount]) * perYear) \div periods, days)

(* A rate: its unit, stated or inferred, says what the number means. A     *)
(* rate with hours that could be hourly is hourly, one without hours is    *)
(* per pay period, and one that reads as hourly but has no hours is not    *)
(* computed.                                                               *)
Unit(e) ==
  IF e.unit # None THEN e.unit
  ELSE IF e.hours # None THEN (IF e.rate > MaxHourlyRate THEN None ELSE "hourly")
  ELSE IF e.mode = "employment" /\ e.rate <= MaxHourlyRate /\ e.frequency # "annually" THEN None
  ELSE "per_period"

ByRate(e) ==
  LET unit == Unit(e)
      periods == IF unit = "per_period" /\ e.frequency = None /\ e.mode = "fixed_monthly"
                 THEN 12 ELSE Multiplier(e.frequency) IN
  CASE unit = None                                                              -> Rejected
    [] unit \in {"hourly", "daily"} /\ (e.hours = None \/ periods = None)       -> Rejected
    [] unit \in {"hourly", "daily"} /\ e.hours # None /\ periods # None         ->
         Figure(e.rate * Hours(e.hours, e.rule) * periods, {})
    [] unit = "per_period" /\ periods = None                                    -> Rejected
    [] unit = "per_period" /\ periods # None                                    -> Figure(e.rate * periods, {})
    [] OTHER                                                                    -> Figure(e.rate * Multiplier(unit), {})

(* The household's own figure: annual on a certification form and for      *)
(* self-employment, of the record's own period elsewhere; a net loss       *)
(* counts as nothing.                                                      *)
WageLikeRate(e) == e.rate # None /\ (e.unit \notin {None, "annually"} \/ (e.unit = None /\ e.hours # None))

DeclaredAmount(e) == IF e.declared # None THEN e.declared ELSE e.rate

PeriodOfDeclaration(e) == IF e.mode = "annual_net" \/ e.declaredAnnual THEN None ELSE e.frequency

ByDeclaration(e) ==
  LET x == DeclaredAmount(e) * Zero(Or(Multiplier(PeriodOfDeclaration(e)), 1)) IN
  Figure(IF e.mode = "annual_net" /\ x < 0 THEN 0 ELSE x, {})

(* The methods the evidence allows, in evidence order.                     *)
Methods(e) ==
  LET when(cond, m) == IF cond THEN <<m>> ELSE <<>> IN
  when(Len(e.stubs) >= GuidanceCount, "stubs")
    \o when(Len(e.history) >= 2, "history")
    \o when(e.rate # None /\ (e.mode # "annual_net" \/ WageLikeRate(e)), "rate")
    \o when(Len(e.stubs) \in 1..(GuidanceCount - 1), "stubs")
    \o when(e.declared # None \/ (e.mode = "annual_net" /\ e.rate # None /\ ~WageLikeRate(e)), "declared")

Answer(e, method) ==
  CASE method = "stubs" -> ByStubs(e) [] method = "history" -> ByHistory(e)
    [] method = "rate" -> ByRate(e) [] method = "declared" -> ByDeclaration(e)

Implausible(e, x) == x > Ceiling(e.mode) \/ (x < 0 /\ e.mode # "annual_net")

(* Evidence of the past: dated more than fifteen months before the         *)
(* certification, or period totals of a wage history and nothing else.     *)
Stale(days) == days # {} /\ CertDay \div 30 - Latest(days) \div 30 > StaleMonths

HistoryOnly(e) ==
  /\ e.stubs # <<>> /\ \A i \in DOMAIN e.stubs : e.stubs[i].interval \in {"quarterly", "annually"}
  /\ e.rate = None /\ e.declared = None /\ e.ytd = None /\ e.history = <<>>

(* A year-to-date figure projected to a year.                              *)
Projected(amount, days) == IF days <= 0 THEN None ELSE (amount * 365) \div days

NewestYtd(e) ==
  LET S == {i \in DOMAIN e.stubs : Zero(e.stubs[i].ytd) > 0} IN
  IF S = {} THEN None
  ELSE LET s == e.stubs[CHOOSE i \in S : \A j \in S : e.stubs[j].day <= e.stubs[i].day] IN
       Projected(s.ytd, s.day - e.yearStart)

-----------------------------------------------------------------------------
Row(method, kind, annual) == [method |-> method, kind |-> kind, annual |-> annual]

CalcInit ==
  /\ evidence \in Evidence
  /\ untried = Methods(evidence) /\ counted = "" /\ calcRows = <<>>

Asked == Answer(evidence, untried[1])

(* One method is tried: nothing, a rejection, a figure out of the          *)
(* envelope, or the answer.                                                *)
TryMethod ==
  /\ untried # <<>>
  /\ \/ /\ Asked.kind = "nothing"
        /\ untried' = Tail(untried) /\ UNCHANGED <<counted, calcRows>>
     \/ /\ Asked.kind = "rejected" \/ (Asked.kind = "figure" /\ Implausible(evidence, Asked.annual))
        /\ untried' = Tail(untried) /\ calcRows' = Append(calcRows, Row(untried[1], "rejected", None))
        /\ UNCHANGED counted
     \/ /\ Asked.kind = "figure" /\ ~Implausible(evidence, Asked.annual)
        /\ untried' = <<>> /\ counted' = untried[1]
        /\ calcRows' = Append(calcRows,
             Row(untried[1], IF Stale(Asked.days) \/ HistoryOnly(evidence) THEN "historical" ELSE "counted", Asked.annual))
  /\ UNCHANGED evidence

(* The audit rows run beside the answer and change nothing of it.          *)
AuditYearToDate ==
  /\ untried = <<>> /\ counted # "done"
  /\ LET stated == IF evidence.mode = "employment" /\ evidence.ytd # None
                   THEN Projected(evidence.ytd.amount, evidence.ytd.days) ELSE None
         printed == IF counted = "history" THEN None ELSE NewestYtd(evidence)
         x == Or(stated, printed) IN
     calcRows' = IF x = None THEN calcRows ELSE Append(calcRows, Row("ytd", "audit", x))
  /\ counted' = "done" /\ UNCHANGED <<evidence, untried>>

CalcNext == TryMethod \/ AuditYearToDate
CalcFinished == counted = "done" /\ UNCHANGED calcVars
CalcSpec == CalcInit /\ [][CalcNext \/ CalcFinished]_calcVars

-----------------------------------------------------------------------------
(* A figure that counts is the income: where the documents of a source     *)
(* state its true pay, in whatever basis (stubs, a ledger, an hourly,      *)
(* period or annual rate), labelled or not, the counted figure is within   *)
(* 10 % of the true annual pay, although the household declared another     *)
(* amount and some method before it could not answer.                      *)
CountedFigureIsTheIncome ==
  \A i \in DOMAIN calcRows : calcRows[i].kind = "counted" /\ evidence.truth # None =>
    10 * Distance(calcRows[i].annual, evidence.truth) <= evidence.truth

==============================================================================
