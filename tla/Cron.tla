-------------------------------- MODULE Cron --------------------------------
(***************************************************************************)
(* The schedules of jobs: parsing a cron expression into masks, and asking *)
(* whether a minute matches.  A mask is the set of its bits.  A field is a *)
(* list of parts; a part is what is before and after its "/", with numbers *)
(* that were read, or junk where Atoi fails.                               *)
(* Source: manifest/cron.go.                                               *)
(***************************************************************************)
EXTENDS Integers, SequencesExt

CONSTANTS
  Lowest, Highest,  \* the bounds of the fields: minute, hour, day, month, weekday
  FieldTexts,       \* FieldTexts[i]: the texts field i may have
  IntMax            \* the largest int: numbers wrap around past it

VARIABLES
  expr,        \* the fields read so far
  masks,       \* their masks
  restricted,  \* restricted[i]: field i is not "*"
  refused      \* ParseSchedule returned an error

cronVars == <<expr, masks, restricted, refused>>

Star == [base |-> "*", lo |-> 0, hi |-> 0, step |-> 0, junk |-> FALSE]
Positions == 1..5

-----------------------------------------------------------------------------
(* parsePart and parseField.                                               *)

From(part, min) == IF part.base = "*" THEN min ELSE part.lo
Upto(part, max) == IF part.base = "*" THEN max ELSE part.hi

\* Mutant: the bounds are not compared.
PartIsReadAny(part, min, max) ==
  ~part.junk /\ part.step >= 0 /\ (part.base = "range" => part.lo <= part.hi)

\* A step of 0 stands for none given, a negative one is refused.
PartIsRead(part, min, max) ==
  /\ ~part.junk /\ part.step >= 0
  /\ part.base = "range" => part.lo <= part.hi
  /\ From(part, min) >= min /\ Upto(part, max) <= max

Wrapped(n) == IF n > IntMax THEN n - 2 * (IntMax + 1) ELSE n

\* The loop that sets the bits; a shift by a negative number sets none.
RECURSIVE Bits(_, _, _)
Bits(v, hi, step) ==
  IF v > hi THEN {}
  ELSE (IF v < 0 THEN {} ELSE {v}) \cup Bits(Wrapped(v + step), hi, step)

PartMask(part, min, max) ==
  Bits(From(part, min), Upto(part, max), IF part.step = 0 THEN 1 ELSE part.step)

FieldMask(field, min, max) == UNION {PartMask(part, min, max) : part \in ToSet(field)}

-----------------------------------------------------------------------------
(* ParseSchedule and Matches.                                              *)

CronInit == expr = <<>> /\ masks = <<>> /\ restricted = <<>> /\ refused = FALSE

ParseField(field) ==
  LET i == Len(expr) + 1 IN
  /\ i \in Positions /\ ~refused
  /\ field \in FieldTexts[i]
  /\ expr' = Append(expr, field)
  /\ IF \A part \in ToSet(field) : PartIsRead(part, Lowest[i], Highest[i])
     THEN /\ masks' = Append(masks, FieldMask(field, Lowest[i], Highest[i]))
          /\ restricted' = Append(restricted, field # <<Star>>)
          /\ UNCHANGED refused
     ELSE refused' = TRUE /\ UNCHANGED <<masks, restricted>>

CronNext == \E field \in UNION {FieldTexts[i] : i \in Positions} : ParseField(field)

CronSpec == CronInit /\ [][CronNext]_cronVars

\* Mutant: both fields of the day must match.
DayMatchesBoth(t) == t[3] \in masks[3] /\ t[5] \in masks[5]

\* A day that both fields restrict needs to match one of them.
DayMatches(t) ==
  IF restricted[3] /\ restricted[5] THEN t[3] \in masks[3] \/ t[5] \in masks[5]
  ELSE t[3] \in masks[3] /\ t[5] \in masks[5]

Matches(t) ==
  /\ t[1] \in masks[1] /\ t[2] \in masks[2] /\ t[4] \in masks[4]
  /\ DayMatches(t)

-----------------------------------------------------------------------------
(* Properties.                                                             *)

Parsed == Len(masks) = 5
Times == {t \in [Positions -> 0..Max({Highest[i] : i \in Positions})] :
            \A i \in Positions : t[i] \in Lowest[i]..Highest[i]}

\* A step that leads past the largest int comes back around.
StepsWrap(field, max) == \E part \in ToSet(field) : part.step > IntMax - max

\* The numbers that a text names, by divisibility.
NumbersOf(part, min, max) ==
  {v \in From(part, min)..Upto(part, max) : part.step = 0 \/ (v - From(part, min)) % part.step = 0}
Named(i) == UNION {NumbersOf(part, Lowest[i], Highest[i]) : part \in ToSet(expr[i])}

\* The variables have their types.
CronTypeOK ==
  /\ Len(expr) \in 0..5 /\ Len(restricted) = Len(masks)
  /\ Len(masks) = IF refused THEN Len(expr) - 1 ELSE Len(expr)
  /\ \A i \in DOMAIN masks : masks[i] \subseteq 0..Highest[i]

\* A schedule fires in the minutes its fields name, and where the day of the
\* month and the weekday are both given, on the days of either (cron.go:25-28),
\* as long as no step overflows an int.
FiresWhenNamed ==
  Parsed /\ (\A i \in Positions : ~StepsWrap(expr[i], Highest[i])) =>
    \A t \in Times :
      Matches(t) = /\ \A i \in {1, 2, 4} : t[i] \in Named(i)
                   /\ \/ t[3] \in Named(3) /\ t[5] \in Named(5)
                      \/ /\ expr[3] # <<Star>> /\ expr[5] # <<Star>>
                         /\ t[3] \in Named(3) \/ t[5] \in Named(5)
=============================================================================
