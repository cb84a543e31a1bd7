----------------------------- MODULE MCServices -----------------------------
(***************************************************************************)
(* The small machines of the project in one run: a behaviour is about one  *)
(* subject, chosen at the start, and the variables of the others keep      *)
(* their first values.                                                     *)
(***************************************************************************)
EXTENDS Measure, IntervalTimer, HalTime, HalProfile, HalText, HalLog

VARIABLES
  subject,
  lo, hi,        \* "word": the two data bytes of an axis, one word a state
  number,        \* "number": a word to print
  fmt, fmtArgs   \* "format": a format and its arguments

wordVars == << lo, hi >>
textVars == << number, fmt, fmtArgs >>
servicesVars == << subject, wordVars, textVars, timerVars, timeVars, profileVars,
                  logVars >>

(* The formats of up to four characters that both formatters know, with    *)
(* arguments of the kinds they take.                                       *)
FormatChars == {"%", "x", "c", "s", "^D"}
Formats == UNION {[1 .. n -> FormatChars] : n \in 0 .. 4}

(* The letters that take an argument.                                      *)
Letters(f) ==
  FoldLeft(LAMBDA s, c :
             IF s.escape
             THEN [escape |-> FALSE,
                   taken |-> IF TakesArgument(c) THEN Append(s.taken, c) ELSE s.taken]
             ELSE [s EXCEPT !.escape = (c = "%")],
           [escape |-> FALSE, taken |-> << >>], f).taken

ArgumentFor == [c |-> "q", x |-> 255, s |-> << "h", "i" >>]
ArgumentsOf(f) == [i \in DOMAIN Letters(f) |-> ArgumentFor[Letters(f)[i]]]

(* The messages a build may have: ALT_LOG_FLAGS.                           *)
LogLevels == -1 .. 3

(* Sizes to ask the heap for: some of them words, some given back.         *)
Sizes == {-12, -6, 2, 12, 40}

(* Times to set.                                                           *)
GivenTimes == {[sec |-> 0, usec |-> 0], [sec |-> 30, usec |-> 5]}

ServicesInit ==
  /\ subject \in {"word", "number", "format", "timer", "time", "sleep", "heap", "profile",
                 "log"}
  /\ lo = 0 /\ hi = 0
  /\ number = 0
  /\ IF subject = "format" THEN fmt \in Formats ELSE fmt = << >>
  /\ fmtArgs = ArgumentsOf(fmt)
  /\ TimerInit /\ (subject # "timer" => owner = "sysclk")
  /\ TimeInit /\ (subject # "time" => rate = 0)
  /\ ProfileInit
  /\ LogInit /\ (subject # "log" => level = -1)
  /\ (subject # "profile" => textsize = CHOOSE n \in TextSizes : TRUE)

NextWord ==
  /\ lo' = (lo + 1) % 256
  /\ hi' = IF lo = 255 THEN (hi + 1) % 256 ELSE hi

NextNumber ==
  /\ number' = (number + 1) % LongWord
  /\ UNCHANGED << fmt, fmtArgs >>

ServicesNext ==
  /\ UNCHANGED subject
  /\ \/ /\ subject = "word" /\ NextWord
        /\ UNCHANGED << textVars, timerVars, timeVars, profileVars, logVars >>
     \/ /\ subject = "number" /\ NextNumber
        /\ UNCHANGED << wordVars, timerVars, timeVars, profileVars, logVars >>
     \/ /\ subject = "timer" /\ TimerNext
        /\ UNCHANGED << wordVars, textVars, timeVars, profileVars, logVars >>
     \/ /\ subject = "time" /\ ClockNext
        /\ UNCHANGED << wordVars, textVars, timerVars, profileVars, logVars >>
     \/ /\ subject = "sleep" /\ SleepNext
        /\ UNCHANGED << wordVars, textVars, timerVars, profileVars, logVars >>
     \/ /\ subject = "heap" /\ HeapNext
        /\ UNCHANGED << wordVars, textVars, timerVars, timeVars, listVars, callVars,
                        samplerVars, textsize, running, calls, lost, wild, spilled, logVars >>
     \/ /\ subject = "profile" /\ ProfileNext
        /\ UNCHANGED << wordVars, textVars, timerVars, timeVars, logVars >>
     \/ /\ subject = "log" /\ LogNext
        /\ UNCHANGED << wordVars, textVars, timerVars, timeVars, profileVars >>

ServicesSpec == ServicesInit /\ [][ServicesNext]_servicesVars

----------------------------------------------------------------------------
(* Properties, next to those of the modules.                               *)
(* For every word the two bytes of an axis can make: sign extension and    *)
(* scaling keep its value, the four digits are the value, each fits its    *)
(* output register, and the panel shows them with their sign (main.c:166,  *)
(* seg_afficher).                                                          *)
EveryReadingExact ==
  subject = "word" =>
    LET raw == Combine(lo, hi) IN
    /\ ConversionExact(raw)
    /\ DigitsExact(Scaled(Signed(raw)))
    /\ Reading(raw) \in Shown /\ PanelReadable(Reading(raw))

(* Every word is printed as what it is, and the two formatters agree on    *)
(* every short format both know (alt_printf.c:50, alt_log_printf.c:113).   *)
PrintersCorrect ==
  /\ subject = "number" => NumberPrinted(number)
  /\ subject = "format" => PrintersAgree(fmt, fmtArgs) /\ EchoSafe(fmt)
=============================================================================
