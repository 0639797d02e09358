-------------------------------- MODULE Logging --------------------------------
(***************************************************************************)
(* The log.  First what is logged: records (see-all/LogRecord.js,          *)
(* LogTag.js, BaseLogger.js) and the text of their messages, what of the   *)
(* calls over the API is told in them (see-all/RedactUtil.js, Redactor of  *)
(* see-all-server, Target and ApiLog of api-server), and the layout that   *)
(* HumanSink and ClientSink give them; values are those of Data.tla.       *)
(*                                                                         *)
(* Then the way of a record to its sinks, of which only the time and the   *)
(* width of the prefix matter: see-all/AllSinks.js, which puts records of  *)
(* the time between the others; RecentSink.js, which keeps what is recent; *)
(* HumanSink.js, as far as that width goes; and FileSink.js, all of        *)
(* see-all-server.  The clock of the system may be set back.               *)
(***************************************************************************)
EXTENDS Integers, Sequences, SequencesExt, FiniteSets, FiniteSetsExt, Data

CONSTANTS
  ClockSteps,      \* by how much the clock moves between two calls
  PrefixLengths,   \* of the prefixes of records
  MaxLines,        \* bound: records that are logged
  Lull, MaxGap, MaxLogsPerTime,   \* LULL_MSEC, MAX_GAP_MSEC, MAX_LOGS_PER_TIME
  MaxAge,          \* maxAgeMsec of the RecentSink
  MinPrefix, PrefixIncrement, AdjustEvery

-----------------------------------------------------------------------------
(* Records *)

MessageLevels == {"debug", "error", "warn", "info", "detail"}
WantStackLevels == {"debug", "error", "warn"}
ReservedNames == MessageLevels \cup {"time"}
Metrics == {"metric-m"}   \* bound: what eventNameFromMetricName() makes

NewRecord(timeMsec, stack, tag, payload) ==
  [timeMsec |-> timeMsec, stack |-> stack, tag |-> tag, payload |-> payload]

Thrown == [thrown |-> TRUE]

IsEvent(record) == record.payload.name \notin ReservedNames
IsMessage(record) == record.payload.name \in MessageLevels
IsTime(record) == record.payload.name = "time"
IsMetric(record) == record.payload.name \in Metrics

DeepFrozenArgs(payload) == \A i \in DOMAIN payload.args : IsDeepFrozen(payload.args[i])

ForEvent(timeMsec, stack, tag, payload) ==
  IF payload.name \in ReservedNames \/ ~ DeepFrozenArgs(payload) THEN Thrown
  ELSE NewRecord(timeMsec, stack, tag, payload)

ForMessage(timeMsec, stack, tag, level, message) ==
  IF level \notin MessageLevels THEN Thrown
  ELSE NewRecord(timeMsec, stack, tag, Functor(level, message))

ForTime(timeMsec) ==
  NewRecord(timeMsec, <<>>, <<"time">>, Functor("time", <<String("utc"), String("local")>>))

WithEvent(record, payload) ==
  IF ~ IsEvent(record) \/ ~ DeepFrozenArgs(payload) THEN Thrown
  ELSE [record EXCEPT !.payload = payload]

WithMessage(record, message) ==
  IF ~ IsMessage(record) THEN Thrown ELSE [record EXCEPT !.payload.args = message]

WithTag(record, tag) == [record EXCEPT !.tag = tag]

HasError(record) ==
  \E i \in DOMAIN record.payload.args :
    LET a == record.payload.args[i] IN a.kind = "instance" /\ a.class \in {"Error", "InfoError"}

\* _convertNonDataForEventLog(): a call of the constructor, as it seems
RECURSIVE Converted(_)
Converted(v) ==
  CASE v.kind \in LeafKinds \cup {"buffer"} -> v
    [] v.kind = "instance" ->
         Functor("new_" \o v.class, [i \in DOMAIN v.fields |-> Converted(v.fields[i])])
    [] IsContainer(v) /\ ~ HasGetter(v) ->
         WithParts(v, [k \in DOMAIN Parts(v) |-> Converted(Parts(v)[k])])
    [] v.kind = "function" -> Functor("new_Function", <<String("[Function]")>>)
    [] v.kind = "array"  -> Functor("new_Array", <<String("[Getter]")>>)
    [] v.kind = "object" -> Functor("new_Object", <<String("[Getter]")>>)

\* logEvent(), which any values may be given to
LogEvent(name, args) ==
  ForEvent(0, <<>>, <<"tag">>, Functor(name, [i \in DOMAIN args |-> Converted(args[i])]))

-----------------------------------------------------------------------------
(* messageString.  A text is a sequence of characters; NL ends a line.      *)

NL == "newline"
Space == "space"
HasNL(text) == NL \in Range(text)
EndsLine(text) == text # <<>> /\ Last(text) = NL

RECURSIVE TrimStart(_)
TrimStart(text) == IF text # <<>> /\ Head(text) = NL THEN TrimStart(Tail(text)) ELSE text
TrimEnds(text) == Reverse(TrimStart(Reverse(TrimStart(text))))

\* inspectValue(): a string is shown as it is, but ends its last line if it
\* has several; what is inspected loses what is empty at either end.
InspectValue(arg) ==
  LET text == IF arg.kind = "string" THEN arg.text ELSE TrimEnds(arg.text)
  IN IF HasNL(text) /\ ~ EndsLine(text) THEN Append(text, NL) ELSE text

\* The loop over the arguments, and the stack for some levels.
MessageText(args, stack) ==
  LET start == [out |-> <<>>, atLineStart |-> TRUE, anyNewlines |-> FALSE]
      add(sofar, arg) ==
        LET s == InspectValue(arg)
            separator == IF sofar.atLineStart THEN <<>>
                         ELSE IF EndsLine(s) THEN <<NL>> ELSE <<Space>>
        IN [out |-> sofar.out \o separator \o s,
            atLineStart |-> EndsLine(s),
            anyNewlines |-> sofar.anyNewlines \/ EndsLine(s)]
      end == FoldLeft(add, start, args)
      closed == IF end.anyNewlines /\ ~ end.atLineStart THEN <<NL>> ELSE <<>>
      lines == FlattenSeq([i \in DOMAIN stack |-> <<Space, Space, stack[i], NL>>])
  IN end.out \o closed
       \o (IF stack = <<>> THEN <<>>
           ELSE (IF end.anyNewlines THEN <<>> ELSE <<NL>>) \o lines)

\* Some levels have the stack in the text, unless an error tells of its own.
WantsStack(record) ==
  IsMessage(record) /\ record.payload.name \in WantStackLevels /\ ~ HasError(record)

MessageString(record) ==
  MessageText(record.payload.args, IF WantsStack(record) THEN record.stack ELSE <<>>)

-----------------------------------------------------------------------------
(* RedactUtil.  Of strings, numbers and the like, only the type is told;    *)
(* the names of classes, properties and functors are told.                  *)

Dots == String("...")
MaxArrayElements == 10
MaxObjectKeys == 20

FullyRedact(v) ==
  CASE v.kind \in {"null", "undefined"} -> v
    [] v.kind = "array"   -> Array(FALSE, <<Dots>>)
    [] v.kind = "functor" -> Functor(v.name, <<Dots>>)
    [] v.kind = "instance" -> Functor("new_" \o v.class, <<Dots>>)
    [] v.kind = "buffer"  -> Functor("new_FrozenBuffer", <<Dots>>)
    [] v.kind = "object"  -> Object(FALSE, [k \in {"..."} |-> Dots])
    [] v.kind = "string"  -> Dots
    [] OTHER -> Functor(v.kind, <<Dots>>)

\* The first keys as sort() has them; which they are makes no difference here.
FirstKeys(keys) == CHOOSE first \in kSubset(MaxObjectKeys, keys) : TRUE

\* Mutant: the depth is not counted, and strings pass at the end of it.
RECURSIVE RedactToDepth(_, _)
RedactToDepth(v, maxDepth) ==
  IF maxDepth = 0 THEN v
  ELSE IF v.kind \in {"array", "functor"}
       THEN WithParts(v, [k \in DOMAIN Parts(v) |-> RedactToDepth(Parts(v)[k], maxDepth - 1)])
       ELSE FullyRedact(v)

RECURSIVE RedactValues(_, _)
RedactValues(v, maxDepth) ==
  LET inside(w) == RedactValues(w, maxDepth - 1)
      more == String("more")
  IN IF maxDepth = 0 THEN FullyRedact(v)
     ELSE CASE v.kind = "array" ->
                 Array(FALSE,
                   LET shown == SubSeq(v.elems, 1, Min({Len(v.elems), MaxArrayElements}))
                   IN [i \in DOMAIN shown |-> inside(shown[i])]
                        \o (IF Len(v.elems) > MaxArrayElements THEN <<more>> ELSE <<>>))
            [] v.kind = "functor" -> [v EXCEPT !.args = [i \in DOMAIN @ |-> inside(@[i])]]
            [] v.kind = "object" ->
                 LET keys  == DOMAIN v.props
                     shown == IF Cardinality(keys) > MaxObjectKeys THEN FirstKeys(keys) ELSE keys
                 IN Object(FALSE,
                      [k \in shown \cup (IF shown = keys THEN {} ELSE {"..."}) |->
                         IF k \in shown THEN inside(v.props[k]) ELSE more])
            [] v.kind = "string" -> String("length")
            [] OTHER -> FullyRedact(v)

\* truncateString()
TruncateString(text, maxLength) ==
  IF Len(text) <= maxLength THEN text
  ELSE SubSeq(text, 1, maxLength - 3) \o <<".", ".", ".">>

-----------------------------------------------------------------------------
(* Target and ApiLog: what is told of a call.  A schema says of a method    *)
(* whether its arguments, each for itself, and its result may be logged;    *)
(* without a target nothing may.                                            *)

MaxRedactionDepth == 4

LogInfoRedacted(v, isArgument) ==
  Functor("redacted", <<RedactValues(v, MaxRedactionDepth - (IF isArgument THEN 1 ELSE 0))>>)

\* _getLogging(): what a class does not say is FALSE.
GetLogging(declared) ==
  [args   |-> IF "args" \in DOMAIN declared THEN declared.args ELSE <<>>,
   result |-> "result" \in DOMAIN declared /\ declared.result]

NoTarget == [none |-> TRUE]

LogInfoFromPayload(target, payload, shouldRedact) ==
  IF payload.args = <<>> \/ ~ shouldRedact THEN payload
  ELSE IF target = NoTarget THEN LogInfoRedacted(payload, FALSE)
  ELSE LET logging == GetLogging(target.declared)
       IN Functor(payload.name,
            [i \in DOMAIN payload.args |->
               IF i \in DOMAIN logging.args /\ logging.args[i] THEN payload.args[i]
               ELSE LogInfoRedacted(payload.args[i], TRUE)])

LogInfoFromResult(target, result, shouldRedact) ==
  IF result.kind \in {"undefined", "null"} \/ ~ shouldRedact THEN result
  ELSE IF target # NoTarget /\ GetLogging(target.declared).result THEN result
  ELSE LogInfoRedacted(result, FALSE)

\* _logInfoFull(), as it gets to the log
LoggedCall(target, payload, result, shouldRedact) ==
  LogEvent("apiReturned", <<LogInfoFromPayload(target, payload, shouldRedact),
                            LogInfoFromResult(target, result, shouldRedact)>>)

-----------------------------------------------------------------------------
(* What the sinks write.                                                    *)

Ellipsis == <<".", ".", ".">>

\* The lines of a text, without what ends the last
LinesOf(text) ==
  LET body == IF EndsLine(text) THEN Front(text) ELSE text
      ends == SelectSeq([i \in DOMAIN body |-> i], LAMBDA i : body[i] = NL)
      from(n) == IF n = 1 THEN 1 ELSE ends[n - 1] + 1
      to(n)   == IF n > Len(ends) THEN Len(body) ELSE ends[n] - 1
  IN [n \in 1..(Len(ends) + 1) |-> SubSeq(body, from(n), to(n))]

\* HumanSink, of a long event: the end is left out, or the last line that is
\* not whole; the dots stand under the line before.
EventText(text, maxLength) ==
  LET cut  == SubSeq(text, 1, maxLength)
      last == SelectLastInSeq(cut, LAMBDA c : c = NL)
      kept == SubSeq(cut, 1, last)
      above == Last(LinesOf(kept))
      other == SelectInSeq(above, LAMBDA c : c # Space)
  IN IF Len(text) <= maxLength THEN text
     ELSE IF last = 0 THEN cut \o Ellipsis
     ELSE kept \o SubSeq(above, 1, IF other = 0 THEN Len(above) ELSE other - 1) \o Ellipsis

\* wrapAnsi(), which breaks between words if it can
Wrapped(line, width) ==
  IF line = <<>> THEN <<line>>
  ELSE [n \in 1..((Len(line) + width - 1) \div width) |->
          SubSeq(line, (n - 1) * width + 1, Min({n * width, Len(line)}))]

\* _impl_sinkLog() of HumanSink: what is written, each line after the prefix, as
\* many spaces, or, if one is too wide to stand there, an indentation.
WriteLines(lines, prefixLength, consoleWidth) ==
  LET Written(indent, text) == [indent |-> indent, text |-> text]
      Chunks(line) ==
        LET chunks == Wrapped(line, consoleWidth - 2)
        IN [n \in DOMAIN chunks |-> Written(IF n = 1 THEN "  " ELSE "+ ", chunks[n])]
  IN IF \E i \in DOMAIN lines : Len(lines[i]) > consoleWidth - prefixLength
     THEN <<Written("prefix", <<>>)>> \o FlattenSeq([i \in DOMAIN lines |-> Chunks(lines[i])])
     ELSE [i \in DOMAIN lines |-> Written(IF i = 1 THEN "prefix" ELSE "spaces", lines[i])]

\* ClientSink: a format for the console of the browser, and its arguments
Directives == {"%s", "%o", "%c"}
Shown(format, args) == [format |-> format, args |-> args]
Joined(s, t) == Shown(s.format \o t.format, s.args \o t.args)

RECURSIVE FormatValue(_)
FormatValue(v) ==
  IF v.kind # "functor" THEN Shown(<<"%o">>, <<v>>)
  ELSE LET Next(sofar, a) ==
             Joined(IF a = 1 THEN sofar ELSE Joined(sofar, Shown(<<", ">>, <<>>)),
                    FormatValue(v.args[a]))
           parts == FoldLeft(Next, Shown(<<"%s", "(">>, <<String(v.name)>>), [i \in DOMAIN v.args |-> i])
       IN Joined(parts, Shown(<<")">>, <<>>))

Style == Shown(<<"%c">>, <<String("style")>>)
PrefixFormat ==
  Joined(Joined(Style, Shown(<<"%s">>, <<String("prefix")>>)), Shown(<<"%c">>, <<String("no style")>>))

ConsoleEvent(payload) == Joined(Joined(PrefixFormat, Style), FormatValue(payload))

ConsoleMetric(args) ==
  LET label == Joined(Joined(PrefixFormat, Style), Shown(<<"%s">>, <<String("metric")>>))
  IN CASE Len(args) = 0 -> label
       [] Len(args) = 1 -> Joined(label, FormatValue(args[1]))
       [] OTHER         -> Joined(label, FormatValue(Array(FALSE, args)))

ConsoleMessage(args) ==
  LET Next(sofar, arg) ==
        Joined(Joined(sofar, Shown(<<" ">>, <<>>)),
               IF arg.kind \in {"number", "string", "undefined"} THEN Shown(<<"%s">>, <<arg>>)
               ELSE FormatValue(arg))
  IN FoldLeft(Next, PrefixFormat, args)

-----------------------------------------------------------------------------
\* Redactor._doRedaction(), with what the configuration would have instead
Redact(record, payload, tag) ==
  LET redacted == CASE IsMessage(record) -> WithMessage(record, payload.args)
                    [] IsEvent(record)   -> WithEvent(record, payload)
                    [] OTHER -> record
  IN WithTag(redacted, tag)

-----------------------------------------------------------------------------
(* The way to the sinks *)

VARIABLES
  clock,           \* Date.now()
  lastNow,         \* _lastNow
  linesSinceTime,  \* _linesSinceTime
  recent,          \* _log of the RecentSink
  prefix,          \* of the HumanSink: [length, recentMax, recentCount]
  file,            \* what the FileSink has appended
  logged           \* every record that was sent to the sinks, in order

vars == <<clock, lastNow, linesSinceTime, recent, prefix, file, logged>>

IsTimeRecord(record) == record.kind = "time"
TimeRecord(at) == [kind |-> "time", timeMsec |-> at, prefix |-> MinPrefix]

Init ==
  /\ clock = MaxGap * 2   \* any time long after 0
  /\ lastNow = 0 /\ linesSinceTime = 0
  /\ recent = <<>> /\ file = <<>> /\ logged = <<>>
  /\ prefix = [length |-> MinPrefix, recentMax |-> 0, recentCount |-> 0]

-----------------------------------------------------------------------------
(* AllSinks._nowMsec()                                                     *)

NextGapMarker(last) == last - (last % MaxGap) + MaxGap

\* Mutant: the lines are not counted.
TimesByClock(now) ==
  IF now >= lastNow + Lull THEN <<TimeRecord(now)>>
  ELSE IF now >= NextGapMarker(lastNow) THEN <<TimeRecord(NextGapMarker(lastNow))>>
  ELSE <<>>

\* The record of the time that goes before the one that is logged now, if any.
TimesBefore(now) ==
  IF linesSinceTime >= MaxLogsPerTime \/ now >= lastNow + Lull THEN <<TimeRecord(now)>>
  ELSE IF now >= NextGapMarker(lastNow) THEN <<TimeRecord(NextGapMarker(lastNow))>>
  ELSE <<>>

-----------------------------------------------------------------------------
(* The sinks                                                               *)

\* Mutant: everything that is too old goes, wherever it is.
TrimEverywhere(log, timeMsec) == SelectSeq(log, LAMBDA r : r.timeMsec >= timeMsec - MaxAge)

\* RecentSink._trim(): up to the first record that is young enough
Trim(log, timeMsec) ==
  LET young == {i \in DOMAIN log : log[i].timeMsec >= timeMsec - MaxAge}
  IN IF young = {} THEN <<>> ELSE SubSeq(log, Min(young), Len(log))

SinkRecent(log, record) ==
  LET all == Append(log, record)
  IN IF IsTimeRecord(record) THEN Trim(all, record.timeMsec) ELSE all

\* HumanSink._makePrefix(), which is called for records of the time too
Rounded(length) ==
  IF length <= MinPrefix THEN MinPrefix
  ELSE MinPrefix + ((length - MinPrefix + PrefixIncrement - 1) \div PrefixIncrement) * PrefixIncrement

\* Mutant: the reckoning starts with what the next lines have.
AdjustTooMuch(p, record) ==
  LET length == Rounded(record.prefix)
  IN IF p.recentCount + 1 >= AdjustEvery
     THEN [length |-> p.recentMax, recentMax |-> length, recentCount |-> 0]
     ELSE [length |-> Max({p.length, length}), recentMax |-> Max({p.recentMax, length}),
           recentCount |-> p.recentCount + 1]

\* What is wider than the space makes it wider; every AdjustEvery lines, the
\* space becomes what these lines needed.
MakePrefix(p, record) ==
  LET length == Max({p.length, Rounded(record.prefix)})
      most   == Max({p.recentMax, Rounded(record.prefix)})
  IN IF p.recentCount + 1 >= AdjustEvery
     THEN [length |-> most, recentMax |-> 0, recentCount |-> 0]
     ELSE [length |-> length, recentMax |-> most, recentCount |-> p.recentCount + 1]

\* FileSink._impl_sinkLog() leaves the time out: every line has its own.
SinkFile(lines, record) == IF IsTimeRecord(record) THEN lines ELSE Append(lines, record)

-----------------------------------------------------------------------------
\* logEvent(), logMessage(), when the clock has moved by d since the last call:
\* the time, if it is due, and then the record go to all sinks.
Log(d, length) ==
  LET now == clock + d
      record == [kind |-> "line", timeMsec |-> now, prefix |-> length]
      records == Append(TimesBefore(now), record)
  IN /\ Len(file) < MaxLines /\ now > MaxGap
     /\ clock' = now /\ lastNow' = now
     /\ linesSinceTime' = (IF Len(records) > 1 THEN 0 ELSE linesSinceTime) + 1
     /\ recent' = FoldLeft(SinkRecent, recent, records)
     /\ prefix' = FoldLeft(MakePrefix, prefix, records)
     /\ file' = FoldLeft(SinkFile, file, records)
     /\ logged' = logged \o records

Next == \E d \in ClockSteps, length \in PrefixLengths : Log(d, length)

Spec == Init /\ [][Next]_vars

-----------------------------------------------------------------------------
(* Properties *)

TimeBefore(i) == Max({j \in 1..i : IsTimeRecord(logged[j])})

\* Whoever reads the log knows of each line when it was: a record of the time
\* is before it, not many lines before it, and less than a gap ago.
LinesAreDated ==
  /\ logged # <<>> => IsTimeRecord(logged[1])
  /\ \A i \in DOMAIN logged :
       LET t == TimeBefore(i)
       IN i - t <= MaxLogsPerTime /\ logged[i].timeMsec - logged[t].timeMsec < MaxGap

\* The recent log is the end of the log, the file has all of it but the times,
\* and what has gone from the recent log was too old by the time that was
\* logged; if the clock is not set back, all that is too old has gone then.
RecentIsTheEnd ==
  /\ IsSuffix(recent, logged)
  /\ file = SelectSeq(logged, LAMBDA r : ~ IsTimeRecord(r))
  /\ LET gone == Len(logged) - Len(recent)
         times == {i \in DOMAIN logged : IsTimeRecord(logged[i])}
         steady == \A i, j \in DOMAIN logged : i < j => logged[i].timeMsec <= logged[j].timeMsec
     IN /\ \A i \in 1..gone : \E t \in times : logged[i].timeMsec < logged[t].timeMsec - MaxAge
        /\ steady /\ times # {} =>
             \A i \in (gone + 1)..Len(logged) :
               logged[i].timeMsec >= logged[Max(times)].timeMsec - MaxAge

\* The prefix of each line fits in the space for prefixes, which is as wide as
\* the widest since the block of lines before this one began.
PrefixFits ==
  LET n == Len(logged)
      inBlock == n % AdjustEvery
      since == n - inBlock - AdjustEvery + 1
      widths == {Rounded(logged[i].prefix) : i \in Max({1, since})..n}
  IN /\ n > 0 => prefix.length >= logged[n].prefix
     /\ prefix.length = Max(widths \cup (IF since < 1 THEN {MinPrefix} ELSE {}))
=============================================================================
