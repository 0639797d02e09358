-------------------------------- MODULE StartUp --------------------------------
(***************************************************************************)
(* How a server process is started: what the command line asks for         *)
(* (top-server/Options.js) and what is done about it (Server.js,           *)
(* Action.js), the bundles that are built for the clients                  *)
(* (client-bundle/ClientBundle.js), and what is read on the way: property  *)
(* files (proppy/Proppy.js), the parameters of artificial failures and the *)
(* directories of the product (env-server/).                               *)
(***************************************************************************)
EXTENDS Integers, Sequences, SequencesExt, FiniteSets, Functions

CONSTANT HashRange   \* bound: values of the hash that a server is chosen by

-----------------------------------------------------------------------------
(* Options.  An argument is [kind, name, value]; which arguments belong     *)
(* together, minimist says.                                                 *)

TestActions == {"client-test", "server-test"}
FullRuns == {"dev", "dev-if-appropriate", "production"}
Actions == FullRuns \cup TestActions \cup {"client-bundle", "help"}

Defaults ==
  [action |-> "production", error |-> FALSE, humanConsole |-> FALSE,
   testFilter |-> "none", testOut |-> "none"]

\* minimist: the last value of a flag counts; an argument that is no option
\* ends the parsing.
Opts(args) ==
  LET last == SelectInSeq(args, LAMBDA a : a.kind = "positional")
      parsed == IF last = 0 THEN args ELSE SubSeq(args, 1, last)
      Value(name, default) ==
        LET at == SelectLastInSeq(parsed, LAMBDA a : a.name = name)
        IN IF at = 0 THEN default ELSE parsed[at].value
  IN [unknown |-> \E i \in DOMAIN parsed : parsed[i].kind \in {"positional", "unknown"},
      flag |-> [name \in Actions \cup {"human-console"} |-> Value(name, "no") = "yes"],
      testFilter |-> Value("test-filter", "none"), testOut |-> Value("test-out", "none")]

\* The constructor, once it has the flags
OptionsFrom(opts) ==
  LET asked == {a \in Actions : opts.flag[a]}
      action == IF asked = {} THEN "production" ELSE CHOOSE a \in asked : TRUE
      testing == action \in TestActions
      failed == [Defaults EXCEPT !.error = TRUE]
  IN CASE opts.unknown \/ Cardinality(asked) > 1 -> failed
       [] opts.testFilter # "none" /\ ~ testing -> failed
       [] opts.testOut # "none" /\ ~ testing -> failed
       [] OTHER -> [action |-> action, error |-> FALSE,
                    humanConsole |-> opts.flag["human-console"],
                    testFilter |-> opts.testFilter, testOut |-> opts.testOut]

ParseOptions(args) == OptionsFrom(Opts(args))

-----------------------------------------------------------------------------
(* Server and Action.  The result of a run is what it did, in order, and    *)
(* what the process exits with: 0, 1, "runs on", or 1 for what was thrown.  *)
(* "world" is what it meets.                                                *)

Step(name, arg) == <<name, arg>>
Exit(code, done) == [exit |-> code, done |-> done]
RunsOn == -1   \* null

IsFullRun(action) == action \in FullRuns

StartLogging(options) ==
  IF IsFullRun(options.action)
  THEN <<Step("json log", IF options.humanConsole THEN "file" ELSE "file and console"),
         Step("human log", IF options.humanConsole THEN "file and console" ELSE "file")>>
  ELSE <<Step("human log", "console")>>

\* Mutant: a monitor that does not start is the end of it.
StartServerOrFail(pickPort, doMonitor, devRoutes, world) ==
  IF ~ world.envOk \/ (doMonitor /\ ~ world.monitorOk)
  THEN [ok |-> FALSE, done |-> <<Step("env", "thrown")>>]
  ELSE [ok |-> world.listenOk,
        done |-> <<Step("env", "ok"), Step("app", IF devRoutes THEN "debug" ELSE "plain")>>
          \o (IF doMonitor /\ world.monitorPort THEN <<Step("monitor", "ok")>> ELSE <<>>)
          \o <<Step("listen", IF pickPort THEN "picked" ELSE "configured")>>]

\* _startServer(): the application begins to listen while the monitor is
\* started, and the caller waits for both.
StartServer(pickPort, doMonitor, devRoutes, world) ==
  IF ~ world.envOk THEN [ok |-> FALSE, done |-> <<Step("env", "thrown")>>]
  ELSE [ok |-> world.listenOk,
        done |-> <<Step("env", "ok"), Step("app", IF devRoutes THEN "debug" ELSE "plain")>>
          \o (IF doMonitor /\ world.monitorPort
              THEN <<Step("monitor", IF world.monitorOk THEN "ok" ELSE "failed")>> ELSE <<>>)
          \o <<Step("listen", IF pickPort THEN "picked" ELSE "configured")>>
          \o (IF world.fails THEN <<Step("artificial failure", "justLogging")>> ELSE <<>>)]

RunProduction(world) ==
  LET started == StartServer(FALSE, TRUE, FALSE, world)
  IN Exit(IF started.ok THEN RunsOn ELSE 1, started.done)

RunDev(world) ==
  LET started == StartServer(FALSE, TRUE, TRUE, world)
  IN IF started.ok THEN Exit(RunsOn, Append(started.done, Step("dev mode", "started")))
     ELSE Exit(1, started.done)

RunDevIfAppropriate(world) ==
  IF world.inDevelopment THEN RunDev(world) ELSE RunProduction(world)

RunClientTest(world) ==
  LET started == IF world.alreadyRunning
                 THEN [ok |-> TRUE, done |-> <<>>]
                 ELSE StartServer(TRUE, FALSE, TRUE, world)
      port == IF world.alreadyRunning THEN "configured" ELSE "picked"
  IN IF started.ok
     THEN Exit(IF world.testsPass THEN 0 ELSE 1, Append(started.done, Step("client tests", port)))
     ELSE Exit(1, started.done)

RunServerTest(world) ==
  Exit(IF world.testsPass THEN 0 ELSE 1, <<Step("server tests", "run")>>)

RunClientBundle(world) ==
  Exit(IF world.bundlesBuilt THEN 0 ELSE 1, <<Step("bundle", "built")>>)

\* _run_help() has no result, and the process exits with none.
RunHelp == Exit(0, <<Step("usage", "told")>>)

Run(options, world) ==
  LET of == CASE options.action = "production"         -> RunProduction(world)
              [] options.action = "dev"                -> RunDev(world)
              [] options.action = "dev-if-appropriate" -> RunDevIfAppropriate(world)
              [] options.action = "client-test"        -> RunClientTest(world)
              [] options.action = "server-test"        -> RunServerTest(world)
              [] options.action = "client-bundle"      -> RunClientBundle(world)
              [] options.action = "help"               -> RunHelp
  IN [of EXCEPT !.done = StartLogging(options) \o @]

ServerRun(args, world) ==
  LET Serve(options) ==
        IF options.error THEN Exit(1, <<Step("usage", "told")>>) ELSE Run(options, world)
  IN Serve(ParseOptions(args))

-----------------------------------------------------------------------------
(* ClientBundle.  What a compiler writes stays in a file system in memory   *)
(* until a compilation without errors collects it.                          *)

NewBundles == [files |-> <<>>, current |-> <<>>, waiting |-> {}, answers |-> <<>>]

\* A request has an identity, and the name of a bundle.
Answers(b, requests) ==
  b.answers \o [i \in DOMAIN requests |->
    [who |-> requests[i].who,
     file |-> IF requests[i].name \in DOMAIN b.current THEN b.current[requests[i].name] ELSE 0]]

\* Mutant: what a compilation with errors wrote is served.
HandleCompilationAlways(b, compiled) ==
  LET files == compiled.files @@ b.files
  IN [b EXCEPT !.files = <<>>, !.current = files @@ @]

\* _handleCompilation()
HandleCompilation(b, compiled) ==
  LET files == compiled.files @@ b.files
  IN IF compiled.errors THEN [b EXCEPT !.files = files]
     ELSE [b EXCEPT !.files = <<>>, !.current = files @@ @]

\* _requestHandler(): whoever asks before there is a bundle waits for one.
HandleRequest(b, request) ==
  IF b.current = <<>> THEN [b EXCEPT !.waiting = @ \cup {request}]
  ELSE [b EXCEPT !.answers = Answers(b, <<request>>)]

\* Its loop, a second later
HandleWaiting(b) ==
  IF b.current = <<>> THEN b
  ELSE [b EXCEPT !.waiting = {}, !.answers = Answers(b, SetToSeq(b.waiting))]

BuildFails(b) == b.current = <<>>

-----------------------------------------------------------------------------
(* Proppy.  A text is a sequence of characters.                             *)

WordChars == {"a", "b", "n"}   \* bound: characters of words
NL == "newline"
Quotes == {"'", "dq"}
Backslash == "backslash"
Escapes == {"n", "t", Backslash} \cup Quotes
NoMatch == 0

\* How much of the text is among the characters
SpanOf(text, chars) ==
  LET other == SelectInSeq(text, LAMBDA c : c \notin chars)
  IN IF other = 0 THEN Len(text) ELSE other - 1

\* The end of a quoted string, where i is the place of what comes next in it
RECURSIVE QuoteEnd(_, _)
QuoteEnd(text, i) ==
  CASE i > Len(text) -> NoMatch
    [] text[i] = text[1] -> i
    [] text[i] = Backslash ->
         IF i = Len(text) \/ text[i + 1] = NL THEN NoMatch ELSE QuoteEnd(text, i + 2)
    [] OTHER -> QuoteEnd(text, i + 1)

BadText == [type |-> "thrown", value |-> <<>>]
Token(type, value) == [type |-> type, value |-> value]

RECURSIVE ParseQuotedString(_)
ParseQuotedString(text) ==
  IF text = <<>> THEN Token("string", <<>>)
  ELSE LET escape == text[1] = Backslash
           bad == escape /\ text[2] \notin Escapes
           rest == IF bad THEN BadText
                   ELSE ParseQuotedString(SubSeq(text, IF escape THEN 3 ELSE 2, Len(text)))
           char == IF ~ escape THEN text[1] ELSE IF text[2] = "n" THEN NL ELSE text[2]
       IN IF rest = BadText THEN BadText ELSE Token("string", <<char>> \o rest.value)

\* The next token, and how long it is; blanks and comments have none.
NextToken(text) ==
  LET first == text[1]
      word  == SpanOf(text, WordChars)
      end   == IF first \in Quotes THEN QuoteEnd(text, 2) ELSE NoMatch
  IN CASE first = "space" -> [tokens |-> <<>>, length |-> SpanOf(text, {"space"})]
       [] first = "#"     ->
            LET eol == SelectInSeq(text, LAMBDA c : c = NL)
            IN [tokens |-> <<>>, length |-> IF eol = 0 THEN Len(text) ELSE eol - 1]
       [] first = NL      -> [tokens |-> <<Token("eol", <<>>)>>, length |-> 1]
       [] first = "="     -> [tokens |-> <<Token("equals", <<>>)>>, length |-> 1]
       [] word # 0        -> [tokens |-> <<Token("string", SubSeq(text, 1, word))>>, length |-> word]
       [] end # NoMatch   -> [tokens |-> <<ParseQuotedString(SubSeq(text, 2, end - 1))>>, length |-> end]
       [] OTHER           -> [tokens |-> <<BadText>>, length |-> Len(text)]

RECURSIVE Tokenize(_)
Tokenize(text) ==
  IF text = <<>> THEN <<Token("eol", <<>>)>>
  ELSE LET next == NextToken(text)
       IN next.tokens \o Tokenize(SubSeq(text, next.length + 1, Len(text)))

BadProperties == [ok |-> FALSE, map |-> <<>>]

\* The loop of parseString()
RECURSIVE ParseTokens(_, _)
ParseTokens(tokens, map) ==
  LET types == [i \in DOMAIN tokens |-> tokens[i].type]
  IN CASE tokens = <<>> -> [ok |-> TRUE, map |-> map]
       [] types[1] = "eol" -> ParseTokens(Tail(tokens), map)
       [] IsPrefix(<<"string", "equals", "string", "eol">>, types) ->
            IF tokens[1].value \in DOMAIN map THEN BadProperties
            ELSE ParseTokens(SubSeq(tokens, 5, Len(tokens)),
                             (tokens[1].value :> tokens[3].value) @@ map)
       [] OTHER -> BadProperties

ParseString(text) ==
  LET tokens == Tokenize(text)
  IN IF BadText \in ToSet(tokens) THEN BadProperties ELSE ParseTokens(tokens, <<>>)

-----------------------------------------------------------------------------
(* ArtificialFailureInfo, Dirs                                              *)

FailTypes == {"justLogging", "none"}

\* _parseInfo(); what parseInt() makes of no number is "NaN".
ParseFailure(percent, type) ==
  IF ~ percent.isNumber \/ percent.n \notin 0..100 \/ type \notin FailTypes
  THEN [percent |-> 0, type |-> "none"]
  ELSE [percent |-> percent.n, type |-> type]

PercentFromHash(hash) == (hash * 100) \div HashRange

ShouldFail(info, allowed, asked, hash) ==
  LET percent == IF allowed THEN info.percent ELSE 0
      type == IF allowed THEN info.type ELSE "none"
  IN percent # 0 /\ asked \in {"any", type} /\ PercentFromHash(hash) < percent

NotFound == <<"not found">>

\* _findBaseDirectory(): dir has the names of the directories above it and its
\* own; "/" itself is not looked at.
RECURSIVE FindBaseDirectory(_, _)
FindBaseDirectory(dir, infoFiles) ==
  CASE dir = <<>> -> NotFound
    [] dir \in infoFiles -> dir
    [] OTHER -> FindBaseDirectory(Front(dir), infoFiles)

\* _ensureDir(): whatever is wrong with what is there, it is made, which throws
\* if anything is there, or nothing is above it.
EnsureDir(directories, files, dir) ==
  CASE dir \in directories -> [ok |-> TRUE, directories |-> directories]
    [] dir \in files \/ Front(dir) \notin directories -> [ok |-> FALSE, directories |-> directories]
    [] OTHER -> [ok |-> TRUE, directories |-> directories \cup {dir}]
=============================================================================
