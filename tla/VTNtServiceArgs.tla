--------------------------- MODULE VTNtServiceArgs ---------------------------
(***************************************************************************)
(* The command line of src/VTNtService.cpp: main() sorts it into a command,*)
(* options and arguments for the service; installService() stores the      *)
(* arguments in the registry; ServiceMain() reads them back for run().     *)
(***************************************************************************)
EXTENDS Naturals, Sequences, FiniteSets, SequencesExt

CONSTANTS MaxArgs,     \* bound on the length of the command line
          Length,      \* characters of a string
          CharSize     \* bytes of a character, 2 for wchar_t

Modes == {"--install", "--console", "--stop"}    \* and --uninstall, --start
Valued == {"--login", "--name"}                  \* and --password, --display
Unknown == {"--other", "-x"}
Words == Modes \cup Valued \cup Unknown \cup {"--delayed", "-h", "word"}

ArgsAssumption ==
    /\ MaxArgs \in Nat
    /\ CharSize \in Nat \ {0}
    /\ \A w \in Unknown \cup {"path"} : Length[w] \in Nat

VARIABLES argv,        \* the words after the program's name
          i,           \* the next word to look at
          action,      \* the command; the service itself if none is given
          showUsage,
          options,     \* options given, with their values
          args,        \* m_argv[1 .. m_argc - 1]
          phase,       \* how far the program is
          registry,    \* the stored characters and their number of bytes
          runArgs      \* what run() is called with

vars == << argv, i, action, showUsage, options, args, phase, registry, runArgs >>
stored == << phase, registry, runArgs >>

Nul == << "nul", 0 >>
Junk == << "junk", 0 >>

Init ==
    /\ argv \in BoundedSeq(Words, MaxArgs)
    /\ i = 1
    /\ action = "service" /\ showUsage = FALSE
    /\ options = {} /\ args = << >>
    /\ phase = "parse"
    /\ registry = [data |-> << >>, bytes |-> 0] /\ runArgs = << >>

-----------------------------------------------------------------------------
\* main()'s loop: one action per kind of word.

Word(kind) ==
    /\ phase = "parse"
    /\ i <= Len(argv)
    /\ argv[i] \in kind
    /\ UNCHANGED << argv, stored >>

\* Faults the runs must catch; no specification uses them.

\* An option that does not skip its value.
ParseValuedTwice ==
    /\ Word(Valued)
    /\ i' = i + 1
    /\ options' = IF i < Len(argv) THEN options \cup {<< argv[i], argv[i + 1] >>} ELSE options
    /\ showUsage' = (showUsage \/ i = Len(argv))
    /\ UNCHANGED << action, args >>

-----------------------------------------------------------------------------
ParseMode ==
    /\ Word(Modes)
    /\ action' = argv[i]
    /\ i' = i + 1
    /\ UNCHANGED << showUsage, options, args >>

\* --login and the like take the next word, whatever it looks like.  The last
\* one given counts.
ParseValued ==
    /\ Word(Valued)
    /\ i' = i + 2
    /\ IF i < Len(argv)
       THEN /\ options' = {o \in options : o[1] # argv[i]} \cup {<< argv[i], argv[i + 1] >>}
            /\ UNCHANGED showUsage
       ELSE showUsage' = TRUE /\ UNCHANGED options
    /\ UNCHANGED << action, args >>

ParseDelayed ==
    /\ Word({"--delayed"})
    /\ options' = options \cup {<< argv[i], "TRUE" >>}
    /\ i' = i + 1
    /\ UNCHANGED << action, showUsage, args >>

ParseHelp ==
    /\ Word({"-h"})
    /\ showUsage' = TRUE
    /\ i' = i + 1
    /\ UNCHANGED << action, options, args >>

\* Unknown words are kept for the service; those that are no options ask for help.
ParseUnknown ==
    /\ Word(Unknown \cup {"word"})
    /\ args' = Append(args, argv[i])
    /\ showUsage' = (showUsage \/ argv[i] = "word")
    /\ i' = i + 1
    /\ UNCHANGED << action, options >>

\* The chosen function is called, or the usage shown.
Act ==
    /\ phase = "parse" /\ i > Len(argv)
    /\ phase' = IF showUsage THEN "usage" ELSE action
    /\ UNCHANGED << argv, i, action, showUsage, options, args, registry, runArgs >>

-----------------------------------------------------------------------------
\* A string's characters and its terminator.
Chars(s) == [k \in 1..Length[s] |-> << s, k >>] \o << Nul >>

Strings(ss) == FlattenSeq([k \in DOMAIN ss |-> Chars(ss[k])])

\* installService(): the path, the arguments and a terminator are put together
\* in characters; their number is passed to RegSetValueEx() as bytes.
Install ==
    /\ phase = "--install"
    /\ LET data == Strings(<< "path" >> \o args) \o << Nul >>
       IN registry' = [data |-> SubSeq(data, 1, Len(data) \div CharSize), bytes |-> Len(data)]
    /\ phase' = "installed"
    /\ UNCHANGED << argv, i, action, showUsage, options, args, runArgs >>

\* The string at a position of the buffer.
StringAt(buf, p) ==
    LET ends == {q \in p..Len(buf) : buf[q] = Nul}
    IN SubSeq(buf, p, IF ends = {} THEN Len(buf) ELSE (CHOOSE q \in ends : \A r \in ends : q <= r) - 1)

\* ServiceMain(): the buffer is taken to have as many characters as the value has
\* bytes; those beyond the value are whatever they were.  argc counts the terminators
\* but for the last character's; a string starts behind each but for the last two's.
\* (If the last but one is none, one start too many is stored behind argv's end.)
ServiceMain ==
    /\ phase = "installed"
    /\ \E rest \in [1..(registry.bytes - Len(registry.data)) -> {Nul, Junk}] :
        LET buf == registry.data \o rest
            Nuls(last) == {q \in 1..last : buf[q] = Nul}
            argc == Cardinality(Nuls(registry.bytes - 1))
            starts == {1} \cup {q + 1 : q \in Nuls(registry.bytes - 2)}
        IN runArgs' = [k \in 1..argc |->
                StringAt(buf, CHOOSE p \in starts : Cardinality({q \in starts : q < p}) = k - 1)]
    /\ phase' = "run"
    /\ UNCHANGED << argv, i, action, showUsage, options, args, registry >>

\* The key cannot be opened or the value not be read: run(0, 0).
ServiceMainReadsNothing ==
    /\ phase = "installed"
    /\ runArgs' = << >>
    /\ phase' = "unread"
    /\ UNCHANGED << argv, i, action, showUsage, options, args, registry >>

Done == phase \notin {"parse", "--install", "installed"} /\ UNCHANGED vars

Next ==
    \/ ParseMode \/ ParseValued \/ ParseDelayed \/ ParseHelp \/ ParseUnknown
    \/ Act \/ Install \/ ServiceMain \/ ServiceMainReadsNothing \/ Done

Spec == Init /\ [][Next]_vars

-----------------------------------------------------------------------------
(* Properties *)

\* Which words are values of the option before them.
IsValue[k \in 1..MaxArgs] == k > 1 /\ argv[k - 1] \in Valued /\ ~IsValue[k - 1]

Plain(kind) == {k \in DOMAIN argv : ~IsValue[k] /\ argv[k] \in kind}

\* What main() makes of a command line is what the help promises, word for word:
\* the last command counts, options have the values that follow them, a value is
\* never taken for a command or an argument, nothing unknown is lost or reordered.
\* (main.)
ParsesAsDocumented ==
    phase # "parse" =>
        /\ action = IF Plain(Modes) = {} THEN "service"
                    ELSE argv[CHOOSE k \in Plain(Modes) : \A j \in Plain(Modes) : j <= k]
        /\ showUsage = (Plain({"-h", "word"}) # {} \/ Len(argv) \in Plain(Valued))
        /\ Len(args) = Cardinality(Plain(Unknown \cup {"word"}))
        /\ \A k \in Plain(Unknown \cup {"word"}) :
             args[Cardinality({j \in Plain(Unknown \cup {"word"}) : j <= k})] = argv[k]
        /\ \A o \in options : o[1] \in Valued =>
             \E k \in Plain({o[1]}) : argv[k + 1] = o[2] /\ \A j \in Plain({o[1]}) : j <= k \/ j = Len(argv)

\* When the value could be read, run() gets the arguments that the service was
\* installed with: "command line arguments were extracted successfully".
\* (installService, ServiceMain.)
RunGetsInstalledArgs ==
    phase = "run" =>
        runArgs = [k \in 1..(Len(args) + 1) |-> Front(Chars((<< "path" >> \o args)[k]))]
=============================================================================
