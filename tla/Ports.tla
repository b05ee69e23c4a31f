------------------------------- MODULE Ports --------------------------------
(***************************************************************************)
(* The input ports of scheme14.cpp: one character of lookahead before the  *)
(* characters of a file, the port that is read when none is named, and the *)
(* descriptors, of which there is a limited number. A port the program has *)
(* lost is closed by its finalizer, at the latest when an open fails.      *)
(***************************************************************************)
EXTENDS Naturals, Sequences, FiniteSets, Maps

CONSTANTS
    Text,       \* the characters of every file a program opens
    Typed,      \* those of the console
    Limit       \* how many files can be open besides the console

VARIABLES
    ports,      \* the ports there are: a number -> a Port
    held,       \* the ports the program has in its variables
    stdin,      \* g_stdin_port
    taken,      \* history: the characters the program took from every port
    outcome     \* of the last open: what came of it
portVars == <<ports, held, stdin, taken, outcome>>

Console == 0
Ids     == 1..Limit         \* as many ports at a time, closed ones counted
Eof     == "eof"
NoPeek  == "none"

Port == [pos: 0..Len(Text) + Len(Typed), peek_ch: {Text[j] : j \in 1..Len(Text)} \cup
            {Typed[j] : j \in 1..Len(Typed)} \cup {Eof, NoPeek}, is_closed: BOOLEAN]

File(p) == IF p = Console THEN Typed ELSE Text
New     == [pos |-> 0, peek_ch |-> NoPeek, is_closed |-> FALSE]

-----------------------------------------------------------------------------
(* Characters. Each operation answers the character and the port.          *)

fgetc(f, port) ==
    IF port.pos < Len(f) THEN [ch |-> f[port.pos + 1], port |-> [port EXCEPT !.pos = @ + 1]]
                         ELSE [ch |-> Eof, port |-> port]

get_char(f, port) ==
    IF port.peek_ch # NoPeek THEN [ch |-> port.peek_ch, port |-> [port EXCEPT !.peek_ch = NoPeek]]
                             ELSE fgetc(f, port)

\* Mutant: a character is read whether or not there is one already.
peek_char_again(f, port) ==
    LET r == fgetc(f, port) IN [ch |-> r.ch, port |-> [r.port EXCEPT !.peek_ch = r.ch]]

peek_char(f, port) ==
    IF port.peek_ch # NoPeek THEN [ch |-> port.peek_ch, port |-> port]
    ELSE LET r == fgetc(f, port) IN [ch |-> r.ch, port |-> [r.port EXCEPT !.peek_ch = r.ch]]

unget_char(port, ch) == [port EXCEPT !.peek_ch = ch]

\* The character read ahead, and all that get_char will answer before the end.
Ahead(port)   == IF port.peek_ch \in {NoPeek, Eof} THEN <<>> ELSE <<port.peek_ch>>
Left(f, port) == IF port.peek_ch = Eof THEN <<>> ELSE Ahead(port) \o SubSeq(f, port.pos + 1, Len(f))

\* How many of the characters cs there are up to the first CR or LF, with it.
LineEnds(cs)  == {i \in 1..Len(cs) : cs[i] \in {"CR", "LF"}}
LineLength(cs) == IF LineEnds(cs) = {} THEN Len(cs) ELSE CHOOSE i \in LineEnds(cs) : \A j \in LineEnds(cs) : i <= j

\* read-line: up to LF, CR or CR LF; got is what was taken. Behind a CR one
\* character more is read, and put back when it is not LF.
line_from(f, port) ==
    LET cs    == Left(f, port)
        n     == LineLength(cs)
        looks == n > 0 /\ cs[n] = "CR" /\ n < Len(cs)
        m     == IF looks /\ cs[n + 1] = "LF" THEN n + 1 ELSE n
        past  == [pos |-> (port.pos + m) - Len(Ahead(port)), peek_ch |-> NoPeek, is_closed |-> port.is_closed]
    IN [got  |-> SubSeq(cs, 1, m),
        port |-> IF looks /\ cs[n + 1] # "LF" THEN unget_char([past EXCEPT !.pos = @ + 1], cs[n + 1]) ELSE past]

-----------------------------------------------------------------------------
Reachable == held \cup {Console, stdin}
IsOpen(p) == p \in DOMAIN ports /\ ~ports[p].is_closed
Open(ps)  == {p \in DOMAIN ps \ {Console} : ~ps[p].is_closed}

PortsInit ==
    /\ ports = With(Nothing, Console, New) /\ held = {} /\ stdin = Console
    /\ taken = With(Nothing, Console, <<>>)
    /\ outcome = "none"

\* The ports a read may be from: those the program has and the default one.
Readable(p) == (p \in held \/ p = stdin) /\ IsOpen(p)

read_char(p) ==
    LET r == get_char(File(p), ports[p]) IN
    /\ Readable(p)
    /\ ports' = [ports EXCEPT ![p] = r.port]
    /\ taken' = IF r.ch = Eof THEN taken ELSE [taken EXCEPT ![p] = Append(@, r.ch)]
    /\ outcome' = "none" /\ UNCHANGED <<held, stdin>>

peek(p) ==
    /\ Readable(p)
    /\ ports' = [ports EXCEPT ![p] = peek_char(File(p), @).port]
    /\ outcome' = "none" /\ UNCHANGED <<held, stdin, taken>>

read_line(p) ==
    LET r == line_from(File(p), ports[p]) IN
    /\ Readable(p)
    /\ ports' = [ports EXCEPT ![p] = r.port]
    /\ taken' = [taken EXCEPT ![p] = @ \o r.got]
    /\ outcome' = "none" /\ UNCHANGED <<held, stdin>>

\* The default port is not asked whether it is open: a null FILE is read.
read_closed ==
    /\ ~IsOpen(stdin)
    /\ outcome' = "crash" /\ UNCHANGED <<ports, held, stdin, taken>>

\* The console is not owned: closing it does nothing.
Close(ps, which) == [p \in DOMAIN ps |-> IF p \in which \ {Console} THEN [ps[p] EXCEPT !.is_closed = TRUE] ELSE ps[p]]

close(p) ==
    /\ p \in held
    /\ ports' = Close(ports, {p})
    /\ outcome' = "none" /\ UNCHANGED <<held, stdin, taken>>

\* The collector and its finalizers, which run when it is done: the ports
\* lost are closed and gone.
Kept(ps) == [p \in DOMAIN ps \cap Reachable |-> ps[p]]

\* Mutant: the finalizers are put off.
finalizers_put_off(ps) == ps

gc_with_finalizers(ps) == Kept(Close(ps, DOMAIN ps \ Reachable))

collect ==
    /\ ports' = gc_with_finalizers(ports)
    /\ taken' = [p \in DOMAIN ports' |-> taken[p]]
    /\ outcome' = "none" /\ UNCHANGED <<held, stdin>>

\* The program loses a port; one that is closed is never heard of again.
lose(p) ==
    /\ p \in held
    /\ held' = held \ {p}
    /\ ports' = IF ports[p].is_closed /\ p # stdin THEN Without(ports, p) ELSE ports
    /\ taken' = [x \in DOMAIN ports' |-> taken[x]]
    /\ outcome' = "none" /\ UNCHANGED stdin

\* fopen_with_gc_retry: one collection and one retry.
fopen(ps) == Cardinality(Open(ps)) < Limit

open_input_file ==
    LET after == IF fopen(ports) THEN ports ELSE gc_with_finalizers(ports)
        free  == Ids \ DOMAIN after
        p     == CHOOSE x \in free : \A y \in free : x <= y
    IN IF fopen(after)
       THEN /\ free # {}
            /\ ports' = With(after, p, New)
            /\ taken' = [x \in DOMAIN ports' |-> IF x = p THEN <<>> ELSE taken[x]]
            /\ held' = held \cup {p}
            /\ outcome' = "open" /\ UNCHANGED stdin
       ELSE /\ ports' = after
            /\ taken' = [x \in DOMAIN after |-> taken[x]]
            /\ outcome' = "no descriptors" /\ UNCHANGED <<held, stdin>>

\* %set-current-input-port! answers the port there was.
set_current_input_port(p) ==
    /\ p \in held /\ IsOpen(p)
    /\ stdin' = p /\ held' = held \cup {stdin}
    /\ outcome' = "none" /\ UNCHANGED <<ports, taken>>

PortsNext ==
    /\ outcome # "crash"
    /\ \/ \E p \in Ids \cup {Console} :
             \/ read_char(p) \/ peek(p) \/ read_line(p)
             \/ close(p) \/ lose(p) \/ set_current_input_port(p)
       \/ open_input_file \/ collect \/ read_closed

PortsSpec == PortsInit /\ [][PortsNext]_portVars

-----------------------------------------------------------------------------
(* Properties.                                                             *)

PortsTypeOK ==
    /\ \A p \in DOMAIN ports : ports[p] \in Port
    /\ held \subseteq DOMAIN ports /\ stdin \in DOMAIN ports
    /\ DOMAIN taken = DOMAIN ports

\* Every character is taken once and in its place, however read-char,
\* peek-char and read-line follow one another, at the end of the file and
\* where a line ends in CR, LF or both.
TextInOrder ==
    \A p \in DOMAIN ports :
        taken[p] \o Ahead(ports[p]) \o SubSeq(File(p), ports[p].pos + 1, Len(File(p))) = File(p)

\* An open fails for want of a descriptor only when the program itself holds
\* all of them: one collection with its finalizers is enough.
OpensIfItCan == outcome = "no descriptors" => Cardinality(Open(Kept(ports))) = Limit
=============================================================================
