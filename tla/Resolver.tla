------------------------------ MODULE Resolver ------------------------------
(***************************************************************************)
(* From a name to an address (resolve of user/lib/ulib.c): the file        *)
(* /etc/hosts, read in lines of bounded length, then the DNS server, asked *)
(* up to three times over a network that loses, repeats and delays         *)
(* datagrams.  The program looks up several names one after another, and   *)
(* its socket may get the port of the one before: answers of an earlier    *)
(* question can still arrive.  A name is a model value; the hosts file is  *)
(* a sequence of fields and line ends, a datagram a record.                *)
(***************************************************************************)
EXTENDS Naturals, Sequences, FiniteSets

CONSTANTS
    RsNames,     \* names looked up
    RsZone,      \* what the server says of a name: the types of the records of its answer
    RsHosts,     \* the hosts files considered
    RsLine,      \* fields a line of it may have (255 bytes)
    RsTries,     \* questions asked (3)
    RsLookups,   \* bound: names looked up
    RsFlight     \* bound: datagrams under way

VARIABLES
    rs,        \* resolve: the lookup under way
    hosts,     \* /etc/hosts
    dgrams,    \* datagrams on their way to the program
    asked      \* questions that reached the server: [id, name]

rsVars == <<rs, hosts, dgrams, asked>>

Newline == "nl"
Comment == "#"

\* parse_ip of a field: is it an address?  In a hosts file the addresses are "ip1", "ip2".
Addresses == {"ip1", "ip2"}

\* The address of a name at the server; the one an alias's record would be read as.
Home(name) == <<"home", name>>

RsInit ==
    /\ rs = [at |-> "idle", name |-> CHOOSE n \in RsNames : TRUE, id |-> 0, tries |-> 0, result |-> <<>>, count |-> 0]
    /\ hosts \in RsHosts
    /\ dgrams = {}
    /\ asked = {}

-----------------------------------------------------------------------------
(* /etc/hosts. *)

\* hosts_line_matches: the line without its comment begins with an address and has the name after it.
Uncommented(line) ==
    LET marks == {i \in 1 .. Len(line) : line[i] = Comment}
    IN IF marks = {} THEN line ELSE SubSeq(line, 1, (CHOOSE i \in marks : \A j \in marks : i <= j) - 1)
hosts_line_matches(line, name) ==
    LET fields == Uncommented(line)
    IN fields # <<>> /\ fields[1] \in Addresses /\ \E i \in 2 .. Len(fields) : fields[i] = name


\* A line that is too long is skipped whole.
Skipped(l) == l.too_long

\* hosts_lookup, field by field: the line gathered so far, whether it is too long, the address found.
Fresh(l) == [line |-> <<>>, too_long |-> FALSE,
             found |-> IF ~Skipped(l) /\ l.line # <<>> THEN l.line[1] ELSE "none"]
EndLine(l, name) ==
    IF ~Skipped(l) /\ hosts_line_matches(l.line, name) THEN Fresh(l) ELSE [Fresh(l) EXCEPT !.found = "none"]
Gather(l, field, name) ==
    CASE l.found # "none" -> l
      [] field = Newline -> EndLine(l, name)
      [] field # Newline /\ Len(l.line) < RsLine -> [l EXCEPT !.line = Append(@, field)]
      [] OTHER -> [l EXCEPT !.too_long = TRUE]
hosts_lookup(name) ==
    LET gathered[i \in 0 .. Len(hosts)] ==
            IF i = 0 THEN [line |-> <<>>, too_long |-> FALSE, found |-> "none"]
            ELSE Gather(gathered[i - 1], hosts[i], name)
        l == gathered[Len(hosts)]
    IN IF l.found # "none" \/ l.line = <<>> THEN l.found ELSE EndLine(l, name).found

-----------------------------------------------------------------------------
(* The server. *)

\* dns_parse_reply: the first address record after the aliases before it; a record that runs off the
\* end spoils the message.
FirstOf(records) ==
    LET stops == {i \in 1 .. Len(records) : records[i] \in {"A", "cut"}}
    IN IF stops = {} THEN "none" ELSE records[CHOOSE i \in stops : \A j \in stops : i <= j]

\* Mutant of dns_parse_reply: the id is not compared.
dns_parse_any(m, id) == IF m.rcode = "noname" \/ FirstOf(m.records) = "none" THEN <<"ENOENT">> ELSE m.address

dns_parse_reply(m, id) ==
    CASE m.id # id \/ ~m.response -> <<"EINVAL">>
      [] m.id = id /\ m.response /\ m.rcode = "noname" -> <<"ENOENT">>
      [] m.id = id /\ m.response /\ m.rcode = "failed" -> <<"EINVAL">>
      [] OTHER -> CASE FirstOf(m.records) = "A" -> m.address
                    [] FirstOf(m.records) = "cut" -> <<"EINVAL">>
                    [] OTHER -> <<"ENOENT">>

\* What the server may send for a question: the answer, or that it failed.
ServerSays(q) ==
    {[id |-> q.id, from |-> "server", response |-> TRUE, rcode |-> code, records |-> RsZone[q.name], address |-> Home(q.name)] :
        code \in {IF RsZone[q.name] = <<"noname">> THEN "noname" ELSE "ok", "failed"}}

server_answers(q) ==
    \E m \in ServerSays(q) :
        /\ Cardinality(dgrams \cup {m}) <= RsFlight
        /\ dgrams' = dgrams \cup {m}
        /\ UNCHANGED <<rs, hosts, asked>>

\* A datagram of another machine arrives on the port: an answer of its own, or a question.
stranger_sends(q) ==
    \E r \in BOOLEAN :
        /\ Cardinality(dgrams) < RsFlight
        /\ dgrams' = dgrams \cup {[id |-> q.id, from |-> IF r THEN "other" ELSE "server", response |-> r, rcode |-> "ok",
                                   records |-> <<"A">>, address |-> <<"other", q.name>>]}
        /\ UNCHANGED <<rs, hosts, asked>>

\* A datagram is lost.
lost(m) ==
    /\ dgrams' = dgrams \ {m}
    /\ UNCHANGED <<rs, hosts, asked>>

-----------------------------------------------------------------------------
(* resolve. *)

\* A name is looked for in /etc/hosts, then asked of the server, if there is one, with an id of its own.
resolve(name) ==
    /\ rs.at = "idle" /\ rs.count < RsLookups
    /\ LET here == hosts_lookup(name)
       IN rs' = IF here # "none"
                THEN [rs EXCEPT !.at = "done", !.name = name, !.result = <<here>>, !.count = @ + 1]
                ELSE [rs EXCEPT !.at = "send", !.name = name, !.result = <<"ETIMEDOUT">>, !.count = @ + 1, !.tries = 0,
                                !.id = @ + 1]
    /\ UNCHANGED <<hosts, dgrams, asked>>

\* dns_lookup: the question is sent (dns_build_query), and reaches the server or is lost.
send_query ==
    /\ rs.at = "send"
    /\ rs' = [rs EXCEPT !.at = "wait", !.tries = @ + 1]
    /\ \/ asked' = asked \cup {[id |-> rs.id, name |-> rs.name]}
       \/ UNCHANGED asked
    /\ UNCHANGED <<hosts, dgrams>>

\* The question cannot be sent.
send_fails ==
    /\ rs.at = "send"
    /\ rs' = [rs EXCEPT !.at = "done", !.result = <<"error">>]
    /\ UNCHANGED <<hosts, dgrams, asked>>


\* Only the server that was asked is listened to.
FromServer(m) == m.from = "server"

\* A datagram arrives (and may arrive again): an answer or "no such name" ends the lookup, any other is passed over.
receive(m, again) ==
    LET parsed == dns_parse_reply(m, rs.id)
    IN /\ rs.at = "wait"
       /\ rs' = IF FromServer(m) /\ parsed # <<"EINVAL">> THEN [rs EXCEPT !.at = "done", !.result = parsed] ELSE rs
       /\ dgrams' = IF again THEN dgrams ELSE dgrams \ {m}
       /\ UNCHANGED <<hosts, asked>>

\* Two seconds have passed: the question is asked again, or the lookup fails.
times_out ==
    /\ rs.at = "wait"
    /\ rs' = [rs EXCEPT !.at = IF rs.tries < RsTries THEN "send" ELSE "done"]
    /\ UNCHANGED <<hosts, dgrams, asked>>

\* The caller takes the result.
returns ==
    /\ rs.at = "done"
    /\ rs' = [rs EXCEPT !.at = "idle", !.result = <<>>, !.tries = 0]
    /\ UNCHANGED <<hosts, dgrams, asked>>

RsNext ==
    \/ \E n \in RsNames : resolve(n)
    \/ send_query \/ send_fails \/ times_out \/ returns
    \/ \E q \in asked : server_answers(q) \/ stranger_sends(q)
    \/ \E m \in dgrams : lost(m) \/ \E again \in BOOLEAN : receive(m, again)

-----------------------------------------------------------------------------
(* Properties. *)

\* What the hosts file says of a name, read as a whole: the lines are what lies between line ends, those
\* that are too long name nothing, and the first that gives the name an address counts.
Ends == {0, Len(hosts) + 1} \cup {i \in 1 .. Len(hosts) : hosts[i] = Newline}
Lines == {<<i, j>> \in Ends \X Ends : i < j /\ j - i - 1 <= RsLine /\ \A k \in Ends : k <= i \/ k >= j}
LineOf(l) == SubSeq(hosts, l[1] + 1, l[2] - 1)
HostsSay(name) ==
    LET naming == {l \in Lines : hosts_line_matches(LineOf(l), name)}
    IN IF naming = {} THEN "none" ELSE LineOf(CHOOSE l \in naming : \A k \in naming : l[1] <= k[1])[1]

\* What the server holds of a name.
ServerHolds(name) ==
    IF RsZone[name] = <<"noname">> THEN <<"ENOENT">>
    ELSE CASE FirstOf(RsZone[name]) = "A" -> Home(name) [] FirstOf(RsZone[name]) = "none" -> <<"ENOENT">> [] OTHER -> <<"EINVAL">>

\* Whatever answers arrive late, twice, from strangers or to an earlier question, a name is resolved to
\* what the hosts file says of it or, if that says nothing, to what the server holds of it.
NameIsItsOwn ==
    rs.at = "done" =>
        IF HostsSay(rs.name) # "none" THEN rs.result = <<HostsSay(rs.name)>>
        ELSE rs.result \in {<<"error">>, <<"ETIMEDOUT">>, ServerHolds(rs.name)}
=============================================================================
