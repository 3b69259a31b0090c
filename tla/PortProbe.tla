------------------------------ MODULE PortProbe ------------------------------
(***************************************************************************)
(* udp_port_bound of the platform crates.  Linux and Android scan the IPv4 *)
(* and the IPv6 table of the proc file system one after the other; Windows *)
(* asks for the size of its IPv4 table and then for the table.  Sockets    *)
(* are opened and closed in between (external).                            *)
(***************************************************************************)
EXTENDS Naturals

CONSTANT MaxRows   \* bound: IPv4 sockets on other ports

Families == {"v4", "v6"}

VARIABLES
    os,          \* "linux" (and Android, whose code is the same), "windows"
    table,       \* each table: "ok", "missing" or unreadable ("denied")
    bound,       \* the families in which the port is bound
    rows,        \* IPv4 sockets on other ports
    step,        \* where the call is
    size,        \* the buffer that owner_pid_of_port_impl allocated, in rows
    answer,      \* what the call returned
    held, seen   \* families bound all through, and at some time of, the call

portVars == <<os, table, bound, rows, step, size, answer, held, seen>>

\* The proc file system has no table of a family that the system does not have.
Supported == {f \in Families : os = "linux" => table[f] # "missing"}

PortInit ==
    /\ os \in {"linux", "windows"}
    /\ table \in [Families -> {"ok", "missing", "denied"}]
    /\ bound \in SUBSET Supported
    /\ rows \in 0 .. MaxRows
    /\ step = "idle" /\ size = 0 /\ answer = "none"
    /\ held = {} /\ seen = {}

\* The system changes until the call returns.
SocketsChange ==
    /\ step # "returned"
    /\ bound' \in SUBSET Supported
    /\ rows' \in 0 .. MaxRows
    /\ held' = held \cap bound' /\ seen' = seen \cup bound'
    /\ UNCHANGED <<os, table, step, size, answer>>

PortCall ==
    /\ step = "idle"
    /\ step' = IF os = "windows" THEN "size" ELSE "v4"
    /\ held' = bound /\ seen' = bound
    /\ UNCHANGED <<os, table, bound, rows, size, answer>>

PortAnswer(a) ==
    /\ answer' = a /\ step' = "returned"
    /\ UNCHANGED <<os, table, bound, rows, size, held, seen>>

\* Mutant: the needle has no colon and matches other addresses.
AnyRow(f) == f \in bound \/ rows > 0

HasPort(f) == f \in bound

\* Mutant: a table that cannot be read is one without the port.
NothingDenied(f) == FALSE

Denied(f) == table[f] = "denied"

\* table_has_port: a table that does not exist has no port.
ScanTable(f) ==
    /\ step = f
    /\ \/ Denied(f) /\ PortAnswer("error")
       \/ table[f] = "ok" /\ HasPort(f) /\ PortAnswer("yes")
       \/ /\ ~Denied(f) /\ ~(table[f] = "ok" /\ HasPort(f))
          /\ IF f = "v6" THEN PortAnswer("no")
             ELSE /\ step' = "v6"
                  /\ UNCHANGED <<os, table, bound, rows, size, answer, held, seen>>

Entries == rows + (IF "v4" \in bound THEN 1 ELSE 0)

\* The first GetExtendedUdpTable asks for the size.  Its result is ignored: when
\* it fails, the size is still 0 and the call ends like that of a free port.
WindowsSize ==
    /\ step = "size"
    /\ IF table["v4"] # "ok" THEN PortAnswer("no")
       ELSE /\ size' = Entries
            /\ step' = "fetch"
            /\ UNCHANGED <<os, table, bound, rows, answer, held, seen>>

\* ERROR_INSUFFICIENT_BUFFER: the zeros in the buffer are a table of no rows.
TooSmall == Entries > size

\* The second one can fail in other ways, too.
WindowsFetch ==
    /\ step = "fetch"
    /\ \/ PortAnswer("error")
       \/ ~TooSmall /\ HasPort("v4") /\ PortAnswer("yes")
       \/ (TooSmall \/ ~HasPort("v4")) /\ PortAnswer("no")

PortNext ==
    \/ SocketsChange \/ PortCall
    \/ \E f \in Families : ScanTable(f)
    \/ WindowsSize \/ WindowsFetch

PortSpec == PortInit /\ [][PortNext]_portVars

-----------------------------------------------------------------------------
(* Properties.                                                             *)

\* On Linux and Android a port that is bound all through the call is never
\* reported free, although two tables are read one after the other and either
\* may be unreadable: "Returns true if any UDP/UDP6 socket is bound to the given
\* local port" holds up to errors.
BoundPortsAreFound ==
    step = "returned" /\ answer = "no" /\ os = "linux" => held = {}

\* The answer yes is about the port, not about another socket or an earlier
\* time: it was bound at some moment of the call.
ReportedPortsWereBound ==
    step = "returned" /\ answer = "yes" => seen # {}

\* What the comment on udp_port_bound for Windows says: "Returns true if any UDP
\* socket is bound to the given local port."  Even where the IPv4 table can be
\* had and the socket is an IPv4 one, bound all through the call.
WindowsPortsAreFound ==
    step = "returned" /\ answer = "no" /\ os = "windows" /\ table["v4"] = "ok"
      => "v4" \notin held
=============================================================================
