----------------------------- MODULE ProcessProbe -----------------------------
(***************************************************************************)
(* minecraft_process_running of the platform crates.  Linux lists the      *)
(* processes up to three times, Android and Windows once, while games      *)
(* start and end (external).                                               *)
(***************************************************************************)

VARIABLES
    system,      \* "linux", "android", "windows"
    listing,     \* the list of processes: "ok", "empty", "denied"
    games,       \* the games that run, by what gives them away, or "hidden"
    pass,        \* where the call is
    running_is,  \* what it returned
    shown, ran   \* games visible all through, and at some time of, the call

processVars == <<system, listing, games, pass, running_is, shown, ran>>

Ways == {"comm", "cmdline"}

\* What a list of processes has of them.
Visible(gs) == IF listing = "ok" THEN gs \cap Ways ELSE {}

ProcessInit ==
    /\ system \in {"linux", "android", "windows"}
    /\ listing \in {"ok", "empty", "denied"}
    /\ games \in SUBSET (Ways \cup {"hidden"})
    /\ pass = "idle" /\ running_is = "none"
    /\ shown = {} /\ ran = {}

GamesChange ==
    /\ pass # "returned"
    /\ games' \in SUBSET (Ways \cup {"hidden"})
    /\ shown' = shown \cap Visible(games') /\ ran' = ran \cup Visible(games')
    /\ UNCHANGED <<system, listing, pass, running_is>>

ProcessCall ==
    /\ pass = "idle"
    /\ pass' = IF system = "linux" THEN "comm" ELSE "list"
    /\ shown' = Visible(games) /\ ran' = Visible(games)
    /\ UNCHANGED <<system, listing, games, running_is>>

ProcessAnswer(a) ==
    /\ running_is' = a /\ pass' = "returned"
    /\ UNCHANGED <<system, listing, games, shown, ran>>

\* Mutant: the command lines are not looked at.
OnlyNames(how) == "comm" \in Visible(games) /\ how = "comm"

Finds(how) == how \in Visible(games)

\* proc_comm_matches, proc_cmdline_matches, ...
LinuxPass(how, next) ==
    /\ pass = how
    /\ IF Finds(how) THEN ProcessAnswer("yes")
       ELSE pass' = next /\ UNCHANGED <<system, listing, games, running_is, shown, ran>>

\* ... and pgrep -f, which looks at command lines again and may be missing.
LinuxPgrep ==
    /\ pass = "pgrep"
    /\ ProcessAnswer("no") \/ (Finds("cmdline") /\ ProcessAnswer("yes"))

\* proc_visible_matches: None, when nothing at all is listed, means running.  A
\* list restricted to the caller's own processes is not empty.
AndroidPass ==
    /\ system = "android" /\ pass = "list"
    /\ ProcessAnswer(IF listing # "ok" \/ \E how \in Ways : Finds(how)
                       THEN "yes" ELSE "no")

\* The snapshot has the names of the executables only.
WindowsPass ==
    /\ system = "windows" /\ pass = "list"
    /\ ProcessAnswer(IF Finds("comm") THEN "yes" ELSE "no")

ProcessNext ==
    \/ GamesChange \/ ProcessCall
    \/ LinuxPass("comm", "cmdline") \/ LinuxPass("cmdline", "pgrep") \/ LinuxPgrep
    \/ AndroidPass \/ WindowsPass

ProcessSpec == ProcessInit /\ [][ProcessNext]_processVars

\* A game that the list of processes shows all through the call is noticed, in
\* whichever pass looks at what gives it away, and what is noticed was there.
\* Windows knows the game by the name of its executable only.  Android alone
\* also answers yes when the list is empty or cannot be had; a list that merely
\* leaves the game out is like one without it on every system.
VisibleGamesAreNoticed ==
    pass = "returned" =>
      /\ running_is = "no" => shown \subseteq IF system = "windows" THEN {"cmdline"} ELSE {}
      /\ running_is = "no" /\ system = "android" => listing = "ok"
      /\ running_is = "yes" => ran # {} \/ (system = "android" /\ listing # "ok")
=============================================================================
