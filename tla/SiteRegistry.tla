---------------------------- MODULE SiteRegistry ----------------------------
(***************************************************************************)
(* What the panel promises about the web sites of a host to those who own  *)
(* them.  A site is registered once, when all it needs is there, under a   *)
(* domain no other has and with a database no other uses.  From then on    *)
(* its entry, and what it needs, change only while the panel serves that   *)
(* very site, which it does for one site at a time; the panel leaves it    *)
(* whole or withdrawn, unless its withdrawal or move was cut off.          *)
(***************************************************************************)
CONSTANTS Domain,
          DatabaseOf,  \* the name of the database of a domain's site
          Entry,       \* what is said of a site: its id, its type, its settings
          Nobody

VARIABLES entry,    \* per domain the registered site, or Nobody
          whole,    \* ids of registered sites that have their files, their
                    \* database, its password and their user
          served,   \* the id of the site the panel works on, or Nobody
          spoiled   \* ids of sites whose withdrawal or move was cut off

absVars == <<entry, whole, served, spoiled>>

Entered == {d \in Domain : entry[d] # Nobody}

AbsInit ==
    /\ entry = [d \in Domain |-> Nobody]
    /\ whole = {} /\ served = Nobody /\ spoiled = {}

\* What the others need stays as it is.
OthersKept == LET mine == spoiled' \cup {served} IN whole' \ mine = whole \ mine

\* The panel turns to a site, or to one that is not registered.
Serve(s) ==
    /\ served = Nobody
    /\ served' = s
    /\ UNCHANGED <<entry, whole, spoiled>>

\* The site served is registered, whole, and shares nothing with the others.
Register(d, e) ==
    /\ served # Nobody /\ e.id = served
    /\ entry[d] = Nobody
    /\ \A c \in Entered : entry[c].id # served /\ DatabaseOf[c] # DatabaseOf[d]
    /\ entry' = [entry EXCEPT ![d] = e]
    /\ whole' = whole \cup {served}
    /\ UNCHANGED <<served, spoiled>>

\* The settings of the site served; never its id or its type.
Adjust(d, e) ==
    /\ entry[d] # Nobody
    /\ entry[d].id = served /\ e.id = served /\ e.type = entry[d].type
    /\ entry' = [entry EXCEPT ![d] = e]
    /\ UNCHANGED <<whole, served, spoiled>>

\* What the site served needs is taken away, moved or brought back.
Work ==
    /\ served # Nobody
    /\ OthersKept
    /\ UNCHANGED <<entry, served, spoiled>>

\* The site served is no longer registered.
Withdraw(d) ==
    /\ entry[d] # Nobody /\ entry[d].id = served
    /\ entry' = [entry EXCEPT ![d] = Nobody]
    /\ whole' = whole \ {served}
    /\ UNCHANGED <<served, spoiled>>

\* The panel cannot complete what it began with the site, now or before a crash.
CutOff ==
    /\ served # Nobody
    /\ spoiled' = spoiled \cup {served}
    /\ served' \in {served, Nobody}
    /\ OthersKept
    /\ UNCHANGED entry

\* The panel leaves a site it did not spoil whole, or unregistered.
Leave ==
    /\ served # Nobody
    /\ \A d \in Entered : entry[d].id = served => served \in whole \cup spoiled
    /\ served' = Nobody
    /\ UNCHANGED <<entry, whole, spoiled>>

AbsNext ==
    \/ \E d \in Domain : Withdraw(d) \/ \E e \in Entry : Register(d, e) \/ Adjust(d, e)
    \/ Work \/ CutOff \/ Leave
    \/ served' # Nobody /\ Serve(served')

AbsSpec == AbsInit /\ [][AbsNext]_absVars
=============================================================================
