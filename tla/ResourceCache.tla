--------------------------- MODULE ResourceCache ---------------------------
(***************************************************************************)
(* resource_cache.rs: every instance of the application, of whatever       *)
(* version, brings the one payload directory of the user to its own        *)
(* version before it starts its guardian.  prepare.lock is exclusive;      *)
(* usage.lock is shared by running instances and exclusive for an update.  *)
(*                                                                         *)
(* The checks of the installed archive and of its inventory are left out:  *)
(* they touch nothing and refuse an installation that is not whole.        *)
(***************************************************************************)
EXTENDS Naturals

CONSTANTS Instances, \* processes of the application
          Versions,  \* app version and archive hash, as in the marker
          FileCount, \* files of the payload, in the order of the archive
          Absent,    \* no such file
          Torn       \* a file that is written in part

ASSUME CacheAssumption ==
    /\ FileCount \in Nat \ {0}
    /\ Absent \notin Versions /\ Torn \notin Versions /\ Absent # Torn

VARIABLES
    stage,    \* of each instance: where it is in prepare()
    wants,    \* the version of each instance
    preparer, \* the instances that hold prepare.lock
    users,    \* the instances that hold usage.lock, shared
    updater,  \* the instances that hold usage.lock, exclusive
    payload   \* the contents of the files; 0 is the version marker

cacheVars == <<stage, wants, preparer, users, updater, payload>>

Entries == 0..FileCount

Stages == {"off", "checking", "upgrading", "cleaning", "extracting", "undoing", "sharing",
           "running"}

Contents == Versions \cup {Absent, Torn}

CacheTypeOK ==
    /\ stage \in [Instances -> Stages]
    /\ wants \in [Instances -> Versions]
    /\ preparer \subseteq Instances
    /\ users \subseteq Instances
    /\ updater \subseteq Instances
    /\ payload \in [Entries -> Contents]

\* Whatever an earlier run, or another program, has left.
CacheInit ==
    /\ stage = [i \in Instances |-> "off"]
    /\ wants \in [Instances -> Versions]
    /\ preparer = {} /\ users = {} /\ updater = {}
    /\ payload \in [Entries -> Contents]

Whole(v) == \A e \in Entries : payload[e] = v

Empty == \A e \in Entries : payload[e] = Absent

\* Mutant: the marker alone is looked at.
CacheMatches_MarkerOnly(v) == payload[0] = v

\* cache_matches: the marker, and the size and the hash of every file.
CacheMatches(v) == Whole(v)

Goes(i, to) == stage' = [stage EXCEPT ![i] = to]

Written(e, content) == payload' = [payload EXCEPT ![e] = content]

\* The process is gone, or prepare() has returned an error: no lock is held.
Leaves(i) ==
    /\ Goes(i, "off")
    /\ preparer' = preparer \ {i}
    /\ users' = users \ {i}
    /\ updater' = updater \ {i}

\* Both locks are tried and never waited for.
Prepare(i) ==
    /\ stage[i] = "off"
    /\ preparer = {} /\ updater = {}
    /\ Goes(i, "checking")
    /\ preparer' = {i}
    /\ users' = users \cup {i}
    /\ UNCHANGED <<wants, updater, payload>>

Reuse(i) ==
    /\ stage[i] = "checking" /\ CacheMatches(wants[i])
    /\ Goes(i, "running")
    /\ preparer' = preparer \ {i}
    /\ UNCHANGED <<wants, users, updater, payload>>

\* There is no upgrade of a lock: it is given back first.
Mismatch(i) ==
    /\ stage[i] = "checking" /\ ~CacheMatches(wants[i])
    /\ Goes(i, "upgrading")
    /\ users' = users \ {i}
    /\ UNCHANGED <<wants, preparer, updater, payload>>

Upgrade(i) ==
    /\ stage[i] = "upgrading"
    /\ users = {} /\ updater = {}
    /\ Goes(i, "cleaning")
    /\ updater' = {i}
    /\ UNCHANGED <<wants, preparer, users, payload>>

InUse(i) ==
    /\ stage[i] = "upgrading"
    /\ users \cup updater # {}
    /\ Leaves(i)
    /\ UNCHANGED <<wants, payload>>

\* remove_payload, in the order the directory is listed.
RemoveEntry(i, e) ==
    /\ stage[i] \in {"cleaning", "undoing"}
    /\ payload[e] # Absent
    /\ Written(e, Absent)
    /\ UNCHANGED <<stage, wants, preparer, users, updater>>

Removed(i) ==
    /\ stage[i] \in {"cleaning", "undoing"} /\ Empty
    /\ IF stage[i] = "cleaning"
       THEN Goes(i, "extracting") /\ UNCHANGED <<preparer, users, updater>>
       ELSE Leaves(i)
    /\ UNCHANGED <<wants, payload>>

\* The files in the order of the archive, then the marker.
NextEntry(e) ==
    \/ e # 0 /\ \A f \in 1..(e - 1) : payload[f] \notin {Absent, Torn}
    \/ e = 0 /\ \A f \in 1..FileCount : payload[f] \notin {Absent, Torn}

CreateEntry(i, e) ==
    /\ stage[i] = "extracting"
    /\ NextEntry(e) /\ payload[e] = Absent
    /\ Written(e, Torn)
    /\ UNCHANGED <<stage, wants, preparer, users, updater>>

\* The last byte of a file is written and its hash is right.
FinishEntry(i, e) ==
    /\ stage[i] = "extracting"
    /\ NextEntry(e) /\ payload[e] = Torn
    /\ Written(e, wants[i])
    /\ IF e = 0 THEN Goes(i, "sharing") /\ updater' = updater \ {i}
       ELSE UNCHANGED <<stage, updater>>
    /\ UNCHANGED <<wants, preparer, users>>

\* Disk full, a wrong hash: the payload is removed again.
ExtractFails(i) ==
    /\ stage[i] = "extracting"
    /\ Goes(i, "undoing")
    /\ UNCHANGED <<wants, preparer, users, updater, payload>>

Share(i) ==
    /\ stage[i] = "sharing" /\ updater = {}
    /\ Goes(i, "running")
    /\ users' = users \cup {i}
    /\ preparer' = preparer \ {i}
    /\ UNCHANGED <<wants, updater, payload>>

\* The end of an instance, a failed step of prepare() or a crash at any point.
InstanceEnds(i) ==
    /\ stage[i] # "off"
    /\ Leaves(i)
    /\ UNCHANGED <<wants, payload>>

\* An installer puts another version in place.
Reinstall(i, v) ==
    /\ stage[i] = "off"
    /\ wants' = [wants EXCEPT ![i] = v]
    /\ UNCHANGED <<stage, preparer, users, updater, payload>>

\* Only the marker is synced: after a power failure any other file may be torn.
PowerFails(e) ==
    /\ stage' = [i \in Instances |-> "off"]
    /\ preparer' = {} /\ users' = {} /\ updater' = {}
    /\ Written(e, Torn)
    /\ UNCHANGED wants

CacheNext ==
    \/ \E i \in Instances :
          \/ Prepare(i) \/ Reuse(i) \/ Mismatch(i) \/ Upgrade(i) \/ InUse(i)
          \/ Removed(i) \/ ExtractFails(i) \/ Share(i) \/ InstanceEnds(i)
          \/ \E e \in Entries : RemoveEntry(i, e) \/ CreateEntry(i, e) \/ FinishEntry(i, e)
          \/ \E v \in Versions : Reinstall(i, v)
    \/ \E e \in 1..FileCount : PowerFails(e)

CacheSpec == CacheInit /\ [][CacheNext]_cacheVars

-----------------------------------------------------------------------------
\* Properties.

\* What a running instance runs on is complete and of its own version, for as
\* long as it runs: no other instance, of whatever version, replaces a payload
\* in use, and none starts on what a crash has left of an update
\* (resource_cache.rs:386, 394, 461).
RunsOnItsOwn == \A i \in Instances : stage[i] = "running" => Whole(wants[i])
=============================================================================
