---------------------------- MODULE CookieStore ----------------------------
(* CookieStore and PersistentCookieExchanger: the jar of one session,      *)
(* handed to a live transport and kept on disk.  The lock is held over a   *)
(* whole Save and not over ApplyCookies; a write may fail, and the process *)
(* may die between any two steps and come back.                            *)

CONSTANTS
    Jars,     \* the cookies a session may have
    Appliers  \* the callers of ApplyCookies

Nothing == "nothing"  \* no file, or an empty jar
Torn == "torn"        \* a file that was written in part

VARIABLES
    live,     \* what the transport uses
    jar,      \* CookieStore.jar, in memory
    file,     \* what is under path
    temp,     \* what is under path.tmp
    applying, \* [Appliers -> ...] where each call is, and with which jar
    kept      \* the jar of the last Save that reported success; history

storeVars == <<live, jar, file, temp, applying, kept>>

Idle == [at |-> "idle", with |-> Nothing]

StoreTypeOK ==
    /\ live \in Jars \cup {Nothing} /\ jar \in Jars \cup {Nothing}
    /\ file \in Jars \cup {Nothing, Torn} /\ temp \in Jars \cup {Nothing, Torn}
    /\ applying \in [Appliers ->
         [at : {"idle", "applied", "opening", "writing", "renaming"}, with : Jars \cup {Nothing}]]
    /\ kept \in Jars \cup {Nothing}

StoreInit ==
    /\ live = Nothing /\ jar = Nothing /\ file = Nothing /\ temp = Nothing
    /\ applying = [a \in Appliers |-> Idle] /\ kept = Nothing

Goes(a, to) == applying' = [applying EXCEPT ![a].at = to]
Returns(a) == applying' = [applying EXCEPT ![a] = Idle]

Locked == \E a \in Appliers : applying[a].at \in {"opening", "writing", "renaming"}

\* The transport takes the jar; a jar it rejects goes no further.
ApplyLive(a, j) ==
    /\ applying[a] = Idle /\ live' = j
    /\ applying' = [applying EXCEPT ![a] = [at |-> "applied", with |-> j]]
    /\ UNCHANGED <<jar, file, temp, kept>>

\* Save: the map first.
TakeLock(a) ==
    /\ applying[a].at = "applied" /\ ~Locked
    /\ jar' = applying[a].with /\ Goes(a, "opening")
    /\ UNCHANGED <<live, file, temp, kept>>

\* Delete: without the transport, and without a write if there is nothing to delete.
DeleteJar(a) ==
    /\ applying[a] = Idle /\ ~Locked /\ jar # Nothing
    /\ jar' = Nothing /\ Goes(a, "opening")
    /\ UNCHANGED <<live, file, temp, kept>>

\* persistLocked: WriteFile empties the file it writes, then fills it.
\* Mutant: WritesInPlace writes the file itself.
WritesInPlace(content) == file' = content /\ temp' = temp
Writes(content) == temp' = content /\ UNCHANGED file

OpenFile(a) ==
    /\ applying[a].at = "opening" /\ Writes(Torn) /\ Goes(a, "writing")
    /\ UNCHANGED <<live, jar, kept>>

FillFile(a) ==
    /\ applying[a].at = "writing" /\ Writes(jar) /\ Goes(a, "renaming")
    /\ UNCHANGED <<live, jar, kept>>

\* The directory, the file or its content cannot be written.
WriteFails(a) ==
    /\ applying[a].at \in {"opening", "writing"} /\ Returns(a)
    /\ UNCHANGED <<live, jar, file, temp, kept>>

RenameFile(a) ==
    /\ applying[a].at = "renaming" /\ Returns(a)
    /\ \/ file' = temp /\ kept' = applying[a].with
       \/ UNCHANGED <<file, kept>>
    /\ temp' = Nothing
    /\ UNCHANGED <<live, jar>>

\* NewCookieStore: a file that does not parse counts as none.
StoreRestarts ==
    /\ applying' = [a \in Appliers |-> Idle] /\ live' = Nothing
    /\ jar' = IF file = Torn THEN Nothing ELSE file
    /\ UNCHANGED <<file, temp, kept>>

StoreNext ==
    \/ StoreRestarts
    \/ \E a \in Appliers :
         \/ \E j \in Jars : ApplyLive(a, j)
         \/ DeleteJar(a) \/ TakeLock(a) \/ OpenFile(a) \/ FillFile(a) \/ WriteFails(a) \/ RenameFile(a)

StoreSpec == StoreInit /\ [][StoreNext]_storeVars

----------------------------------------------------------------------------
\* "A crash mid-write cannot leave a truncated JSON behind" (CookieStore): whenever the process
\* dies, the next one finds the jar of the last Save that reported success.
CrashKeepsJar == file = kept

\* Not kept: the order in which two callers reach the transport need not be that in which they
\* reach the store, a Save that failed leaves its jar in memory only, and Delete is not told to
\* the transport.
StoreFollowsLive ==
    (\A a \in Appliers : applying[a] = Idle) /\ live # Nothing => live = jar /\ jar = file
=============================================================================
