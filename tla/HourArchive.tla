---------------------------- MODULE HourArchive ----------------------------
(***************************************************************************)
(* What merging promises to whoever reads the recordings of a camera: each *)
(* listed recording holds some footage, a merge moves the footage of whole *)
(* recordings into one of them in a single step, and nothing but a deletion*)
(* removes footage from the archive.                                       *)
(***************************************************************************)
CONSTANTS
    Recordings,  \* identities of recordings
    Deletable    \* the recordings somebody may delete

VARIABLE archive  \* the footage of each recording, {} if it is not listed

Listed == {r \in Recordings : archive[r] # {}}

FootageOf(S) == UNION {archive[r] : r \in S}

\* A recording the recorder has closed holds itself as footage.
Record(r) ==
    /\ archive[r] = {}
    /\ \A q \in Recordings : r \notin archive[q]
    /\ archive' = [archive EXCEPT ![r] = {r}]

\* The recordings S become part of h.
Absorb(h, S) ==
    /\ h \notin S
    /\ archive' = [r \in Recordings |->
                      IF r = h THEN archive[h] \cup FootageOf(S)
                      ELSE IF r \in S THEN {} ELSE archive[r]]

Delete(r) == archive' = [archive EXCEPT ![r] = {}]

ArchiveInit == archive \in [Recordings -> SUBSET Recordings]

ArchiveNext ==
    \/ \E r \in Recordings : Record(r)
    \/ \E h \in Recordings, S \in SUBSET Listed : Absorb(h, S)
    \/ \E r \in Deletable : Delete(r)

ArchiveSpec == ArchiveInit /\ [][ArchiveNext]_archive

=============================================================================
