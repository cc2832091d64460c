---------------------------- MODULE MCSnapshots ----------------------------
(***************************************************************************)
(* Snapshots with frames whose numbers of entities differ: in the first    *)
(* map the ring of frames runs full before the storage does, in the second *)
(* the storage before the ring of frames.                                  *)
(***************************************************************************)
EXTENDS Snapshots

MCEntities == << <<1, 0, 2, 1>>, <<2, 2>> >>
=============================================================================
