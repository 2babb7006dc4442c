-------------------------- MODULE SuperBlockStore --------------------------
(***************************************************************************)
(* The super block chain implements AtomicStore: the cell holds what       *)
(* locate() would find at this moment.                                     *)
(***************************************************************************)
EXTENDS SuperBlock

Store == INSTANCE AtomicStore WITH
    stored  <- Super(flash).link.value,
    pending <- IF mode \in {"saving", "creating"} THEN sb.value ELSE Nothing

(* The volume is one atomic, durable cell: however writes, losses of power  *)
(* and reported failures follow one another, locate() finds the contents    *)
(* saved last or those being saved, and create() and save() return true     *)
(* only once it finds the latter.                                           *)
ActsAsStore == Store!StoreSpec
=============================================================================
