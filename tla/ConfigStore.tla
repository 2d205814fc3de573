----------------------------- MODULE ConfigStore ----------------------------
(***************************************************************************)
(* The configuration block (common/config_system/config_system.c) as the   *)
(* store and restore objects (common/canopendriver/CO_driver_storage.c),   *)
(* LSS (lss_cb.c) and the read-out (flasher_sdo.c) use it. Loader and      *)
(* application keep their values in the same block in flash, each knows    *)
(* only its own table (g_device_config) and has to carry over the entries  *)
(* of the other.                                                           *)
(*                                                                         *)
(* A block whose CRC is right is a function from keys to entries; anything *)
(* else is Torn. A save erases the page and writes it again in place, and  *)
(* in between power may fail or the flash may refuse.                      *)
(***************************************************************************)
EXTENDS Integers, FiniteSetsExt

CONSTANTS
  Firmwares,   (* the firmwares that share the block                       *)
  Keys,        (* entry names                                              *)
  Values,      (* contents of an entry                                     *)
  Native,      (* Native[f]: the keys in the table of firmware f           *)
  Size,        (* Size[f][k]: size of the variable behind k in f           *)
  Default,     (* Default[f][k]: its value after a reset                   *)
  KeyLength,   (* KeyLength[k]: strlen of the key                          *)
  CfgSize,     (* CFG_SIZE                                                 *)
  Torn, Off, Unsaved

Sizes == {Size[f][k] : f \in Firmwares, k \in Keys}
Entry == [size : Sizes, value : Values]

ASSUME TablesAssumption ==
  /\ Native \in [Firmwares -> SUBSET Keys]
  /\ Size \in [Firmwares -> [Keys -> Nat]]
  /\ Default \in [Firmwares -> [Keys -> Values]]
  /\ Off \notin Firmwares
  /\ Unsaved \notin Entry

ASSUME TornAssumption == \A S \in SUBSET Keys : Torn \notin [S -> Entry] /\ Off \notin [S -> Entry]

VARIABLES
  block,        (* the CFG page                                            *)
  run,          (* the running firmware                                    *)
  ram,          (* the variables behind the table of the running firmware  *)
  config_valid,
  address,      (* data_abs_address: "none", "current", or "stale": set    *)
                (* for a block that has been rewritten since               *)
  writing,      (* the block a save has begun to write, or Off             *)
  promise,      (* history: the entry of the last save that was answered   *)
                (* with OK, unless the block was lost since                *)
  refused       (* history: a save was refused for want of space           *)

vars == <<block, run, ram, config_valid, address, writing, promise, refused>>

WholeBlocks == UNION {[S -> Entry] : S \in SUBSET Keys}
Nothing     == [k \in {} |-> Unsaved]
NoPromise   == [k \in Keys |-> Unsaved]
NoAddress   == [k \in Keys |-> "none"]

Init ==
  /\ block = Torn
  /\ run = Off
  /\ ram \in [Keys -> Values]
  /\ config_valid = FALSE
  /\ address = NoAddress
  /\ writing = Off
  /\ promise = NoPromise
  /\ refused = FALSE

-----------------------------------------------------------------------------
(* config_validate of block b by firmware f: the keys whose address it     *)
(* fills in. An entry of another size is not found. Faulty variant: the    *)
(* size of the size field (length_size) is compared.                       *)
FoundByLengthSize(f, b) == {k \in Native[f] \cap DOMAIN b : Size[f][k] = 2}

Found(f, b) == {k \in Native[f] \cap DOMAIN b : b[k].size = Size[f][k]}

(* What a validation leaves of the addresses. Faulty variant: an address   *)
(* that is known is not looked for again.                                  *)
ValidatedOnce(f, b, addr) ==
  [k \in Keys |->
     IF b # Torn /\ k \in Found(f, b) /\ addr[k] = "none" THEN "current" ELSE addr[k]]

Validated(f, b, addr) ==
  [k \in Keys |-> IF b # Torn /\ k \in Found(f, b) THEN "current" ELSE addr[k]]

(* config_read_storage. A stale address points anywhere in the block.      *)
ReadStorage(f, b, addr, old) ==
  {r \in [Keys -> Values] :
     \A k \in Keys :
       IF k \notin Native[f] \/ addr[k] = "none" THEN r[k] = old[k]
       ELSE addr[k] = "current" => r[k] = b[k].value}

(* cfg_read: validate, and read if the block is whole.                     *)
CfgRead(f, addr, old) ==
  /\ config_valid' = (block # Torn)
  /\ address' = Validated(f, block, addr)
  /\ IF block # Torn THEN ram' \in ReadStorage(f, block, address', old) ELSE ram' = old

(* CO_driver_storage_init after a reset.                                   *)
Boot(f) ==
  /\ run = Off
  /\ run' = f
  /\ CfgRead(f, NoAddress, Default[f])
  /\ UNCHANGED <<block, writing, promise, refused>>

Running == run # Off /\ writing = Off

(* The master or LSS writes a variable.                                    *)
SetValue(k, v) ==
  /\ Running
  /\ k \in Native[run]
  /\ ram' = [ram EXCEPT ![k] = v]
  /\ UNCHANGED <<block, run, config_valid, address, writing, promise, refused>>

-----------------------------------------------------------------------------
(* config_write_storage. The entries of the other firmware are carried over*)
(* if the block is known to be whole. Faulty variant: all are dropped.     *)
NewBlockNativeOnly == [k \in Native[run] |-> [size |-> Size[run][k], value |-> ram[k]]]

NewBlock ==
  LET old == IF config_valid THEN block ELSE Nothing
  IN [k \in Native[run] \cup DOMAIN old |->
        IF k \in Native[run] THEN [size |-> Size[run][k], value |-> ram[k]] ELSE old[k]]

(* Size field, entries with their zero-terminated keys and size fields,    *)
(* padding to a multiple of 4, CRC.                                        *)
Length(b) ==
  LET bytes == 8 + MapThenSumSet(LAMBDA k : KeyLength[k] + 1 + 2 + b[k].size, DOMAIN b)
  IN bytes + ((4 - (bytes % 4)) % 4)

(* Faulty variant: the check of the native table is all there is.          *)
FitsNative(b) == Length([k \in Native[run] |-> b[k]]) <= CfgSize

Fits(b) == Length(b) <= CfgSize

(* The block does not fit: nothing is written.                             *)
SaveRefused ==
  /\ Running
  /\ ~Fits(NewBlock)
  /\ config_valid' = FALSE
  /\ refused' = TRUE
  /\ UNCHANGED <<block, run, ram, address, writing, promise>>

(* The first chunk erases the page.                                        *)
SaveBegin ==
  /\ Running
  /\ Fits(NewBlock)
  /\ config_valid' = FALSE
  /\ block' = Torn
  /\ writing' = NewBlock
  /\ address' = [k \in Keys |-> IF address[k] = "none" THEN "none" ELSE "stale"]
  /\ UNCHANGED <<run, ram, promise, refused>>

(* The chunk with the CRC; drv_store and lss_store_cfg then validate, and  *)
(* the master gets an OK.                                                  *)
SaveDone ==
  /\ writing # Off
  /\ block' = writing
  /\ writing' = Off
  /\ config_valid' = TRUE
  /\ address' = Validated(run, writing, address)
  /\ promise' = [k \in Keys |-> IF k \in Native[run] THEN writing[k] ELSE promise[k]]
  /\ UNCHANGED <<run, ram, refused>>

(* A chunk cannot be written.                                              *)
SaveFails ==
  /\ writing # Off
  /\ writing' = Off
  /\ promise' = NoPromise
  /\ UNCHANGED <<block, run, ram, config_valid, address, refused>>

(* drv_restore; config_validate on behalf of a read-out.                   *)
Restore ==
  /\ Running
  /\ CfgRead(run, address, ram)
  /\ UNCHANGED <<block, run, writing, promise, refused>>

ReadOut ==
  /\ Running
  /\ config_valid' = (block # Torn)
  /\ address' = Validated(run, block, address)
  /\ UNCHANGED <<block, run, ram, writing, promise, refused>>

(* Reset or power loss, also in the middle of a save.                      *)
Reset ==
  /\ run # Off
  /\ run' = Off
  /\ config_valid' = FALSE
  /\ address' = NoAddress
  /\ writing' = Off
  /\ promise' = IF writing = Off THEN promise ELSE NoPromise
  /\ UNCHANGED <<block, ram, refused>>

Next ==
  \/ \E f \in Firmwares : Boot(f)
  \/ \E k \in Keys, v \in Values : SetValue(k, v)
  \/ SaveRefused
  \/ SaveBegin
  \/ SaveDone
  \/ SaveFails
  \/ Restore
  \/ ReadOut
  \/ Reset

Spec == Init /\ [][Next]_vars

-----------------------------------------------------------------------------
(* Types; the block lies within its page.                                  *)
TypeOK ==
  /\ block \in WholeBlocks \cup {Torn}
  /\ run \in Firmwares \cup {Off}
  /\ ram \in [Keys -> Values]
  /\ config_valid \in BOOLEAN
  /\ address \in [Keys -> {"none", "current", "stale"}]
  /\ writing \in WholeBlocks \cup {Off}
  /\ promise \in [Keys -> Entry \cup {Unsaved}]
  /\ refused \in BOOLEAN
  /\ block # Torn => Length(block) <= CfgSize

(* A save parses the old block, with the sizes it finds there, only if it  *)
(* is whole: a save or a read that failed half-way never leaves the mark.  *)
ValidIsWhole == config_valid => block # Torn

(* The values of the table are never read from where they were in a block  *)
(* that has been rewritten since.                                          *)
AddressesFresh ==
  config_valid => \A k \in Native[run] : address[k] # "stale"

Kept == \A k \in Keys : promise[k] # Unsaved => k \in DOMAIN block /\ block[k] = promise[k]

(* What a save has acknowledged stays, through the saves of the other      *)
(* firmware, until it is saved again or a save is interrupted - as long as *)
(* no save is refused.                                                     *)
AcknowledgedKept == ~refused /\ block # Torn => Kept

(* And it comes back: a firmware starts with what was acknowledged last,   *)
(* whichever firmware saved it, if both have the variable in one size.     *)
SavedComesBack ==
  [][\A f \in Firmwares :
       Boot(f) /\ ~refused =>
         \A k \in Native[f] :
           promise[k] # Unsaved /\ block # Torn /\ promise[k].size = Size[f][k] =>
             ram'[k] = promise[k].value]_vars

(* "config is valid ... must be copied later" and "write entry from old    *)
(* config to the new config": a save that is refused writes nothing, so the*)
(* entries of the other firmware are still there to be carried over by the *)
(* next one.                                                               *)
ForeignKept == block # Torn => Kept
=============================================================================
