------------------------------ MODULE FileLoad ------------------------------
(***************************************************************************)
(* The storage steps the FFT and hotspot harnesses take to fill a global  *)
(* buffer from a file:                                                    *)
(*     h = FileOpen (name);  if (h == 0) report openErr;                  *)
(*     while ((n = FileRead (h, buf, SIZE)) > 0)                          *)
(*         if (n == FS_ERROR) { report readErr; break; }                  *)
(*     if (!FileClose (h)) report closeErr;                               *)
(* Each FileRead call is one step.  Every call reads the next SIZE bytes  *)
(* of the file into the START of buf, so a loop leaves in buf the last    *)
(* chunk it read, over the first Width(chunk) elements.  A file is a      *)
(* sequence of SIZE-byte chunks; FileRead of handle 0 returns FS_ERROR,   *)
(* FileClose of handle 0 fails.                                           *)
(***************************************************************************)
EXTENDS Naturals, Sequences

CONSTANTS
  StorageFaults   \* whether an open or a read of a present file may fail

VARIABLES
  pc,        \* the startup step about to run
  mounted,   \* m_FileSystem.Mount succeeded
  fh,        \* the open file's handle is valid (non-zero)
  fpos,      \* the next chunk of the open file a FileRead returns
  mem,       \* the global buffers, by name
  boot       \* status words sent before the loop

(* A chunk copied over the start of a buffer. *)
Overlay(b, chunk) ==
  [x \in DOMAIN b |-> IF x \in DOMAIN chunk THEN chunk[x] ELSE b[x]]

(* FileOpen succeeds on a mounted partition holding the file. *)
Open(errWord, next) ==
  /\ \/ mounted /\ fh' = TRUE /\ boot' = boot
     \/ (StorageFaults \/ ~mounted) /\ fh' = FALSE
        /\ boot' = Append(boot, errWord)
  /\ fpos' = 1
  /\ pc' = next
  /\ UNCHANGED <<mounted, mem>>

(* One FileRead of the loop.  A chunk: copied to the start of buf, the    *)
(* loop goes on.  0 at end of file: the loop ends.  FS_ERROR (handle 0,  *)
(* or a failing card): errWord is sent and the loop breaks.              *)
ReadStep(buf, file, errWord, next) ==
  /\ \/ /\ fh /\ fpos <= Len(file)
        /\ mem' = [mem EXCEPT ![buf] = Overlay(@, file[fpos])]
        /\ fpos' = fpos + 1
        /\ UNCHANGED <<pc, boot>>
     \/ /\ fh /\ fpos > Len(file)
        /\ pc' = next
        /\ UNCHANGED <<mem, fpos, boot>>
     \/ /\ (~fh \/ StorageFaults)
        /\ boot' = Append(boot, errWord)
        /\ pc' = next
        /\ UNCHANGED <<mem, fpos>>
  /\ UNCHANGED <<mounted, fh>>

(* FileClose: closing handle 0 fails and sends errWord. *)
Close(errWord, next) ==
  /\ boot' = IF fh THEN boot ELSE Append(boot, errWord)
  /\ fh' = FALSE
  /\ pc' = next
  /\ UNCHANGED <<mounted, fpos, mem>>
=============================================================================
