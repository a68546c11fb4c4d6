---------------------------- MODULE ProcessPaths ----------------------------
(***************************************************************************)
(* The readlink(2) handling of getExec and findProcessesByExec            *)
(* (src/unnamed/part_002).  Both read /proc/<pid>/exe into a fixed       *)
(* buffer; readlink returns min(length of the link, buffer size) bytes  *)
(* and no terminating NUL, so a full buffer cannot tell a link of exactly *)
(* that length from a longer, truncated one.  A call's arguments are the *)
(* link target (str) and, for findProcessesByExec, the exec path (pat),  *)
(* both taken from StringPredicates' inputs; the buffer sizes 4096 and   *)
(* 65536 and the " (deleted)" suffix are scaled down by the constants.   *)
(***************************************************************************)
EXTENDS StringPredicates

CONSTANTS
    ExeBuf,         \* array<char, 4096> buff of getExec
    ExeBigBuf,      \* array<char, 65536> buff2 of getExec
    DeletedSuffix,  \* " (deleted)", which readlink appends for a deleted exe
    Throws          \* getExec throws std::runtime_error("Failed: readlink()")

ASSUME ExeBuf \in Nat /\ ExeBigBuf \in Nat /\ 0 < ExeBuf /\ ExeBuf < ExeBigBuf
       /\ DeletedSuffix \in Seq(0..127) /\ DeletedSuffix # << >>

(* readlink(path, buf, bufsiz) on a link whose target is t: the first    *)
(* min(|t|, bufsiz) bytes.                                                *)
Readlink(t, bufsiz) == SubSeq(t, 1, MinOf(Len(t), bufsiz))

(* Mutant: the retry taken only when rc exceeds the buffer size.          *)
GetExecRetryAfterFull(t) ==
    IF Len(Readlink(t, ExeBuf)) > ExeBuf
    THEN IF Len(Readlink(t, ExeBigBuf)) >= ExeBigBuf THEN Throws
         ELSE Readlink(t, ExeBigBuf)
    ELSE Readlink(t, ExeBuf)

(* getExec(pid): a full first buffer (rc >= buff.size()) may be a       *)
(* truncation, so the link is read again into buff2; a full buff2        *)
(* throws.  The readlink errors (rc == -1) throw as well and are left   *)
(* out: they depend on the process, not on the target.                   *)
GetExec(t) ==
    IF Len(Readlink(t, ExeBuf)) >= ExeBuf
    THEN IF Len(Readlink(t, ExeBigBuf)) >= ExeBigBuf THEN Throws
         ELSE Readlink(t, ExeBigBuf)
    ELSE Readlink(t, ExeBuf)

(* Mutant: buff_size without the + 1 for the terminating null.           *)
ExeBuffSizeNoNul(exec) == Len(exec \o DeletedSuffix)

(* buff_size = exec_deleted.size() + 1                                    *)
ExeBuffSize(exec) == Len(exec \o DeletedSuffix) + 1

(* One /proc entry of findProcessesByExec(exec): readlink into buff_size *)
(* bytes, skip the entry when len >= buff_size, otherwise match buff      *)
(* against exec and exec + " (deleted)".  An empty exec returns {}.       *)
ProcessMatches(exec, t) ==
    /\ exec # << >>
    /\ Len(Readlink(t, ExeBuffSize(exec))) < ExeBuffSize(exec)
    /\ Readlink(t, ExeBuffSize(exec)) \in {exec, exec \o DeletedSuffix}

-----------------------------------------------------------------------------
(* getExec returns the whole link target or throws, never a truncated    *)
(* prefix, at both buffer boundaries (a target of exactly 4096 or 65536  *)
(* bytes fills the buffer like a longer one); it throws only for a       *)
(* target that does not fit in buff2.                                     *)
GetExecReturnsWholeLink ==
    IF Len(str) < ExeBigBuf THEN GetExec(str) = str ELSE GetExec(str) = Throws

(* findProcessesByExec reports a process exactly when its exe link is    *)
(* exec or exec + " (deleted)": a longer target is cut by readlink and   *)
(* skipped, never mistaken for one of the two.                            *)
ProcessMatchedExactly ==
    ProcessMatches(pat, str) = (pat # << >> /\ str \in {pat, pat \o DeletedSuffix})

=============================================================================
