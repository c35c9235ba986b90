-------------------------- MODULE AuthorizeCommands --------------------------
(* fast authorize request and fast authorize complete: processes that share *)
(* one unlocked file with the pending request, and its one temporary name.  *)
(* Each process has an agent of its own, restored from what it read.        *)
EXTENDS KeyHandover

VARIABLES
  file,     \* handover-pending.json: a request with its failure count
  tmp,      \* handover-pending.json.tmp
  tries,    \* failed decryptions of each request by complete
  printed,  \* times each request's private key was printed
  \* history: the failures and prints of completes that met no other command
  \* and that ran to their end
  soleTries, solePrints

sole == <<soleTries, solePrints>>
files == <<file, tmp, tries, printed, sole>>

NoFile == [req |-> 0, fails |-> 0]
Torn == [req |-> 0, fails |-> 1]   \* truncated by a writer that has not written yet
Live(f) == f.req > expired

FilesInit ==
  /\ file = NoFile
  /\ tmp = NoFile
  /\ tries = [r \in 1..MaxOps |-> 0]
  /\ printed = [r \in 1..MaxOps |-> 0]
  /\ soleTries = [r \in 1..MaxOps |-> 0]
  /\ solePrints = [r \in 1..MaxOps |-> 0]

\* did: what a complete has done with its request.
Cli(pc, req, fails, did) ==
  [in |-> "pending", pc |-> pc, req |-> req, fails |-> fails, fd |-> "none", did |-> did]
Mine(a) == [req |-> at[a].req, fails |-> at[a].fails]
Done(a, did) ==
  LET counted(count, d) == IF did = d /\ a \notin overlapped
                             THEN [count EXCEPT ![at[a].req] = @ + 1] ELSE count
  IN soleTries' = counted(soleTries, "try") /\ solePrints' = counted(solePrints, "print")

(* request: a file that is missing or corrupt is ignored, an unexpired      *)
(* request refused, an expired one deleted before the key is generated.     *)
ReadExisting(a) ==
  /\ ~Live(file)
  /\ Begin(a, "pending", Cli(IF file.req = 0 THEN "generate" ELSE "replace", 0, 0, "none"))
  /\ UNCHANGED <<agent, files>>
Unlinked(a, next) ==
  /\ file' = NoFile
  /\ at' = [b \in Actors |-> IF b = a THEN next
                             ELSE IF In(b, "pending", "fill")
                               THEN [at[b] EXCEPT !.fd = IF @ = "file" THEN "none" ELSE @]
                             ELSE at[b]]
  /\ Done(a, at[a].did)
  /\ UNCHANGED <<ops, faults, overlapped, agent, tmp, tries, printed>>
Replace(a) ==
  /\ In(a, "pending", "replace")
  /\ Unlinked(a, [at[a] EXCEPT !.pc = "generate"])
Generate(a) ==
  /\ In(a, "pending", "generate")
  /\ issued' = issued + 1
  /\ Go(a, Cli("open", issued', 0, "none"))
  /\ UNCHANGED <<expired, record, begun, released, crossed, files>>

(* complete: the file is read before the handover message is asked for,     *)
(* which may take any time.                                                 *)
ReadPending(a) ==
  /\ file.req # 0
  /\ Begin(a, "pending", Cli("message", file.req, file.fails, "none"))
  /\ UNCHANGED <<agent, files>>

(* The restored agent decrypts: a malformed code leaves the file alone, an  *)
(* expired request or the last failure deletes it, another failure is       *)
(* written back.                                                            *)
MalformedDeletes(a) ==
  /\ In(a, "pending", "message")
  /\ Goto(a, "unlink")
  /\ UNCHANGED <<agent, files>>
Malformed(a) ==
  /\ In(a, "pending", "message")
  /\ Exit(a)
  /\ UNCHANGED <<agent, files>>
Decrypt(a) ==
  /\ In(a, "pending", "message")
  /\ \E c \in Codes :
       LET r == at[a].req
           rec == [req |-> r, state |-> "pending", fails |-> at[a].fails] IN
       IF ~Consumable(rec)
         THEN Goto(a, "unlink") /\ UNCHANGED tries
       ELSE IF c = r
         THEN Goto(a, "print") /\ UNCHANGED tries
       ELSE /\ tries' = [tries EXCEPT ![r] = @ + 1]
            /\ IF TooMany(rec) THEN Go(a, Cli("unlink", r, at[a].fails, "try"))
               ELSE Go(a, Cli("open", r, RecordFailure(rec).fails, "try"))
  /\ UNCHANGED <<agent, file, tmp, printed, sole>>
PrintKeyKeeping(a) ==
  /\ In(a, "pending", "print")
  /\ printed' = [printed EXCEPT ![at[a].req] = @ + 1]
  /\ Done(a, "print")
  /\ Exit(a)
  /\ UNCHANGED <<agent, file, tmp, tries>>
PrintKey(a) ==
  /\ In(a, "pending", "print")
  /\ printed' = [printed EXCEPT ![at[a].req] = @ + 1]
  /\ Go(a, Cli("unlink", at[a].req, at[a].fails, "print"))
  /\ UNCHANGED <<agent, file, tmp, tries, sole>>
Unlink(a) ==
  /\ In(a, "pending", "unlink")
  /\ Unlinked(a, Idle)

(* atomicWrite: open and truncate the temporary file, write it, rename it.  *)
(* Another process may have opened the same one, or renamed it away.        *)
OpenTmp(a) ==
  /\ In(a, "pending", "open")
  /\ tmp' = Torn
  /\ Go(a, [at[a] EXCEPT !.pc = "fill", !.fd = "tmp"])
  /\ UNCHANGED <<agent, file, tries, printed, sole>>
FillTmp(a) ==
  /\ In(a, "pending", "fill")
  /\ tmp' = IF at[a].fd = "tmp" THEN Mine(a) ELSE tmp
  /\ file' = IF at[a].fd = "file" THEN Mine(a) ELSE file
  /\ Goto(a, "rename")
  /\ UNCHANGED <<agent, tries, printed, sole>>
RenameTmp(a) ==
  /\ In(a, "pending", "rename")
  /\ IF tmp = NoFile
       THEN Exit(a) /\ UNCHANGED files
       ELSE /\ file' = tmp
            /\ tmp' = NoFile
            /\ at' = [b \in Actors |->
                 IF b = a THEN Idle
                 ELSE IF In(b, "pending", "fill")
                   THEN [at[b] EXCEPT !.fd = IF @ = "tmp" THEN "file" ELSE "none"]
                 ELSE at[b]]
            /\ Done(a, at[a].did)
            /\ UNCHANGED <<ops, faults, overlapped, tries, printed>>
  /\ UNCHANGED agent

AuthorizeDies(a) ==
  /\ at[a].in = "pending"
  /\ Fault(a)
  /\ UNCHANGED <<agent, files>>

AuthorizeNext(a) ==
  \/ ReadExisting(a) \/ Replace(a) \/ Generate(a)
  \/ ReadPending(a) \/ Malformed(a) \/ Decrypt(a) \/ PrintKey(a) \/ Unlink(a)
  \/ OpenTmp(a) \/ FillTmp(a) \/ RenameTmp(a)
  \/ AuthorizeDies(a)
-----------------------------------------------------------------------------
FilesTypeOK == {file, tmp} \subseteq {Torn} \cup [req : 0..MaxOps, fails : 0..MaxFailures - 1]

(* Over all the processes that restore a request, its key serves at most     *)
(* MaxFailures failed decryptions and one print by completes that no other   *)
(* command met and no death cut short; and once it is printed or spent by    *)
(* them it is not in the file again, whatever commands that met, or died at  *)
(* any step, left there: commands/authorize/complete.ts, steps 1 to 6.       *)
RequestSpent ==
  \A r \in 1..issued :
    /\ soleTries[r] <= MaxFailures /\ solePrints[r] <= 1
    /\ soleTries[r] = MaxFailures \/ solePrints[r] = 1 => file.req # r

(* Whatever dies at whichever step, a pending request that has not expired   *)
(* leaves the file only because its key was printed or its attempts are used *)
(* up, and one that was tried or printed does not come back to it, unless    *)
(* the command that does it has met another one: the file has no lock, and   *)
(* that is the only way to lose a request or to restore its attempts.        *)
PendingKept ==
  [][/\ Live(file) /\ file'.req # file.req
          => printed[file.req] > 0 \/ tries[file.req] >= MaxFailures \/ Meddles("pending")
     /\ file'.req \notin {0, file.req}
          => (printed[file'.req] = 0 /\ tries[file'.req] = 0) \/ Meddles("pending")
    ]_<<activity, agent, files>>
=============================================================================
