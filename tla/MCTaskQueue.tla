---------------------------- MODULE MCTaskQueue ----------------------------
(* Small instances of TaskQueue: one document whose transcription depends   *)
(* on its reencoding.                                                       *)
EXTENDS TaskQueue, TLC

CONSTANTS doc, reencode, transcribe, export

MCDocumentOf == [t \in Tasks |-> doc]

MCDependsOn == [t \in Tasks |-> IF t = transcribe THEN {reencode} ELSE {}]

MCServes == [w \in Workers |-> Tasks]

MCSymmetry == Permutations(Workers) \cup Permutations(Handlers)
=============================================================================
