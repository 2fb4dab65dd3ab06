---------------------------- MODULE JobWorkerMC ----------------------------
(* A job that is cancelled, lost and retried, under a worker that fails. *)
EXTENDS JobWorker, TLC

CONSTANTS job1, s1, s2

OneImport == job1 :> "import_channel_archive"

CodeLimit == [e \in EntrypointName |-> IF e = "reindex_document" THEN 2 ELSE 1]
============================================================================
