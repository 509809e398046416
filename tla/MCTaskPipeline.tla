---------------------------- MODULE MCTaskPipeline ----------------------------
EXTENDS TaskPipeline, TLC

WorkerSymmetry == Permutations(Workers)

===============================================================================
