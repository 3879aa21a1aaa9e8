---------------------- MODULE MCCompositionPublisher -----------------------
\* A small instance of CompositionPublisher: slim drops a file that wide has.
EXTENDS CompositionPublisher, TLC

Files(config, manifest, tool, old) ==
  ("config" :> config) @@ ("manifest" :> manifest) @@ ("tool" :> tool) @@ ("old" :> old)

SlimOverWide ==
  ("wide" :> Files("c", "m1", "t1", "o")) @@ ("slim" :> Files("c", "m2", "t2", Absent))

ByteOrder == ("config" :> 1) @@ ("manifest" :> 2) @@ ("tool" :> 3) @@ ("old" :> 4)

BothSymmetric == Permutations(Tokens) \cup Permutations(Publishers)
=============================================================================
