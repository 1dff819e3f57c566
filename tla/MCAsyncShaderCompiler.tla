------------------------ MODULE MCAsyncShaderCompiler ------------------------
(* Two node previews share the compiler.  No symmetry: the run checks       *)
(* liveness, and the keys differ in nothing but their requests.             *)
EXTENDS AsyncShaderCompiler
=============================================================================
