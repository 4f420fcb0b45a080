----------------------------- MODULE MCCumBuffer -----------------------------
(* Small chunks of distinct bytes for CumBufferSpec: shorter than, as long *)
(* as and longer than the initial buffer.                                  *)
EXTENDS CumBufferSpec

MCChunk == {<<1>>, <<2, 3>>, <<4, 5, 6>>, <<1, 2, 3, 4, 5, 6, 7>>}
=============================================================================
