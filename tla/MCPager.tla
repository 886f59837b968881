------------------------------ MODULE MCPager ------------------------------
(* The pager with three of its signals and a pipe shorter than the output.  *)
(* The tool has been started with its three standard descriptors.           *)
(* MCPagerQuit runs show, which flushes its output by itself.               *)
EXTENDS Pager

AllOpen == {{0, 1, 2}}
============================================================================
