---------------------------- MODULE MCSrtTransfer ----------------------------
EXTENDS SrtTransfer
\* The first two messages may be read in any order, the third waits for both.
MCFlags == <<{FALSE}, {FALSE}, {TRUE}>>
MCTwoFlags == <<{FALSE}, {FALSE}>>
=============================================================================
