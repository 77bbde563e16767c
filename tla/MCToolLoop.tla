------------------------------ MODULE MCToolLoop ------------------------------
EXTENDS ToolLoop

CONSTANTS b1, c1, c2

MCBrains == {b1}
MCChats == {c1, c2}
================================================================================
