------------------------------ MODULE MCBlock ------------------------------
EXTENDS Block, TLC

Tracked == {"WRITABLE", "WRITE_TRACKED"}
Zeroed  == {"WRITABLE", "ALLOCATE_FROM_ZERO"}

BGrants == <<{Tracked}, {Tracked, {"READ_ONLY"}}, {Zeroed}>>
LGrants == <<{Tracked}, {Tracked}>>
NGrants == <<{Tracked}, {Tracked, {"NO_ACCESS"}}>>
BSymmetry == Permutations(Pages) \cup Permutations(Users)
=============================================================================
