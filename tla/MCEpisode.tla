-------------------------------- MODULE MCEpisode --------------------------------
EXTENDS Episode

MCLevels == {<<"Dungeon", 1>>, <<"Dungeon", 2>>, <<"Temple", 0>>}
MCStart == <<"Dungeon", 1>>
MCCoordinates == {<<0, 0>>, <<1, 0>>, <<1, 1>>}
===============================================================================
