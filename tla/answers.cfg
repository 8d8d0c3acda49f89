\* Every part that waits for an answer; the instances are in MCAnswers.
SPECIFICATION FairSpec
PROPERTIES EveryPathLeadsToLive TabSettles FilmIsExact PanelsAnswer
CHECK_DEADLOCK FALSE
