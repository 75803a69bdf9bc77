CONSTANT Width = 3
SPECIFICATION GeoSpec
INVARIANT CanvasMirrorsHub
